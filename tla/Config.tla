------------------------------- MODULE Config -------------------------------
(***************************************************************************)
(* internal/config/config.go: from the environment and the file .env to a  *)
(* configuration, or an error.                                             *)
(*                                                                         *)
(* The text of a variable is its kind and a number: "int" is what Atoi     *)
(* reads, "dur" what only ParseDuration reads (n milliseconds), "word" any *)
(* other text (number n of them), "unset" an absent or empty variable.     *)
(* A setting has a variable of the same name (CHRONOMETRICS_...) and some  *)
(* have an older one.  The settings that are parsed in the same way and    *)
(* handed on (timeouts of the server, the pool, the password) are left out.*)
(***************************************************************************)
EXTENDS Integers, Sequences, FiniteSets

Unset == [kind |-> "unset", n |-> 0]
Int_(n) == [kind |-> "int", n |-> n]
Dur(n) == [kind |-> "dur", n |-> n]
Word(n) == [kind |-> "word", n |-> n]

Memory == Word(0)      \* the text "memory"

Words == {"strategy", "addr", "database", "username"}
Numbers == {"port", "capacity", "batchSize", "flushRetries", "maxRetries"}
Durations == {"baseDelay", "maxDelay"}
Millis == {"flushInterval", "flushTimeout"}   \* a duration or a number
Settings == Words \cup Numbers \cup Durations \cup Millis

(* The older variables, which are read last. *)
Older == [strategy |-> "BUFFER_STRATEGY", port |-> "SERVER_PORT",
          capacity |-> "BUFFER_CAPACITY"]

Variables == Settings \cup {Older[s] : s \in DOMAIN Older}

VariablesOf(s) == IF s \in DOMAIN Older THEN <<s, Older[s]>> ELSE <<s>>

Default ==
    [strategy |-> Memory, port |-> 8080, capacity |-> 1000, batchSize |-> 1000,
     flushInterval |-> 100, flushTimeout |-> 10000, flushRetries |-> 3,
     addr |-> Word(1), database |-> Word(1), username |-> Word(1),
     maxRetries |-> 3, baseDelay |-> 500, maxDelay |-> 10000]

-----------------------------------------------------------------------------

(* ParseDuration wants a unit, but takes "0". *)
IsDuration(text) == text.kind = "dur" \/ text = Int_(0)

(* Text that does not parse is ignored, as if the variable were unset. *)
Usable(s, text) ==
    \/ s \in Words /\ text # Unset
    \/ s \in Numbers /\ text.kind = "int"
    \/ s \in Durations /\ IsDuration(text)
    \/ s \in Millis /\ (IsDuration(text) \/ text.kind = "int")

Value(s, text) == IF s \in Words THEN text ELSE text.n

(* The value of a setting: its last usable variable, or the default. *)
Setting(s, environ) ==
    LET usable == {i \in DOMAIN VariablesOf(s) : Usable(s, environ[VariablesOf(s)[i]])}
    IN  IF usable = {}
        THEN Default[s]
        ELSE LET last == CHOOSE i \in usable : \A j \in usable : j <= i
             IN  Value(s, environ[VariablesOf(s)[last]])

(* loadDotEnv sets what the environment does not.  Its mutant sets all. *)
OverlayAll(environment, dotEnv) ==
    [v \in Variables |-> IF dotEnv[v] = Unset THEN environment[v] ELSE dotEnv[v]]
Overlay(environment, dotEnv) ==
    [v \in Variables |-> IF environment[v] = Unset THEN dotEnv[v] ELSE environment[v]]

Required == {"addr", "database", "username"}

(* The required variables that are not set.  Its mutant looks at the       *)
(* configuration, in which the defaults have filled them in.               *)
MissingInConfig(environ) == {s \in Required : Setting(s, environ) = Unset}
Missing(environ) == {s \in Required : environ[s] = Unset}

InRange(cfg) ==
    /\ cfg.port \in 1..65535
    /\ cfg.capacity > 0
    /\ cfg.batchSize \in 1..10000
    /\ cfg.flushRetries \in 0..10

Configuration(environ) == [s \in Settings |-> Setting(s, environ)]

(* Load succeeds. *)
Loads(environ) == Missing(environ) = {} /\ InRange(Configuration(environ))
=============================================================================
