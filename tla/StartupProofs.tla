--------------------------- MODULE StartupProofs ---------------------------
(***************************************************************************)
(* Start-up, proved: whatever the machines, the tables and the number of   *)
(* starts, with crashes at any step.  Four inductive invariants, one each  *)
(* for the configuration, the connection, the schema and the back-off.     *)
(***************************************************************************)
EXTENDS Startup, DataLemmas

(* From Load on the configuration is the environment's, and a connection   *)
(* has been opened with it only.                                           *)
ConfigInv ==
    /\ main \in Loaded => Missing(Environ) = {} /\ cfg = Configuration(Environ)
    /\ conn = "open" => Missing(Environ) = {}

(* The connection and the buffer are there at some stages and not before,  *)
(* and a Build that failed has neither.                                    *)
ConnInv ==
    /\ main \in {"load", "open"} => conn = "none"
    /\ main \in Building \ {"compose"} => buffer = "none"
    /\ NoLeakOnFailure

(* What the migrations of this start have done to the table, and that the  *)
(* buffer waits for all of them.                                           *)
SchemaInv ==
    /\ file \in 0..2
    /\ file > 0 => table # "absent"
    /\ file = 2 => table = "full"
    /\ main = "startBuffer" => file = 2
    /\ SchemaBeforeEvents /\ MigrationsResume

-----------------------------------------------------------------------------

(* No step loses track of what the configuration came from. *)
LEMMA ConfigStep == ConfigInv /\ [Next]_vars => ConfigInv'
<1> SUFFICES ASSUME ConfigInv, [Next]_vars PROVE ConfigInv'
  OBVIOUS
<1> USE DEF ConfigInv, Environ, Loaded, Building
<1>1. CASE Load
  BY <1>1 DEF Load, Loads
<1>2. CASE Open
  BY <1>2 DEF Open
<1>3. CASE PingSucceeds \/ PingFails \/ DelayOver \/ BackoffCancelled
  BY <1>3 DEF PingSucceeds, PingFails, DelayOver, BackoffCancelled
<1>4. CASE Exec \/ MigrationFails \/ MigrationsDone
  BY <1>4 DEF Exec, MigrationFails, MigrationsDone, CloseConn
<1>5. CASE StartBuffer \/ StartTicker \/ Compose
  BY <1>5 DEF StartBuffer, StartTicker, Compose, CloseConn
<1>6. CASE Stop \/ Signal \/ Crash \/ Restart
  BY <1>6 DEF Stop, Signal, Crash, Restart
<1>7. CASE UNCHANGED vars
  BY <1>7 DEF vars, own
<1> QED BY <1>1, <1>2, <1>3, <1>4, <1>5, <1>6, <1>7 DEF Next, MainStep

(* No step of Build or Connect loses the connection or the goroutine. *)
LEMMA ConnStep == ConnInv /\ [Next]_vars => ConnInv'
<1> SUFFICES ASSUME ConnInv, [Next]_vars PROVE ConnInv'
  OBVIOUS
<1> USE DEF ConnInv, NoLeakOnFailure, Building
<1>1. CASE Load \/ Open
  BY <1>1 DEF Load, Open
<1>2. CASE PingSucceeds \/ PingFails \/ DelayOver \/ BackoffCancelled
  BY <1>2 DEF PingSucceeds, PingFails, DelayOver, BackoffCancelled
<1>3. CASE Exec \/ MigrationFails \/ MigrationsDone
  BY <1>3 DEF Exec, MigrationFails, MigrationsDone, CloseConn
<1>4. CASE StartBuffer \/ StartTicker \/ Compose
  BY <1>4 DEF StartBuffer, StartTicker, Compose, CloseConn
<1>5. CASE Stop \/ Signal \/ Crash \/ Restart
  BY <1>5 DEF Stop, Signal, Crash, Restart
<1>6. CASE UNCHANGED vars
  BY <1>6 DEF vars, own
<1> QED BY <1>1, <1>2, <1>3, <1>4, <1>5, <1>6 DEF Next, MainStep

(* A statement that is run at its turn fits, and the table gets no worse.  *)
LEMMA MigrationFits ==
    ASSUME SchemaInv, file < Len(Files)
    PROVE  /\ Len(Files) = 2 /\ Fits(Files[file + 1])
           /\ Migrated(Files[file + 1]) # "absent"
           /\ file = 1 => Migrated(Files[file + 1]) = "full"
           /\ table = "full" => Migrated(Files[file + 1]) = "full"
<1>1. Len(Files) = 2 /\ file \in {0, 1}
  BY DEF SchemaInv, Files
<1>2. CASE file = 0
  BY <1>1, <1>2 DEF Files, Fits, Migrated
<1>3. CASE file = 1
  BY <1>1, <1>3 DEF SchemaInv, Files, Fits, Migrated
<1> QED BY <1>1, <1>2, <1>3

(* No step loses track of what has become of the table. *)
LEMMA SchemaStep == SchemaInv /\ [Next]_vars => SchemaInv'
<1> SUFFICES ASSUME SchemaInv, [Next]_vars PROVE SchemaInv'
  OBVIOUS
<1> USE DEF SchemaInv, SchemaBeforeEvents, MigrationsResume
<1>1. CASE Load \/ Open
  BY <1>1 DEF Load, Open
<1>2. CASE PingSucceeds \/ PingFails \/ DelayOver \/ BackoffCancelled
  BY <1>2 DEF PingSucceeds, PingFails, DelayOver, BackoffCancelled
<1>3. CASE Exec
  BY <1>3, MigrationFits DEF Exec
<1>4. CASE MigrationFails
  BY <1>4, MigrationFits DEF MigrationFails
<1>5. CASE MigrationsDone
  <2>1. Len(Files) = 2
    BY DEF Files
  <2> QED BY <1>5, <2>1 DEF MigrationsDone, MigratedAll
<1>6. CASE StartBuffer \/ StartTicker \/ Compose
  BY <1>6 DEF StartBuffer, StartTicker, Compose
<1>7. CASE Stop \/ Signal \/ Restart
  BY <1>7 DEF Stop, Signal, Restart
<1>8. CASE Crash
  BY <1>8, MigrationFits DEF Crash
<1>9. CASE UNCHANGED vars
  BY <1>9 DEF vars, own
<1> QED BY <1>1, <1>2, <1>3, <1>4, <1>5, <1>6, <1>7, <1>8, <1>9 DEF Next, MainStep

-----------------------------------------------------------------------------

(* Together they are invariants of every start. *)
THEOREM StartupInvariance == Spec => [](ConfigInv /\ ConnInv /\ SchemaInv)
<1>1. Init => ConfigInv /\ ConnInv /\ SchemaInv
  BY DEF Init, ConfigInv, ConnInv, SchemaInv, Loaded, Building, NoLeakOnFailure,
         SchemaBeforeEvents, MigrationsResume
<1> QED BY <1>1, ConfigStep, ConnStep, SchemaStep, PTL DEF Spec

(* There is no connection to a database that nobody named. *)
THEOREM NamedDatabase == Spec => []NoImplicitDatabase
<1>1. ConfigInv => NoImplicitDatabase
  <2>1. Required \subseteq Variables
    BY DEF Required, Variables, Settings, Words
  <2>2. \A s \in Required : Environ[s] =
           IF machine.environment[s] = Unset THEN machine.dotEnv[s]
           ELSE machine.environment[s]
    BY <2>1 DEF Environ, Overlay
  <2> QED BY <2>2 DEF ConfigInv, Missing, NoImplicitDatabase
<1> QED BY <1>1, StartupInvariance, PTL

(* A Build that fails leaves no connection and no goroutine behind it.     *)
THEOREM FailureCleansUp == Spec => []NoLeakOnFailure
<1>1. ConnInv => NoLeakOnFailure
  BY DEF ConnInv
<1> QED BY <1>1, StartupInvariance, PTL

(* No event is buffered for a table that cannot take it. *)
THEOREM SchemaFirst == Spec => []SchemaBeforeEvents
<1>1. SchemaInv => SchemaBeforeEvents
  BY DEF SchemaInv
<1> QED BY <1>1, StartupInvariance, PTL

(* The migrations fit whatever a start before has left. *)
THEOREM MigrationsIdempotent == Spec => []MigrationsResume
<1>1. SchemaInv => MigrationsResume
  BY DEF SchemaInv
<1> QED BY <1>1, StartupInvariance, PTL

-----------------------------------------------------------------------------

(* A setting's last variable decides, if the environment sets it.          *)
LEMMA LastVariableDecides ==
    ASSUME NEW environment, NEW dotEnv, NEW s \in Settings,
           Usable(s, environment[VariablesOf(s)[Len(VariablesOf(s))]])
    PROVE  Setting(s, Overlay(environment, dotEnv))
             = Value(s, environment[VariablesOf(s)[Len(VariablesOf(s))]])
<1> DEFINE n == Len(VariablesOf(s))
           v == VariablesOf(s)[n]
           environ == Overlay(environment, dotEnv)
           usable == {i \in DOMAIN VariablesOf(s) : Usable(s, environ[VariablesOf(s)[i]])}
           last == CHOOSE i \in usable : \A j \in usable : j <= i
<1>1. DOMAIN VariablesOf(s) = 1..n /\ n \in {1, 2}
  <2>1. CASE s \in DOMAIN Older
    <3>1. VariablesOf(s) = <<s, Older[s]>>
      BY <2>1 DEF VariablesOf
    <3> QED BY <3>1
  <2>2. CASE s \notin DOMAIN Older
    <3>1. VariablesOf(s) = <<s>>
      BY <2>2 DEF VariablesOf
    <3> QED BY <3>1
  <2> QED BY <2>1, <2>2
<1>2. v \in Variables
  BY DEF VariablesOf, Variables
<1>3. environment[v] # Unset
  BY DEF Usable, Unset, IsDuration, Int_, Numbers, Durations, Millis
<1>4. environ[v] = environment[v]
  BY <1>2, <1>3 DEF Overlay
<1>5. n \in usable /\ \A j \in usable : j \in Nat /\ j <= n
  BY <1>1, <1>4
<1>6. last \in usable /\ \A j \in usable : j <= last
  BY <1>5
<1>7. last = n
  BY <1>1, <1>5, <1>6
<1> HIDE DEF last
<1>8. Setting(s, environ) = Value(s, environ[VariablesOf(s)[last]])
  BY <1>5 DEF Setting, last
<1> QED BY <1>4, <1>7, <1>8

(* What the environment says in a setting's last variable is what the      *)
(* process uses.                                                           *)
THEOREM EnvironmentDecides == Spec => []EnvironmentWins
<1>1. ConfigInv => EnvironmentWins
  BY LastVariableDecides DEF ConfigInv, EnvironmentWins, Configuration, Environ
<1> QED BY <1>1, StartupInvariance, PTL

-----------------------------------------------------------------------------
(* The back-off. *)

(* A delay that may be doubled once more. *)
Half(n) == n \in Int /\ n > 0 /\ 2 * n <= MaxDuration

(* The delay that doubles. *)
LEMMA DoubledIs ==
    ASSUME BaseDelay \in Int
    PROVE  /\ Doubled[0] = BaseDelay
           /\ \A n \in Nat : Doubled[n + 1] = Int64(2 * Doubled[n])
<1> DEFINE step == [x \in Int |-> Int64(2 * x)]
<1>1. ASSUME NEW x \in Int PROVE Int64(2 * x) \in Int
  <2>1. /\ MaxDuration \in Nat /\ 2 * (MaxDuration + 1) \in Nat \ {0}
        /\ 2 * x + MaxDuration + 1 \in Int
    BY StartupAssumption
  <2>2. \A a \in Int, m \in Nat \ {0} : a % m \in Int
    OBVIOUS
  <2>3. (2 * x + MaxDuration + 1) % (2 * (MaxDuration + 1)) \in Int
    BY <2>1, <2>2
  <2> QED BY <2>1, <2>3 DEF Int64
<1>2. \A x \in Int : step[x] = Int64(2 * x) /\ step[x] \in Int
  BY <1>1
<1>3. PICK f : Iterates(BaseDelay, step, f)
  <2> HIDE DEF step
  <2>1. \A b \in Int : \E f : Iterates(b, step, f)
    BY <1>2, IteratesExists
  <2> QED BY <2>1
<1>4. f = [n \in Nat |-> IF n = 0 THEN BaseDelay ELSE Int64(2 * f[n - 1])]
  <2>1. f = [n \in Nat |-> IF n = 0 THEN BaseDelay ELSE step[f[n - 1]]]
    BY <1>3 DEF Iterates
  <2> DEFINE Q(n) == f[n] \in Int
             T == {n \in Nat : Q(n)}
  <2> HIDE DEF step
  <2>2. Q(0)
    BY <2>1
  <2>3. ASSUME NEW n \in Nat, Q(n) PROVE Q(n + 1)
    <3>1. f[n + 1] = step[f[n]]
      BY <2>1
    <3> QED BY <1>2, <2>3, <3>1
  <2> HIDE DEF Q
  <2>4. 0 \in T /\ \A n \in Nat : n \in T => n + 1 \in T
    BY <2>2, <2>3
  <2> HIDE DEF T
  <2>5. Nat \subseteq T
    BY <2>4, NatSetInduction
  <2>6. ASSUME NEW n \in Nat PROVE f[n] \in Int
    BY <2>5 DEF T, Q
  <2>7. ASSUME NEW n \in Nat
        PROVE  f[n] = IF n = 0 THEN BaseDelay ELSE Int64(2 * f[n - 1])
    <3>1. CASE n = 0
      BY <2>1, <3>1
    <3>2. CASE n # 0
      <4>1. n - 1 \in Nat
        BY <3>2
      <4> QED BY <1>2, <2>1, <2>6, <3>2, <4>1
    <3> QED BY <3>1, <3>2
  <2> QED BY <2>1, <2>7
<1>5. Doubled = [n \in Nat |-> IF n = 0 THEN BaseDelay ELSE Int64(2 * Doubled[n - 1])]
  BY <1>4 DEF Doubled
<1>6. Doubled[0] = BaseDelay
  BY <1>5
<1>7. ASSUME NEW n \in Nat PROVE Doubled[n + 1] = Int64(2 * Doubled[n])
  BY <1>5, <1>7
<1> QED BY <1>6, <1>7

(* What fits in a Duration is not changed. *)
LEMMA Int64Keeps ==
    ASSUME NEW n \in Int, -MaxDuration <= n, n <= MaxDuration
    PROVE  Int64(n) = n
<1>1. 2 * (MaxDuration + 1) \in Nat /\ n + MaxDuration + 1 \in Nat
      /\ n + MaxDuration + 1 < 2 * (MaxDuration + 1)
  BY StartupAssumption
<1>2. \A a, b \in Nat : a < b => a % b = a
  OBVIOUS
<1>3. (n + MaxDuration + 1) % (2 * (MaxDuration + 1)) = n + MaxDuration + 1
  BY <1>1, <1>2
<1> QED BY <1>3, StartupAssumption DEF Int64

(* retryDelay's result is positive and, once it has doubled, no longer     *)
(* than the maximum: it returns before it could double again.              *)
LEMMA DelayBounded ==
    ASSUME Half(BaseDelay), Half(MaxDelay), NEW n \in Nat
    PROVE  /\ RetryDelay(n) \in 1..MaxDuration
           /\ n > 0 => RetryDelay(n) <= MaxDelay
<1>0. /\ BaseDelay \in Nat /\ MaxDelay \in Nat /\ MaxDuration \in Nat
      /\ BaseDelay > 0 /\ MaxDelay > 0 /\ 2 * BaseDelay <= MaxDuration /\ 2 * MaxDelay <= MaxDuration
  BY StartupAssumption DEF Half
<1>1. /\ Doubled[0] = BaseDelay
      /\ \A i \in Nat : Doubled[i + 1] = Int64(2 * Doubled[i])
  BY <1>0, DoubledIs
<1>2. CASE \E i \in 1..n : Doubled[i] > MaxDelay
  <2>1. RetryDelay(n) = MaxDelay
    BY <1>2 DEF RetryDelay
  <2> QED BY <1>0, <2>1
<1>3. CASE ~ \E i \in 1..n : Doubled[i] > MaxDelay
  <2>1. RetryDelay(n) = Doubled[n] /\ \A i \in 1..n : ~(Doubled[i] > MaxDelay)
    BY <1>3 DEF RetryDelay
  <2> DEFINE Q(i) == i <= n => /\ Doubled[i] \in Nat /\ Doubled[i] > 0 /\ 2 * Doubled[i] <= MaxDuration
                               /\ i > 0 => Doubled[i] <= MaxDelay
             T == {i \in Nat : Q(i)}
  <2>2. Q(0)
    BY <1>0, <1>1
  <2>3. ASSUME NEW i \in Nat, Q(i) PROVE Q(i + 1)
    <3> SUFFICES ASSUME i + 1 <= n
                 PROVE  /\ Doubled[i + 1] \in Nat /\ Doubled[i + 1] > 0
                        /\ 2 * Doubled[i + 1] <= MaxDuration
                        /\ Doubled[i + 1] <= MaxDelay
      OBVIOUS
    <3>1. Doubled[i] \in Nat /\ Doubled[i] > 0 /\ 2 * Doubled[i] <= MaxDuration
      BY <2>3
    <3>2. Doubled[i + 1] = 2 * Doubled[i]
      <4>1. Int64(2 * Doubled[i]) = 2 * Doubled[i]
        BY <1>0, <3>1, Int64Keeps
      <4> QED BY <1>1, <4>1
    <3>3. ~(Doubled[i + 1] > MaxDelay)
      BY <2>1
    <3> QED BY <1>0, <3>1, <3>2, <3>3
  <2> HIDE DEF Q
  <2>4. 0 \in T /\ \A i \in Nat : i \in T => i + 1 \in T
    BY <2>2, <2>3
  <2> HIDE DEF T
  <2>5. n \in T
    BY <2>4, NatSetInduction
  <2>6. Q(n)
    BY <2>5 DEF T
  <2> QED BY <1>0, <2>1, <2>6 DEF Q
<1> QED BY <1>2, <1>3

(* What may be in an environment: the delays are half of what fits.        *)
Plain(environ) ==
    /\ \A v \in Variables : environ[v].n \in Int
    /\ \A v \in Durations : 2 * environ[v].n <= MaxDuration

(* The .env file adds nothing else. *)
LEMMA EnvironPlain == ASSUME machine \in Machines PROVE Plain(Environ)
<1>1. /\ machine.environment \in [Variables -> [kind : STRING, n : Int]]
      /\ machine.dotEnv \in [Variables -> [kind : STRING, n : Int]]
      /\ \A v \in Durations : /\ 2 * machine.environment[v].n <= MaxDuration
                              /\ 2 * machine.dotEnv[v].n <= MaxDuration
  BY StartupAssumption
<1>2. \A v \in Variables : Environ[v] \in {machine.environment[v], machine.dotEnv[v]}
  BY DEF Environ, Overlay
<1>3. Durations \subseteq Variables
  BY DEF Variables, Settings
<1> HIDE DEF Environ
<1> QED BY <1>1, <1>2, <1>3 DEF Plain

(* A setting has its default, or a value of one of its variables. *)
LEMMA SettingIs ==
    ASSUME NEW s \in Settings \ Words, NEW environ
    PROVE  \/ Setting(s, environ) = Default[s]
           \/ \E i \in DOMAIN VariablesOf(s) :
                 /\ VariablesOf(s)[i] \in Variables
                 /\ Setting(s, environ) = environ[VariablesOf(s)[i]].n
<1> DEFINE usable == {i \in DOMAIN VariablesOf(s) : Usable(s, environ[VariablesOf(s)[i]])}
           last == CHOOSE i \in usable : \A j \in usable : j <= i
<1>1. CASE usable = {}
  BY <1>1 DEF Setting
<1>2. CASE usable # {}
  <2>1. usable \subseteq {1, 2} /\ \A i \in DOMAIN VariablesOf(s) : VariablesOf(s)[i] \in Variables
    <3>1. CASE s \in DOMAIN Older
      <4>1. VariablesOf(s) = <<s, Older[s]>> /\ Older[s] \in Variables /\ s \in Variables
        BY <3>1 DEF VariablesOf, Variables
      <4> QED BY <4>1
    <3>2. CASE s \notin DOMAIN Older
      <4>1. VariablesOf(s) = <<s>> /\ s \in Variables
        BY <3>2 DEF VariablesOf, Variables
      <4> QED BY <4>1
    <3> QED BY <3>1, <3>2
  <2> HIDE DEF usable
  <2>2. \E i \in usable : \A j \in usable : j <= i
    <3>1. CASE 2 \in usable
      BY <2>1, <3>1
    <3>2. CASE 2 \notin usable
      <4>1. usable = {1}
        BY <1>2, <2>1, <3>2
      <4> QED BY <4>1
    <3> QED BY <3>1, <3>2
  <2>3. last \in usable
    BY <2>2
  <2> HIDE DEF last
  <2>4. Setting(s, environ) = Value(s, environ[VariablesOf(s)[last]])
    BY <1>2 DEF Setting, usable, last
  <2>5. last \in DOMAIN VariablesOf(s)
    BY <2>3 DEF usable
  <2> QED BY <2>1, <2>4, <2>5 DEF Value
<1> QED BY <1>1, <1>2

(* The defaults of the numbers are numbers. *)
LEMMA DefaultTyped ==
    /\ DOMAIN Default = Settings /\ \A s \in Settings \ Words : Default[s] \in Int
    /\ Default.maxRetries = 3 /\ Default.baseDelay = 500 /\ Default.maxDelay = 10000
BY DEF Default, Settings, Words, Numbers, Durations, Millis

(* What Load returns: numbers where numbers are wanted, delays that can be *)
(* doubled.                                                                *)
ConfigTyped ==
    /\ DOMAIN cfg = Settings
    /\ \A s \in Settings \ Words : cfg[s] \in Int
    /\ 2 * cfg.baseDelay <= MaxDuration /\ 2 * cfg.maxDelay <= MaxDuration

(* What Load gives the settings has the types of the settings. *)
LEMMA LoadTyped ==
    ASSUME machine \in Machines, cfg' = Configuration(Environ)
    PROVE  ConfigTyped'
<1>1. Plain(Environ)
  BY EnvironPlain
<1>2. DOMAIN cfg' = Settings /\ \A s \in Settings : cfg'[s] = Setting(s, Environ)
  BY DEF Configuration
<1>3. ASSUME NEW s \in Settings \ Words PROVE cfg'[s] \in Int
  BY <1>1, <1>2, DefaultTyped, SettingIs DEF Plain
<1>4. ASSUME NEW s \in Durations PROVE 2 * cfg'[s] <= MaxDuration
  <2>1. /\ s \in Settings \ Words /\ VariablesOf(s) = <<s>>
        /\ 2 * Default[s] <= MaxDuration
    BY StartupAssumption DEF Durations, VariablesOf, Settings, Words, Older
  <2>2. \A i \in DOMAIN VariablesOf(s) : VariablesOf(s)[i] = s
    BY <2>1
  <2>3. Setting(s, Environ) \in {Default[s], Environ[s].n}
    BY <2>1, <2>2, SettingIs
  <2> QED BY <1>1, <1>2, <2>1, <2>3 DEF Plain
<1>5. 2 * cfg'.baseDelay <= MaxDuration /\ 2 * cfg'.maxDelay <= MaxDuration
  BY <1>4 DEF Durations
<1> QED BY <1>2, <1>3, <1>5 DEF ConfigTyped

(* What Connect makes of it. *)
LEMMA DelaysTyped ==
    ASSUME ConfigTyped
    PROVE  Half(BaseDelay) /\ Half(MaxDelay) /\ MaxRetries \in Nat
<1>1. cfg.baseDelay \in Int /\ cfg.maxDelay \in Int /\ cfg.maxRetries \in Int
  BY DEF ConfigTyped, Settings, Words, Numbers, Durations, Millis
<1>2. 2 * 500 <= MaxDuration /\ 2 * 10000 <= MaxDuration
  BY StartupAssumption, DefaultTyped
<1>3. Half(BaseDelay)
  BY <1>1, <1>2 DEF ConfigTyped, Half, BaseDelay, OrDefault
<1>4. Half(MaxDelay)
  BY <1>1, <1>2 DEF ConfigTyped, Half, MaxDelay, OrDefault
<1> QED BY <1>1, <1>3, <1>4 DEF MaxRetries, OrDefault

(* The same in the next state. *)
LEMMA RetriesTypedNext == ASSUME ConfigTyped' PROVE MaxRetries' \in Nat
<1>1. cfg'.maxRetries \in Int
  BY DEF ConfigTyped, Settings, Words, Numbers, Durations, Millis
<1> QED BY <1>1 DEF MaxRetries, OrDefault

(* The back-off: Connect waits only if another attempt is left, for what   *)
(* retryDelay gives; before Load no attempt has been made.                 *)
TypeInv ==
    /\ TypeOK /\ ConfigTyped
    /\ main = "load" => attempt = 0
    /\ main = "backoff" => attempt < MaxRetries
    /\ BackoffCapped

(* The types, with what they rest on, hold when main begins, *)
LEMMA TypeInit == Init => TypeInv
<1> SUFFICES ASSUME Init PROVE TypeInv
  OBVIOUS
<1>1. ConfigTyped
  BY DefaultTyped, StartupAssumption DEF Init, ConfigTyped
<1>2. MaxRetries \in Nat /\ Len(Files) = 2 /\ MaxDuration \in Nat /\ MaxStarts \in Nat \ {0}
  BY <1>1, DelaysTyped, StartupAssumption DEF Files
<1>3. DOMAIN cfg = Settings /\ \A s \in Settings \ Words : cfg[s] \in Int
  BY <1>1 DEF ConfigTyped
<1>4. attempt \in 0..MaxRetries /\ file \in 0..Len(Files) /\ starts \in 1..MaxStarts
  BY <1>2 DEF Init
<1>5. delay \in -MaxDuration..MaxDuration
  BY <1>2 DEF Init
<1>6. TypeOK
  BY <1>3, <1>4, <1>5 DEF Init, TypeOK, Building
<1> QED BY <1>1, <1>6 DEF Init, TypeInv, BackoffCapped

(* and every step of a start, and every restart, keeps them. *)
LEMMA TypeStep == TypeInv /\ [Next]_vars => TypeInv'
<1> SUFFICES ASSUME TypeInv, [Next]_vars PROVE TypeInv'
  OBVIOUS
<1>0. /\ MaxRetries \in Nat /\ Len(Files) = 2 /\ MaxDuration \in Nat /\ MaxStarts \in Nat
      /\ attempt \in 0..MaxRetries /\ Half(BaseDelay) /\ Half(MaxDelay)
  BY DelaysTyped, StartupAssumption DEF Files, TypeInv, TypeOK
<1>10. \A f : Migrated(f) \in {"old", "full"}
  BY DEF Migrated
<1>11. cfg' = cfg => MaxRetries' = MaxRetries /\ MaxDelay' = MaxDelay /\ ConfigTyped'
  BY DEF MaxRetries, MaxDelay, TypeInv, ConfigTyped
<1>12. Len(Files)' = 2
  BY DEF Files
<1>1. CASE Load
  <2>1. CASE main' = "open" /\ cfg' = Configuration(Environ)
    <3>1. ConfigTyped'
      BY <2>1, LoadTyped DEF TypeInv, TypeOK
    <3>2. MaxRetries' \in Nat
      BY <3>1, RetriesTypedNext
    <3>3. DOMAIN cfg' = Settings /\ \A s \in Settings \ Words : cfg'[s] \in Int
      BY <3>1 DEF ConfigTyped
    <3>4. TypeOK'
      BY <1>0, <1>1, <1>12, <2>1, <3>2, <3>3 DEF Load, TypeInv, TypeOK, Building
    <3> QED BY <1>1, <2>1, <3>1, <3>4 DEF Load, TypeInv, BackoffCapped
  <2>2. CASE main' = "failed" /\ cfg' = cfg
    BY <1>0, <1>1, <1>11, <1>12, <2>2 DEF Load, TypeInv, TypeOK, BackoffCapped, Building
  <2> QED BY <1>1, <2>1, <2>2 DEF Load
<1>2. CASE Open \/ PingSucceeds \/ BackoffCancelled
  BY <1>0, <1>2, <1>11, <1>12
  DEF Open, PingSucceeds, BackoffCancelled, TypeInv, TypeOK, BackoffCapped, Building
<1>3. CASE PingFails
  <2>1. RetryDelay(attempt) \in 1..MaxDuration /\ (attempt > 0 => RetryDelay(attempt) <= MaxDelay)
    BY <1>0, DelayBounded
  <2> QED BY <1>0, <1>3, <1>11, <1>12, <2>1
          DEF PingFails, RetriesLeft, TypeInv, TypeOK, BackoffCapped, Building
<1>4. CASE DelayOver
  BY <1>0, <1>4, <1>11, <1>12 DEF DelayOver, TypeInv, TypeOK, BackoffCapped, Building
<1>5. CASE Exec
  BY <1>0, <1>5, <1>10, <1>11, <1>12 DEF Exec, TypeInv, TypeOK, BackoffCapped, Building
<1>6. CASE MigrationFails
  BY <1>0, <1>6, <1>10, <1>11, <1>12
  DEF MigrationFails, CloseConn, TypeInv, TypeOK, BackoffCapped, Building
<1>7. CASE MigrationsDone \/ StartBuffer \/ StartTicker \/ Compose
  BY <1>0, <1>7, <1>11, <1>12
  DEF MigrationsDone, StartBuffer, CloseConn, StartTicker, Compose, TypeInv, TypeOK,
      BackoffCapped, Building
<1>8. CASE Stop \/ Signal
  BY <1>0, <1>8, <1>11, <1>12 DEF Stop, Signal, TypeInv, TypeOK, BackoffCapped, Building
<1>9. CASE Crash
  BY <1>0, <1>9, <1>10, <1>11, <1>12 DEF Crash, TypeInv, TypeOK, BackoffCapped, Building
<1>13. CASE Restart
  <2>1. ConfigTyped'
    BY <1>13, DefaultTyped, StartupAssumption DEF Restart, ConfigTyped
  <2>2. MaxRetries' \in Nat
    BY <2>1, RetriesTypedNext
  <2>3. DOMAIN cfg' = Settings /\ \A s \in Settings \ Words : cfg'[s] \in Int
    BY <2>1 DEF ConfigTyped
  <2>4. attempt' \in 0..MaxRetries' /\ file' \in 0..Len(Files)' /\ delay' \in -MaxDuration..MaxDuration
    BY <1>0, <1>12, <1>13, <2>2 DEF Restart
  <2>5. starts' \in 1..MaxStarts
    BY <1>0, <1>13 DEF Restart, TypeInv, TypeOK
  <2>6. TypeOK'
    BY <1>13, <2>3, <2>4, <2>5 DEF Restart, TypeInv, TypeOK, Building
  <2> QED BY <1>13, <2>1, <2>6 DEF Restart, TypeInv, BackoffCapped
<1>14. CASE UNCHANGED vars
  BY <1>0, <1>11, <1>12, <1>14 DEF vars, own, TypeInv, TypeOK, BackoffCapped, Building
<1> QED BY <1>1, <1>2, <1>3, <1>4, <1>5, <1>6, <1>7, <1>8, <1>9, <1>13, <1>14 DEF Next, MainStep

(* The types hold, and Connect pings at most MaxRetries + 1 times, for any *)
(* environment and any number of retries (repository.go:86).               *)
THEOREM StartupTyped == Spec => []TypeOK
<1>1. TypeInv => TypeOK
  BY DEF TypeInv
<1> QED BY <1>1, TypeInit, TypeStep, PTL DEF Spec

(* No delay of the back-off passes the maximum or wraps, for any number of *)
(* retries and any delays that fit in a Duration twice (retryDelay).       *)
THEOREM BackoffBounded == Spec => []BackoffCapped
<1>1. TypeInv => BackoffCapped
  BY DEF TypeInv
<1> QED BY <1>1, TypeInit, TypeStep, PTL DEF Spec
=============================================================================
