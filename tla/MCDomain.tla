------------------------------ MODULE MCDomain ------------------------------
(* The small instance of Domain.tla that TLC checks: timestamps of eight   *)
(* bits, every one of them with one payload, and every payload of strings  *)
(* of at most one byte and at most two tags with two spellings of one      *)
(* moment; a byte 0 in a channel, which runs into the next field; and      *)
(* ranges with bounds in both units, of both signs.                        *)
EXTENDS Domain

Strings == {<<>>, <<1>>}
Tags == {<<>>} \cup {<<s>> : s \in Strings} \cup (Strings \X Strings)

Raw(name, user, ts, channel, campaign, tags, priority, metadata) ==
    [name |-> name, user |-> user, timestamp |-> ts, channel |-> channel,
     campaign |-> campaign, tags |-> tags, priority |-> priority,
     metadata |-> metadata]

Timestamped ==
    {Raw(name, user, ts, <<>>, <<>>, <<>>, <<>>, <<>>) :
        name \in {"blank", "tooLong", "named"}, user \in {"blank", "named"},
        ts \in -128 .. 127}

Filled ==
    {Raw("named", "named", ts, channel, campaign, tags, priority, <<1>>) :
        ts \in {12, 48}, channel \in Strings, campaign \in Strings, tags \in Tags,
        priority \in {<<>>} \cup {<<s>> : s \in Strings}}

WithNul ==
    {Raw("named", "named", 48, <<0>>, <<>>, <<>>, <<>>, <<1>>),
     Raw("named", "named", 48, <<>>, <<0>>, <<>>, <<>>, <<1>>)}

MCAsked == [from : {-3, 0, 10, 12, 40, 47}, to : {-1, 0, 11, 13, 48, 60}]

MCRaws == Timestamped \cup Filled \cup WithNul
=============================================================================
