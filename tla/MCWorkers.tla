----------------------------- MODULE MCWorkers -----------------------------
(***************************************************************************)
(* Instances of EmbedWorkers for TLC.                                      *)
(***************************************************************************)
EXTENDS EmbedWorkers

CONSTANTS
    LongDocument    \* chunks of the first document

Row(p, h, a) == [path |-> p, hash |-> h, at |-> a]
SomeTables ==
    {{Row("a", 1, 1), Row("a", 2, 2), Row("b", 3, 1)}, {Row("a", 1, 1), Row("a", 2, 1)}}

NoSettings == [x \in {} |-> 0]
SomeFiles == {[concurrency |-> 1, interval |-> "soon"], Malformed}
SomeEnvironments ==
    {NoSettings, [interval |-> "30s"], [trigger |-> "off"], [concurrency |-> Malformed]}
OneFile == {[concurrency |-> 1]}
OneEnvironment == {[trigger |-> "schedule"]}

DocumentSizes == [d \in Doc |-> IF d = 1 THEN LongDocument ELSE 1]
=============================================================================
