---------------------------- MODULE MCCustomerEngine ----------------------------
(* Constants for model checking: the five customers of defaultRecords.        *)
EXTENDS CustomerEngine

FixtureScenario ==
    [i \in 0 .. 4 |-> CASE i = 2 -> "transient_once"
                        [] i = 3 -> "permanent"
                        [] OTHER -> "success"]

EmptyStore == {NoCheckpoint}
EmptyOrCorruptStore == {NoCheckpoint, N + 1}
================================================================================
