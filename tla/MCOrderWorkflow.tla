--------------------------- MODULE MCOrderWorkflow ---------------------------
(* ClashingCommands: two orders; one command id is sent with a create body   *)
(* for either order, one with two metadata maps.  EmptyValueCommands: one    *)
(* command id with two metadata maps of different keys, the first of which   *)
(* has the empty value.                                                      *)
EXTENDS OrderWorkflow
Body(i, o, a, m) == [id |-> i, order |-> o, action |-> a, reason |-> "plain", metadata |-> m]
From(value) == [k \in {"source"} |-> value]
ClashingCommands ==
    {Body("x", "A", "create", NoMetadata), Body("x", "B", "create", NoMetadata),
     Body("y", "A", "confirm", From("web")), Body("y", "A", "confirm", From("shop")),
     Body("z", "A", "cancel", NoMetadata)}
EmptyValueCommands ==
    {Body("x", "A", "create", From(EmptyValue)),
     Body("x", "A", "create", [k \in {"channel"} |-> "web"])}
================================================================================
