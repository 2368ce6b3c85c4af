------------------------------- MODULE OrdersCrud -------------------------------
(***************************************************************************)
(* The order API of examples/gin-sql-crud-api: concurrent requests create, *)
(* read, list, update and delete single rows.  Every statement commits on  *)
(* its own; UpdateStatus reads the row back in a second statement.         *)
(***************************************************************************)
EXTENDS Naturals, FiniteSets

CONSTANTS
    Requests,    \* concurrent HTTP requests
    IDs,         \* ids randomOrderID hands out
    Limit,       \* the limit list requests ask for
    MaxVersion   \* bound: writes of one row

CrudAssumption ==
    /\ IDs \subseteq Nat \ {0}
    /\ Limit \in Nat \ {0}
    /\ MaxVersion \in Nat

VARIABLES
    pc,       \* request -> where it stands
    call,     \* request -> [op, id, status]
    expired,  \* request -> its requestTimeout has passed or its client has left
    wrote,    \* request -> version of its own write, 0 if it has not written
    seen,     \* request -> the rows it was shown
    outcome,  \* request -> the answer
    table     \* gin_sql_crud_orders: id -> [status, version], status "absent" without a row

requestVars == <<pc, call, expired, wrote, seen, outcome>>
vars == <<requestVars, table>>

Statuses == {"pending", "paid", "cancelled"}
NoCall == [op |-> "none", id |-> 0, status |-> "none"]

TypeOK ==
    /\ pc \in [Requests -> {"idle", "exec", "reread", "reply"}]
    /\ expired \in [Requests -> BOOLEAN]
    /\ wrote \in [Requests -> Nat]
    /\ \A r \in Requests : seen[r] \subseteq [id : IDs, status : Statuses, version : Nat]
    /\ outcome \in [Requests -> {"none", "ok", "invalid_request", "order_not_found",
                                 "repository_error"}]
    /\ \A i \in IDs : table[i].status \in Statuses \union {"absent"} /\ table[i].version \in Nat

Init ==
    /\ pc = [r \in Requests |-> "idle"]
    /\ call = [r \in Requests |-> NoCall]
    /\ expired = [r \in Requests |-> FALSE]
    /\ wrote = [r \in Requests |-> 0]
    /\ seen = [r \in Requests |-> {}]
    /\ outcome = [r \in Requests |-> "none"]
    /\ table = [i \in IDs |-> [status |-> "absent", version |-> 0]]

Goto(r, label) == pc' = [pc EXCEPT ![r] = label]
Exists(i) == table[i].status # "absent"
Row(i) == [id |-> i, status |-> table[i].status, version |-> table[i].version]

Answer(r, code, rows) ==
    /\ outcome' = [outcome EXCEPT ![r] = code]
    /\ seen' = [seen EXCEPT ![r] = rows]
    /\ Goto(r, "reply")

--------------------------------------------------------------------------------
\* A handler has decoded its request.  A body that does not decode, an order that
\* validateOrder refuses, a status that is not Valid and a list without filter or with a
\* limit out of range never reach a statement.
Arrive(r, c) ==
    /\ pc[r] = "idle"
    /\ call' = [call EXCEPT ![r] = c]
    /\ IF c.status = "invalid"
       THEN Answer(r, "invalid_request", {})
       ELSE Goto(r, "exec") /\ UNCHANGED <<outcome, seen>>
    /\ c.op = "create" => table[c.id].version = 0 /\ \A q \in Requests :
                            ~(call[q].op = "create" /\ call[q].id = c.id)
    /\ c.op \in {"update", "delete"} => table[c.id].version < MaxVersion
    /\ UNCHANGED <<expired, wrote, table>>

Expire(r) ==
    /\ pc[r] # "idle"
    /\ ~expired[r]
    /\ expired' = [expired EXCEPT ![r] = TRUE]
    /\ UNCHANGED <<pc, call, wrote, seen, outcome, table>>

Write(i, status) == table' = [table EXCEPT ![i] = [status |-> status, version |-> @.version + 1]]

\* A statement on an expired context fails; one that was already on its way may have
\* taken effect.
StatementFails(r) ==
    /\ pc[r] \in {"exec", "reread"}
    /\ expired[r]
    /\ \/ UNCHANGED table
       \/ /\ pc[r] = "exec"
          /\ \/ call[r].op = "create" /\ Write(call[r].id, "pending")
             \/ call[r].op = "update" /\ Exists(call[r].id) /\ Write(call[r].id, call[r].status)
             \/ call[r].op = "delete" /\ Exists(call[r].id) /\ Write(call[r].id, "absent")
    /\ Answer(r, "repository_error", {})
    /\ UNCHANGED <<call, expired, wrote>>

\* Repository.Create; the handler answers with the order it built.
Create(r) ==
    /\ pc[r] = "exec" /\ call[r].op = "create"
    /\ Write(call[r].id, "pending")
    /\ wrote' = [wrote EXCEPT ![r] = 1]
    /\ Answer(r, "ok", {[id |-> call[r].id, status |-> "pending", version |-> 1]})
    /\ UNCHANGED <<call, expired>>

\* Repository.FindByID, for GET and as the second statement of UpdateStatus.
Find(r) ==
    /\ \/ pc[r] = "exec" /\ call[r].op = "get"
       \/ pc[r] = "reread"
    /\ IF Exists(call[r].id)
       THEN Answer(r, "ok", {Row(call[r].id)})
       ELSE Answer(r, "order_not_found", {})
    /\ UNCHANGED <<call, expired, wrote, table>>

\* Repository.List: at most limit rows of a status.
List(r) ==
    /\ pc[r] = "exec" /\ call[r].op = "list"
    /\ LET hits == {i \in IDs : table[i].status = call[r].status}
           listed == {i \in hits : Cardinality({j \in hits : j < i}) < Limit}
       IN Answer(r, "ok", {Row(i) : i \in listed})
    /\ UNCHANGED <<call, expired, wrote, table>>

\* Repository.UpdateStatus: no affected row means not found, otherwise the row is read
\* again.
UpdateStatus(r) ==
    /\ pc[r] = "exec" /\ call[r].op = "update"
    /\ IF Exists(call[r].id)
       THEN /\ Write(call[r].id, call[r].status)
            /\ wrote' = [wrote EXCEPT ![r] = table[call[r].id].version + 1]
            /\ Goto(r, "reread")
            /\ UNCHANGED <<outcome, seen>>
       ELSE Answer(r, "order_not_found", {}) /\ UNCHANGED <<wrote, table>>
    /\ UNCHANGED <<call, expired>>

\* Repository.Delete.
Delete(r) ==
    /\ pc[r] = "exec" /\ call[r].op = "delete"
    /\ IF Exists(call[r].id)
       THEN /\ Write(call[r].id, "absent")
            /\ wrote' = [wrote EXCEPT ![r] = table[call[r].id].version + 1]
            /\ Answer(r, "ok", {})
       ELSE Answer(r, "order_not_found", {}) /\ UNCHANGED <<wrote, table>>
    /\ UNCHANGED <<call, expired>>

Reply(r) ==
    /\ pc[r] = "reply"
    /\ Goto(r, "idle")
    /\ call' = [call EXCEPT ![r] = NoCall]
    /\ expired' = [expired EXCEPT ![r] = FALSE]
    /\ wrote' = [wrote EXCEPT ![r] = 0]
    /\ seen' = [seen EXCEPT ![r] = {}]
    /\ outcome' = [outcome EXCEPT ![r] = "none"]
    /\ UNCHANGED table

Advance(r) ==
    \/ StatementFails(r)
    \/ Create(r)
    \/ Find(r)
    \/ List(r)
    \/ UpdateStatus(r)
    \/ Delete(r)
    \/ Reply(r)

Calls ==
    [op : {"get", "delete"}, id : IDs, status : {"none"}]
        \union [op : {"create"}, id : IDs, status : {"pending", "invalid"}]
        \union [op : {"update"}, id : IDs, status : {"paid", "cancelled", "invalid"}]
        \union [op : {"list"}, id : {0}, status : {"pending", "paid", "invalid"}]

Next ==
    \/ \E r \in Requests, c \in Calls : Arrive(r, c)
    \/ \E r \in Requests : Expire(r)
    \/ \E r \in Requests : Advance(r)

Spec == Init /\ [][Next]_vars

--------------------------------------------------------------------------------
\* An answer is true of the table: a row shown after a write is that write or a newer
\* one, an order whose row an update wrote and then did not find again is gone for good
\* (an order that was never found may still be created), a delete reported done has
\* removed the row for good, and a list keeps to its limit.
AnswersMatchTable ==
    \A r \in Requests : pc[r] = "reply" =>
        /\ outcome[r] = "ok" /\ call[r].op \in {"create", "update"} =>
              \E row \in seen[r] : row.id = call[r].id /\ row.version >= wrote[r]
                                   /\ (row.version = wrote[r] /\ call[r].op = "update"
                                         => row.status = call[r].status)
        /\ outcome[r] = "order_not_found" => ~Exists(call[r].id) \/ wrote[r] = 0
        /\ outcome[r] = "ok" /\ call[r].op = "delete" => ~Exists(call[r].id)
        /\ Cardinality(seen[r]) <= Limit

================================================================================
