------------------------------ MODULE OrderHistory ------------------------------
(***************************************************************************)
(* The order service of examples/audit-order-history.  A command appends   *)
(* to the audit repository and then changes the service's own map of       *)
(* orders, both under the service's mutex; History and Find read the       *)
(* repository without it.                                                  *)
(***************************************************************************)
EXTENDS Naturals, Sequences, SequencesExt

CONSTANTS
    Requests,  \* concurrent callers
    Orders,    \* order ids
    Commands,  \* command ids
    Nobody     \* holder of a free mutex

HistoryAssumption == Nobody \notin Requests

VARIABLES
    pc,       \* caller -> where it stands
    call,     \* caller -> [op, order, command]
    expired,  \* caller -> its context is done
    seen,     \* caller -> [status, revision] it was answered with
    outcome,  \* caller -> the answer
    lock,     \* holder of Service.mu
    orders,   \* Service.orders: order -> [status, revision], revision 0 without an order
    used,     \* Service.used: command ids
    history   \* the audit repository: order -> entries, oldest first

requestVars == <<pc, call, expired, seen, outcome>>
vars == <<requestVars, lock, orders, used, history>>

NoCall == [op |-> "none", order |-> "none", command |-> "none"]
NoOrder == [status |-> "", revision |-> 0]

Statuses == {"pending", "confirmed", "shipped", "cancelled"}
Targets == [create |-> "pending", confirm |-> "confirmed", ship |-> "shipped",
            cancel |-> "cancelled"]
Writes == DOMAIN Targets

TypeOK ==
    /\ pc \in [Requests -> {"idle", "apply", "lock", "append", "commit", "read", "reply"}]
    /\ expired \in [Requests -> BOOLEAN]
    /\ outcome \in [Requests -> {"none", "ok", "context_error", "duplicate_command",
          "order_exists", "order_not_found", "invalid_transition", "invalid_command",
          "invalid_query"}]
    /\ lock \in Requests \union {Nobody}
    /\ \A o \in Orders : orders[o].status \in Statuses \union {""} /\ orders[o].revision \in Nat
    /\ used \subseteq Commands

Init ==
    /\ pc = [r \in Requests |-> "idle"]
    /\ call = [r \in Requests |-> NoCall]
    /\ expired = [r \in Requests |-> FALSE]
    /\ seen = [r \in Requests |-> NoOrder]
    /\ outcome = [r \in Requests |-> "none"]
    /\ lock = Nobody
    /\ orders = [o \in Orders |-> NoOrder]
    /\ used = {}
    /\ history = [o \in Orders |-> <<>>]

Goto(r, label) == pc' = [pc EXCEPT ![r] = label]
Answer(r, code, order) ==
    /\ outcome' = [outcome EXCEPT ![r] = code]
    /\ seen' = [seen EXCEPT ![r] = order]
    /\ Goto(r, "reply")
Fail(r, code) == Answer(r, code, NoOrder)

--------------------------------------------------------------------------------
\* Create, Confirm, Ship and Cancel refuse a command normalizeCommand or normalizeReason
\* does not accept, History an order id and Find a query that is not about orders or asks
\* for more than a hundred entries.
Arrive(r, c) ==
    /\ pc[r] = "idle"
    /\ call' = [call EXCEPT ![r] = c]
    /\ IF c.order = "invalid"
       THEN Fail(r, IF c.op = "find" THEN "invalid_query" ELSE "invalid_command")
       ELSE Goto(r, IF c.op \in Writes THEN "apply" ELSE "read") /\ UNCHANGED <<seen, outcome>>
    /\ UNCHANGED <<expired, lock, orders, used, history>>

Expire(r) ==
    /\ pc[r] \notin {"idle", "reply"}
    /\ ~expired[r]
    /\ expired' = [expired EXCEPT ![r] = TRUE]
    /\ UNCHANGED <<pc, call, seen, outcome, lock, orders, used, history>>

\* apply looks at its context before it waits for the mutex ...
Enter(r) ==
    /\ pc[r] = "apply"
    /\ IF expired[r]
       THEN Fail(r, "context_error")
       ELSE Goto(r, "lock") /\ UNCHANGED <<seen, outcome>>
    /\ UNCHANGED <<call, expired, lock, orders, used, history>>

\* ... and again once it holds it, before the command is checked.
TransitionFault(op, current) ==
    IF op = "create"
    THEN IF current.revision > 0 THEN "order_exists" ELSE "none"
    ELSE IF current.revision = 0 THEN "order_not_found"
    ELSE IF \/ op = "cancel" /\ current.status \in {"pending", "confirmed"}
            \/ op = "confirm" /\ current.status = "pending"
            \/ op = "ship" /\ current.status = "confirmed"
    THEN "none" ELSE "invalid_transition"

CommandFault(r) ==
    IF expired[r] THEN "context_error"
    ELSE IF call[r].command \in used THEN "duplicate_command"
    ELSE TransitionFault(call[r].op, orders[call[r].order])

Lock(r) ==
    /\ pc[r] = "lock" /\ lock = Nobody
    /\ IF CommandFault(r) # "none"
       THEN Fail(r, CommandFault(r)) /\ UNCHANGED lock
       ELSE lock' = r /\ Goto(r, "append") /\ UNCHANGED <<seen, outcome>>
    /\ UNCHANGED <<call, expired, orders, used, history>>

newEntry(command, before, after) == [command |-> command, before |-> before, after |-> after]
Updated(r) == [status |-> Targets[call[r].op], revision |-> orders[call[r].order].revision + 1]

\* repo.Append, which checks its context and then appends or does not.
AppendEntry(r) ==
    /\ pc[r] = "append"
    /\ IF expired[r]
       THEN /\ Fail(r, "context_error")
            /\ lock' = Nobody
            /\ UNCHANGED history
       ELSE /\ history' = [history EXCEPT ![call[r].order] = Append(@,
                  newEntry(call[r].command, orders[call[r].order].status, Updated(r).status))]
            /\ Goto(r, "commit")
            /\ UNCHANGED <<seen, outcome, lock>>
    /\ UNCHANGED <<call, expired, orders, used>>

\* The rest of apply; nothing in it can fail.
apply(r) ==
    /\ pc[r] = "commit"
    /\ orders' = [orders EXCEPT ![call[r].order] = Updated(r)]
    /\ used' = used \union {call[r].command}
    /\ lock' = Nobody
    /\ Answer(r, "ok", Updated(r))
    /\ UNCHANGED <<call, expired, history>>

\* Current waits for the mutex.
Current(r) ==
    /\ pc[r] = "read" /\ call[r].op = "current"
    /\ lock = Nobody
    /\ Answer(r, IF orders[call[r].order].revision = 0 THEN "order_not_found" ELSE "ok",
              orders[call[r].order])
    /\ UNCHANGED <<call, expired, lock, orders, used, history>>

\* History and Find do not.
Recorded(o) ==
    IF history[o] = <<>> THEN NoOrder
    ELSE [status |-> Last(history[o]).after, revision |-> Len(history[o])]

History(r) ==
    /\ pc[r] = "read" /\ call[r].op \in {"history", "find"}
    /\ IF expired[r] THEN Fail(r, "context_error")
       ELSE Answer(r, IF history[call[r].order] = <<>> /\ call[r].op = "history"
                      THEN "order_not_found" ELSE "ok", Recorded(call[r].order))
    /\ UNCHANGED <<call, expired, lock, orders, used, history>>

Reply(r) ==
    /\ pc[r] = "reply"
    /\ Goto(r, "idle")
    /\ call' = [call EXCEPT ![r] = NoCall]
    /\ expired' = [expired EXCEPT ![r] = FALSE]
    /\ seen' = [seen EXCEPT ![r] = NoOrder]
    /\ outcome' = [outcome EXCEPT ![r] = "none"]
    /\ UNCHANGED <<lock, orders, used, history>>

Calls ==
    [op : Writes, order : Orders, command : Commands]
        \union [op : {"current", "history", "find"}, order : Orders, command : {"none"}]
        \union [op : {"create", "history", "find"}, order : {"invalid"}, command : {"none"}]

Advance(r) ==
    \/ Enter(r)
    \/ Lock(r)
    \/ AppendEntry(r)
    \/ apply(r)
    \/ Current(r)
    \/ History(r)
    \/ Reply(r)

Next ==
    \/ \E r \in Requests, c \in Calls : Arrive(r, c)
    \/ \E r \in Requests : Expire(r) \/ Advance(r)

Spec == Init /\ [][Next]_vars

--------------------------------------------------------------------------------
InFlight(o) == {r \in Requests : pc[r] = "commit" /\ call[r].order = o}

\* apply: the repository is never ahead of the service's map by more than the one entry
\* the holder of the mutex has just appended, and never behind it.
HistoryLeads ==
    \A o \in Orders :
        /\ Len(history[o]) = orders[o].revision + (IF InFlight(o) = {} THEN 0 ELSE 1)
        /\ InFlight(o) = {} => Recorded(o) = orders[o]
        /\ \A i \in 2 .. Len(history[o]) : history[o][i].before = history[o][i - 1].after

\* The used map: a command id is recorded at most once over all orders.
CommandsAreUnique ==
    \A o, p \in Orders : \A i \in DOMAIN history[o], j \in DOMAIN history[p] :
        history[o][i].command = history[p][j].command => o = p /\ i = j

\* A caller that was told of a revision finds it in the repository ever after, with the
\* status it was told, and under its own command id if it was a command's answer.
AnswersAreRecorded ==
    \A r \in Requests : pc[r] = "reply" =>
        /\ seen[r].revision > 0 =>
              /\ seen[r].revision <= Len(history[call[r].order])
              /\ history[call[r].order][seen[r].revision].after = seen[r].status
        /\ outcome[r] = "ok" /\ call[r].op \in Writes =>
              history[call[r].order][seen[r].revision].command = call[r].command

================================================================================
