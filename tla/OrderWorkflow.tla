------------------------------ MODULE OrderWorkflow ------------------------------
(***************************************************************************)
(* Order commands of the audited order workflow                            *)
(* (examples/audited-order-workflow-outbox): concurrent HTTP requests run  *)
(* Create and Transition, each one PostgreSQL transaction over the order   *)
(* row, the audit history and the SQL outbox; requests time out and the    *)
(* process crashes and restarts at any moment.  OrderRuntime models what   *)
(* happens to a committed outbox record.                                   *)
(*                                                                         *)
(* PostgreSQL runs at READ COMMITTED: a statement sees what is committed   *)
(* when it executes, a row lock and an uncommitted unique key make other   *)
(* statements wait, and a transaction's writes become visible at commit.   *)
(* A request that waits or works inside its transaction holds the locks    *)
(* its program counter says it has taken.                                  *)
(***************************************************************************)
EXTENDS Naturals, FiniteSets

CONSTANTS
    Requests,     \* slots of the semaphore (HTTPConfig.MaximumConcurrent of them); a
                  \* request that finds none is answered 429 and changes nothing
    Orders,       \* order ids
    Commands,     \* validated command bodies: [id, order, action, reason, metadata]
    EmptyValue    \* the empty string, which a metadata value may be

IDs == {c.id : c \in Commands}
NoMetadata == [k \in {} |-> EmptyValue]
NoCommand == [id |-> "none", order |-> "none", action |-> "none", reason |-> "none",
              metadata |-> NoMetadata]

ASSUME WorkflowAssumption ==
    /\ Commands \subseteq [id : IDs, order : Orders, action : {"create", "confirm", "cancel"},
                           reason : {c.reason : c \in Commands},
                           metadata : {c.metadata : c \in Commands}]
    /\ \A c \in Commands : /\ IsFiniteSet(DOMAIN c.metadata)
                            /\ c.metadata = [k \in DOMAIN c.metadata |-> c.metadata[k]]
    /\ NoCommand \notin Commands

VARIABLES
    pc,        \* request -> where it stands
    cmd,       \* request -> its command
    expired,   \* request -> ctx.Err() # nil: the operation timed out or the client left
    row,       \* request -> the order projection it loaded or computed
    outcome,   \* request -> what Create or Transition returned
    orders,    \* audited_order_workflow_orders: committed rows
    history,   \* audited_order_workflow_audit_entries: committed entries
    outbox,    \* audited_order_workflow_outbox_records: ids enqueued so far
    up,        \* is the process running?
    acked,     \* ghost: commands answered with success, with the order they were shown
    refused    \* ghost: commands answered with a conflict

requestVars == <<pc, cmd, expired, row, outcome>>
tableVars == <<orders, history, outbox>>
ghostVars == <<acked, refused>>
vars == <<requestVars, tableVars, up, ghostVars>>

Statuses == {"pending", "confirmed", "cancelled"}
NoOrder == [status |-> "none", rev |-> 0]
Projections == [status : Statuses, rev : Nat] \union {NoOrder}
Outcomes == {"none", "fresh", "replayed", "conflict", "not_found", "timeout", "internal"}

TypeOK ==
    /\ pc \in [Requests -> {"idle", "load", "missing", "find", "order", "history", "outbox",
                            "commit", "resolve", "reply"}]
    /\ cmd \in [Requests -> Commands \union {NoCommand}]
    /\ expired \in [Requests -> BOOLEAN]
    /\ row \in [Requests -> Projections]
    /\ outcome \in [Requests -> Outcomes]
    /\ orders \in [Orders -> Projections]
    /\ history \subseteq [id : IDs, command : Commands, rev : Nat \ {0}, status : Statuses]
    /\ outbox \subseteq IDs
    /\ up \in BOOLEAN
    /\ acked \subseteq [command : Commands, order : Projections]
    /\ refused \subseteq Commands

Init ==
    /\ pc = [r \in Requests |-> "idle"]
    /\ cmd = [r \in Requests |-> NoCommand]
    /\ expired = [r \in Requests |-> FALSE]
    /\ row = [r \in Requests |-> NoOrder]
    /\ outcome = [r \in Requests |-> "none"]
    /\ orders = [o \in Orders |-> NoOrder]
    /\ history = {}
    /\ outbox = {}
    /\ up = TRUE
    /\ acked = {}
    /\ refused = {}

Goto(r, label) == pc' = [pc EXCEPT ![r] = label]
Creates(r) == cmd[r].action = "create"

\* The transaction of r is open; what it has locked or inserted so far.
InTx(r) == pc[r] \in {"load", "missing", "find", "order", "history", "outbox", "commit"}
HoldsRow(r, o) ==
    /\ cmd[r].order = o
    /\ \/ pc[r] \in {"history", "outbox", "commit"}
       \/ pc[r] \in {"find", "order"} /\ ~Creates(r)
HoldsID(r, id) == cmd[r].id = id /\ pc[r] \in {"outbox", "commit"}

\* The call returns: the transaction, if any, is over and the handler answers.
Return(r, result, order) ==
    /\ outcome' = [outcome EXCEPT ![r] = result]
    /\ row' = [row EXCEPT ![r] = order]
    /\ Goto(r, "reply")

--------------------------------------------------------------------------------
\* A request takes a slot of the semaphore, is decoded and validated, gets its deadline
\* and enters the transaction.  An invalid one is answered without touching the service.
Arrive(r, c) ==
    /\ up
    /\ pc[r] = "idle"
    /\ cmd' = [cmd EXCEPT ![r] = c]
    /\ Goto(r, IF c.action = "create" THEN "find" ELSE "load")
    /\ UNCHANGED <<expired, row, outcome, tableVars, up, ghostVars>>

\* OperationTimeout passes or the client goes away.
Expire(r) ==
    /\ pc[r] # "idle"
    /\ ~expired[r]
    /\ expired' = [expired EXCEPT ![r] = TRUE]
    /\ UNCHANGED <<pc, cmd, row, outcome, tableVars, up, ghostVars>>

\* Mutant: statements run on a context of their own.
AbortOnlyAtCommit(r) ==
    /\ pc[r] = "commit"
    /\ expired[r]
    /\ Return(r, "timeout", NoOrder)
    /\ UNCHANGED <<cmd, expired, tableVars, up, ghostVars>>

\* Any statement on an expired context fails, also one that waits for a lock, and
\* WithTx rolls back.
AbortExpired(r) ==
    /\ InTx(r) \/ pc[r] = "resolve"
    /\ expired[r]
    /\ Return(r, "timeout", NoOrder)
    /\ UNCHANGED <<cmd, expired, tableVars, up, ghostVars>>

\* Mutant: the stored intent is not compared.
ResolveByID(r, e) == Return(r, "replayed", [status |-> e.status, rev |-> e.rev])

\* metadataEqual: as many keys, and every key of left has its value in right; a key
\* that a Go map does not hold reads as the empty string.
MetadataEqual(left, right) ==
    /\ Cardinality(DOMAIN left) = Cardinality(DOMAIN right)
    /\ \A k \in DOMAIN left :
          left[k] = IF k \in DOMAIN right THEN right[k] ELSE EmptyValue

\* matchesCreate and matchesTransition.
Matches(stored, c) ==
    /\ stored.order = c.order
    /\ stored.action = c.action
    /\ stored.reason = c.reason
    /\ MetadataEqual(stored.metadata, c.metadata)

\* resolveCreate and resolveTransition: the stored entry answers a command of the same
\* intent and refuses any other.
ResolveWith(r, e) ==
    IF Matches(e.command, cmd[r])
    THEN Return(r, "replayed", [status |-> e.status, rev |-> e.rev])
    ELSE Return(r, "conflict", NoOrder)

Recorded(id) == {e \in history : e.id = id}

\* Mutant: a transition checks the state machine before it looks for a replay.
LoadSkipsReplay(r) ==
    /\ pc[r] = "load"
    /\ LET o == cmd[r].order IN
       IF orders[o] = NoOrder
       THEN Goto(r, "missing") /\ UNCHANGED row
       ELSE /\ \A q \in Requests \ {r} : ~HoldsRow(q, o)
            /\ Goto(r, "order")
            /\ row' = [row EXCEPT ![r] = orders[o]]
    /\ UNCHANGED <<cmd, expired, outcome, tableVars, up, ghostVars>>

\* loadOrderForUpdate: waits for the row lock; an order that is not committed yet is
\* no row.
LoadOrderForUpdate(r) ==
    /\ pc[r] = "load"
    /\ LET o == cmd[r].order IN
       IF orders[o] = NoOrder
       THEN Goto(r, "missing") /\ UNCHANGED row
       ELSE /\ \A q \in Requests \ {r} : ~HoldsRow(q, o)
            /\ Goto(r, "find")
            /\ row' = [row EXCEPT ![r] = orders[o]]
    /\ UNCHANGED <<cmd, expired, outcome, tableVars, up, ghostVars>>

\* Transition on sql.ErrNoRows: the command may still be known.
FindForMissingOrder(r) ==
    /\ pc[r] = "missing"
    /\ \/ \E e \in Recorded(cmd[r].id) : ResolveWith(r, e)
       \/ Recorded(cmd[r].id) = {} /\ Return(r, "not_found", NoOrder)
    /\ UNCHANGED <<cmd, expired, tableVars, up, ghostVars>>

\* FindByCommandID inside the transaction.
FindByCommandID(r) ==
    /\ pc[r] = "find"
    /\ \/ \E e \in Recorded(cmd[r].id) : ResolveWith(r, e)
       \/ Recorded(cmd[r].id) = {} /\ Goto(r, "order") /\ UNCHANGED <<row, outcome>>
    /\ UNCHANGED <<cmd, expired, tableVars, up, ghostVars>>

\* Create: the order row is inserted, which waits for another uncommitted insert of
\* the same order and fails on a committed one.
InsertOrder(r) ==
    /\ pc[r] = "order"
    /\ Creates(r)
    /\ LET o == cmd[r].order IN
       IF orders[o] # NoOrder
       THEN Goto(r, "resolve") /\ UNCHANGED row
       ELSE /\ \A q \in Requests \ {r} : ~HoldsRow(q, o)
            /\ Goto(r, "history")
            /\ row' = [row EXCEPT ![r] = [status |-> "pending", rev |-> 1]]
    /\ UNCHANGED <<cmd, expired, outcome, tableVars, up, ghostVars>>

\* Mutant: an order may be confirmed in every status.
TransitionStatusLoose(current, action) ==
    CASE action = "confirm"                                         -> "confirmed"
      [] current \in {"pending", "confirmed"} /\ action = "cancel"  -> "cancelled"
      [] OTHER                                                      -> "none"

\* transitionStatus: "none" for a transition that is not allowed.
TransitionStatus(current, action) ==
    CASE current = "pending" /\ action = "confirm"                  -> "confirmed"
      [] current \in {"pending", "confirmed"} /\ action = "cancel"  -> "cancelled"
      [] OTHER                                                      -> "none"

\* Mutant: the error of transitionStatus is dropped.
UpdateUnchecked(r) ==
    /\ pc[r] = "order"
    /\ ~Creates(r)
    /\ Goto(r, "history")
    /\ row' = [row EXCEPT ![r] = [status |-> TransitionStatus(@.status, cmd[r].action),
                                  rev |-> @.rev + 1]]
    /\ UNCHANGED outcome
    /\ UNCHANGED <<cmd, expired, tableVars, up, ghostVars>>

\* Transition: next status and revision; the update names the revision that was read.
UpdateOrder(r) ==
    /\ pc[r] = "order"
    /\ ~Creates(r)
    /\ LET next == TransitionStatus(row[r].status, cmd[r].action) IN
       IF next = "none" \/ orders[cmd[r].order].rev # row[r].rev
       THEN Return(r, "conflict", NoOrder)
       ELSE /\ Goto(r, "history")
            /\ row' = [row EXCEPT ![r] = [status |-> next, rev |-> @.rev + 1]]
            /\ UNCHANGED outcome
    /\ UNCHANGED <<cmd, expired, tableVars, up, ghostVars>>

\* HistoryStore.Insert: the command id is unique (a violation is resolved after the
\* rollback), and so is the revision of an order (a violation is an internal error).
InsertHistory(r) ==
    /\ pc[r] = "history"
    /\ \A q \in Requests \ {r} : ~HoldsID(q, cmd[r].id)
    /\ IF Recorded(cmd[r].id) # {}
       THEN Goto(r, "resolve") /\ UNCHANGED <<row, outcome>>
       ELSE IF \E e \in history : e.command.order = cmd[r].order /\ e.rev = row[r].rev
       THEN Return(r, "internal", NoOrder)
       ELSE Goto(r, "outbox") /\ UNCHANGED <<row, outcome>>
    /\ UNCHANGED <<cmd, expired, tableVars, up, ghostVars>>

\* Mutant: the outbox record is written on a connection of its own.
EnqueueOutsideTx(r) ==
    /\ pc[r] = "outbox"
    /\ outbox' = outbox \union {cmd[r].id}
    /\ Goto(r, IF cmd[r].id \in outbox THEN "resolve" ELSE "commit")
    /\ UNCHANGED <<cmd, expired, row, outcome, orders, history, up, ghostVars>>

\* outbox.Enqueue in the same transaction.
Enqueue(r) ==
    /\ pc[r] = "outbox"
    /\ Goto(r, IF cmd[r].id \in outbox THEN "resolve" ELSE "commit")
    /\ UNCHANGED <<cmd, expired, row, outcome, tableVars, up, ghostVars>>

\* What COMMIT makes visible: order, entry and outbox record together.
CommitTables(r) ==
    LET c == cmd[r] IN
    /\ orders' = [orders EXCEPT ![c.order] = row[r]]
    /\ history' = history \union
          {[id |-> c.id, command |-> c, rev |-> row[r].rev, status |-> row[r].status]}
    /\ outbox' = outbox \union {c.id}

\* The commit succeeds and the caller learns of it.
Commit(r) ==
    /\ pc[r] = "commit"
    /\ CommitTables(r)
    /\ Return(r, "fresh", row[r])
    /\ UNCHANGED <<cmd, expired, up, ghostVars>>

\* The connection fails during COMMIT: it took effect or it did not, the caller gets
\* an error either way.
CommitFails(r) ==
    /\ pc[r] = "commit"
    /\ CommitTables(r) \/ UNCHANGED tableVars
    /\ Return(r, "internal", NoOrder)
    /\ UNCHANGED <<cmd, expired, up, ghostVars>>

\* After a unique violation: resolveCreateByCommandID and resolveTransitionByCommandID
\* look outside the rolled-back transaction.
ResolveViolation(r) ==
    /\ pc[r] = "resolve"
    /\ \/ \E e \in Recorded(cmd[r].id) : ResolveWith(r, e)
       \/ Recorded(cmd[r].id) = {} /\ Return(r, "conflict", NoOrder)
    /\ UNCHANGED <<cmd, expired, tableVars, up, ghostVars>>

\* createOrder and transitionOrder answer; a success on an expired context is
\* answered with a timeout all the same.
Reply(r) ==
    /\ pc[r] = "reply"
    /\ LET success == outcome[r] \in {"fresh", "replayed"} /\ ~expired[r] IN
       /\ acked' = IF success THEN acked \union {[command |-> cmd[r], order |-> row[r]]} ELSE acked
       /\ refused' = IF outcome[r] = "conflict" THEN refused \union {cmd[r]} ELSE refused
    /\ Goto(r, "idle")
    /\ cmd' = [cmd EXCEPT ![r] = NoCommand]
    /\ expired' = [expired EXCEPT ![r] = FALSE]
    /\ row' = [row EXCEPT ![r] = NoOrder]
    /\ outcome' = [outcome EXCEPT ![r] = "none"]
    /\ UNCHANGED <<tableVars, up>>

--------------------------------------------------------------------------------
\* The process dies: open transactions roll back and requests get no answer.
Crash ==
    /\ up
    /\ up' = FALSE
    /\ pc' = [r \in Requests |-> "idle"]
    /\ cmd' = [r \in Requests |-> NoCommand]
    /\ expired' = [r \in Requests |-> FALSE]
    /\ row' = [r \in Requests |-> NoOrder]
    /\ outcome' = [r \in Requests |-> "none"]
    /\ UNCHANGED <<tableVars, ghostVars>>

Restart ==
    /\ ~up
    /\ up' = TRUE
    /\ UNCHANGED <<requestVars, tableVars, ghostVars>>

--------------------------------------------------------------------------------
Advance(r) ==
    \/ AbortExpired(r)
    \/ LoadOrderForUpdate(r)
    \/ FindForMissingOrder(r)
    \/ FindByCommandID(r)
    \/ InsertOrder(r)
    \/ UpdateOrder(r)
    \/ InsertHistory(r)
    \/ Enqueue(r)
    \/ Commit(r)
    \/ CommitFails(r)
    \/ ResolveViolation(r)
    \/ Reply(r)

Next ==
    \/ \E r \in Requests, c \in Commands : Arrive(r, c)
    \/ \E r \in Requests : Expire(r)
    \/ \E r \in Requests : Advance(r)
    \/ Crash
    \/ Restart

Spec == Init /\ [][Next]_vars

\* OperationTimeout always fires, and a request that can go on does; nobody has to
\* send requests or to restart a dead process.
FairSpec ==
    /\ Spec
    /\ \A r \in Requests : WF_vars(Expire(r)) /\ WF_vars(Advance(r))

--------------------------------------------------------------------------------
Entries(o) == {e \in history : e.command.order = o}

\* The three tables tell one story: an order's entries are its revisions 1 .. rev
\* without gap, the last one carries its status, every command id occurs once, and
\* exactly the recorded commands are in the outbox.
TablesAgree ==
    /\ \A o \in Orders :
          /\ {e.rev : e \in Entries(o)} = 1 .. orders[o].rev
          /\ Cardinality(Entries(o)) = orders[o].rev
          /\ \A e \in Entries(o) : e.rev = orders[o].rev => e.status = orders[o].status
    /\ \A e, f \in history : e.id = f.id => e = f
    /\ outbox = {e.id : e \in history}

\* "Reusing it for a different order, action, reason, or metadata returns 409" (README):
\* a success answer, fresh or replayed, shows the order as the one entry of that very
\* command recorded it, and stays true however often the command is sent again.
AckedIsRecorded ==
    \A a \in acked : \E e \in Recorded(a.command.id) :
        e.command = a.command /\ a.order = [status |-> e.status, rev |-> e.rev]

\* A command that was answered with a conflict has not taken effect and never will:
\* neither its own earlier success nor a concurrent duplicate is reported as one.
ConflictIsFinal == \A c \in refused : \A e \in history : e.command # c

\* A cancelled order never changes again and revisions only grow by one.
OrdersMoveForward ==
    [][\A o \in Orders : orders'[o] # orders[o] =>
          /\ orders'[o].rev = orders[o].rev + 1
          /\ orders[o].status # "cancelled"]_vars

\* Every request is answered or dies with the process: no lock wait outlasts the
\* deadline.
EveryRequestEnds == \A r \in Requests : pc[r] # "idle" ~> pc[r] = "idle"

================================================================================
