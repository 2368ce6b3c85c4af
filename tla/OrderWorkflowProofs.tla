-------------------------- MODULE OrderWorkflowProofs --------------------------
(***************************************************************************)
(* Proofs about the order commands of the audited order workflow, for any  *)
(* number of concurrent requests, orders and commands, with deadlines,     *)
(* ambiguous commits and crashes: the three tables agree, orders move      *)
(* forward, and answers stay true.  The argument is the one the code       *)
(* relies on: whoever changes an order holds its row, whoever writes an    *)
(* entry holds its command id, and what a request has read under a lock    *)
(* stays true until it lets go.                                            *)
(*                                                                         *)
(* That an answer shows the command's own entry is proved for metadata     *)
(* without empty values; OrderWorkflowEmptyValue shows that the condition  *)
(* cannot be dropped.                                                      *)
(***************************************************************************)
EXTENDS OrderWorkflow, FiniteSetTheorems, TLAPS

\* metadataEqual tells apart all metadata maps without empty values.
NoEmptyValues ==
    \A c \in Commands : \A k \in DOMAIN c.metadata : c.metadata[k] # EmptyValue

--------------------------------------------------------------------------------
\* Named parts of the inductive invariant.

\* TypeOK is not inductive by itself: what is committed is the command of a request in
\* its transaction, which must not be NoCommand, and a computed row.
TypeInv ==
    /\ TypeOK
    /\ \A r \in Requests : pc[r] # "idle" => cmd[r] \in Commands

Writing(r) == pc[r] \in {"history", "outbox", "commit"}

\* At most one open transaction holds an order row, and at most one a command id.
RowsLocked == \A q, r \in Requests : \A o \in Orders : HoldsRow(q, o) /\ HoldsRow(r, o) => q = r
IDsLocked == \A q, r \in Requests : \A id \in IDs : HoldsID(q, id) /\ HoldsID(r, id) => q = r

\* What a transition has read under the row lock is still what the table holds.
ReadsHold ==
    \A r \in Requests : pc[r] \in {"find", "order"} /\ ~Creates(r) =>
        /\ row[r] = orders[cmd[r].order]
        /\ row[r] # NoOrder
        /\ pc[r] = "order" => \A e \in history : e.command # cmd[r]

\* A transaction that writes will take its order one allowed step further.
WritesAdvance ==
    \A r \in Requests : Writing(r) =>
        LET before == orders[cmd[r].order] IN
        /\ row[r].status \in Statuses
        /\ row[r].rev = before.rev + 1
        /\ Creates(r) => before = NoOrder /\ row[r].status = "pending"
        /\ ~Creates(r) => /\ before # NoOrder
                          /\ row[r].status = TransitionStatus(before.status, cmd[r].action)
        /\ pc[r] \in {"outbox", "commit"} => Recorded(cmd[r].id) = {}

\* An entry carries the id of its command, and an order has finitely many entries.
EntriesOK ==
    /\ \A e \in history : e.id = e.command.id
    /\ \A o \in Orders : IsFiniteSet(Entries(o))

\* A command that has not taken effect and never will: its id belongs to another
\* command, or its order is past the point where it could be applied.
PastApplying(c) ==
    /\ orders[c.order] # NoOrder
    /\ c.action = "create" \/ TransitionStatus(orders[c.order].status, c.action) = "none"
Dead(c) ==
    /\ \A e \in history : e.command # c
    /\ Recorded(c.id) # {} \/ PastApplying(c)

ConflictsAreDead ==
    /\ \A r \in Requests : pc[r] = "resolve" =>
          Recorded(cmd[r].id) # {} \/ (Creates(r) /\ orders[cmd[r].order] # NoOrder)
    /\ \A r \in Requests : pc[r] = "reply" /\ outcome[r] = "conflict" => Dead(cmd[r])
    /\ \A c \in refused : Dead(c)

\* A success that is still to be answered is recorded.
SuccessIsRecorded ==
    \A r \in Requests : pc[r] = "reply" /\ outcome[r] \in {"fresh", "replayed"} =>
        \E e \in Recorded(cmd[r].id) :
            e.command = cmd[r] /\ row[r] = [status |-> e.status, rev |-> e.rev]

IInv ==
    /\ TypeInv
    /\ RowsLocked
    /\ IDsLocked
    /\ ReadsHold
    /\ WritesAdvance
    /\ EntriesOK
    /\ TablesAgree
--------------------------------------------------------------------------------
\* Facts about the operators of the model.

LEMMA ProjectionType ==
    ASSUME NEW p \in Projections
    PROVE  p.rev \in Nat /\ (p # NoOrder => p.status \in Statuses) /\ NoOrder \in Projections
  BY DEF Projections, NoOrder

\* transitionStatus: only a live order moves, and what can no longer be applied to it
\* can also not be applied afterwards.
LEMMA TransitionFacts ==
    ASSUME NEW s, NEW a \in {"create", "confirm", "cancel"}
    PROVE  LET t == TransitionStatus(s, a) IN
           /\ t \in Statuses \union {"none"}
           /\ t # "none" => s # "cancelled" /\ s \in Statuses
           /\ t # "none" => \A b \in {"confirm", "cancel"} :
                 TransitionStatus(s, b) = "none" => TransitionStatus(t, b) = "none"
  BY DEF TransitionStatus, Statuses

LEMMA CommandType ==
    ASSUME NEW c \in Commands
    PROVE  /\ c.id \in IDs /\ c.order \in Orders
           /\ c.action \in {"create", "confirm", "cancel"}
           /\ c # NoCommand
  BY WorkflowAssumption DEF IDs

\* What a step of one request leaves alone.
OthersKeep(r) ==
    \A q \in Requests \ {r} :
        pc'[q] = pc[q] /\ cmd'[q] = cmd[q] /\ row'[q] = row[q] /\ outcome'[q] = outcome[q]

RequestStep(r) == Expire(r) \/ Advance(r) \/ \E c \in Commands : Arrive(r, c)

LEMMA OneMoves == ASSUME TypeInv, NEW r \in Requests, RequestStep(r) PROVE OthersKeep(r)
<1> USE DEF TypeInv, TypeOK, Goto, Return, ResolveWith, OthersKeep
<1>1. CASE Expire(r)
  BY <1>1 DEF Expire
<1>2. ASSUME NEW c \in Commands, Arrive(r, c) PROVE OthersKeep(r)
  BY <1>2 DEF Arrive
<1>3. CASE AbortExpired(r)
  BY <1>3 DEF AbortExpired
<1>4. CASE LoadOrderForUpdate(r)
  BY <1>4 DEF LoadOrderForUpdate
<1>5. CASE FindForMissingOrder(r)
  BY <1>5 DEF FindForMissingOrder
<1>6. CASE FindByCommandID(r)
  BY <1>6 DEF FindByCommandID
<1>7. CASE InsertOrder(r)
  BY <1>7 DEF InsertOrder
<1>8. CASE UpdateOrder(r)
  BY <1>8 DEF UpdateOrder
<1>9. CASE InsertHistory(r)
  BY <1>9 DEF InsertHistory
<1>10. CASE Enqueue(r)
  BY <1>10 DEF Enqueue
<1>11. CASE Commit(r) \/ CommitFails(r)
  BY <1>11 DEF Commit, CommitFails
<1>12. CASE ResolveViolation(r)
  BY <1>12 DEF ResolveViolation
<1>13. CASE Reply(r)
  BY <1>13 DEF Reply
<1> QED
  BY <1>1, <1>2, <1>3, <1>4, <1>5, <1>6, <1>7, <1>8, <1>9, <1>10, <1>11, <1>12, <1>13
     DEF RequestStep, Advance

\* Tables change only when a transaction commits, and then all three of them.
Commits(r) ==
    /\ pc[r] = "commit"
    /\ CommitTables(r)
    /\ pc' = [pc EXCEPT ![r] = "reply"]
    /\ UNCHANGED cmd

LEMMA TablesChangeAtCommit ==
    ASSUME NEW r \in Requests, RequestStep(r)
    PROVE  UNCHANGED tableVars \/ Commits(r)
<1>1. CASE Commit(r) \/ CommitFails(r)
  BY <1>1 DEF Commit, CommitFails, Commits, Goto, Return
<1>2. CASE ~(Commit(r) \/ CommitFails(r))
  BY <1>2 DEF RequestStep, Expire, Arrive, Advance, AbortExpired, LoadOrderForUpdate,
     FindForMissingOrder, FindByCommandID, InsertOrder, UpdateOrder, InsertHistory, Enqueue,
     ResolveViolation, Reply
<1> QED
  BY <1>1, <1>2

--------------------------------------------------------------------------------
LEMMA TypeInit == Init => TypeInv
<1> SUFFICES ASSUME Init PROVE TypeInv
  OBVIOUS
<1>1. up \in BOOLEAN
  BY Zenon DEF Init
<1> QED
  BY <1>1 DEF Init, TypeInv, TypeOK, Projections, NoOrder, Outcomes

LEMMA TypeStep == TypeInv /\ WritesAdvance /\ [Next]_vars => TypeInv'
<1> SUFFICES ASSUME TypeInv, WritesAdvance, [Next]_vars PROVE TypeInv'
  OBVIOUS
<1> USE DEF TypeInv, TypeOK, Goto, Outcomes
<1>0. NoOrder \in Projections
  BY DEF Projections
<1>1. UNCHANGED tableVars => orders' \in [Orders -> Projections] /\ outbox' \subseteq IDs
        /\ history' \subseteq [id : IDs, command : Commands, rev : Nat \ {0}, status : Statuses]
  BY DEF tableVars
<1>2. ASSUME NEW r \in Requests, NEW e \in history, ResolveWith(r, e), UNCHANGED <<cmd, expired, tableVars, up, ghostVars>>,
             pc[r] # "idle"
      PROVE  TypeInv'
  <2>1. [status |-> e.status, rev |-> e.rev] \in Projections
    BY DEF Projections
  <2> QED
    BY <1>0, <1>1, <1>2, <2>1 DEF ResolveWith, Return, tableVars, ghostVars
<1>3. ASSUME NEW r \in Requests, NEW result \in Outcomes, Return(r, result, NoOrder),
             UNCHANGED <<cmd, expired, up, ghostVars, tableVars>>, pc[r] # "idle"
      PROVE  TypeInv'
  BY <1>0, <1>1, <1>3 DEF Return, tableVars, ghostVars
<1>4. ASSUME NEW r \in Requests, CommitTables(r), pc[r] = "commit"
      PROVE  /\ orders' \in [Orders -> Projections] /\ outbox' \subseteq IDs
             /\ history' \subseteq [id : IDs, command : Commands, rev : Nat \ {0}, status : Statuses]
  <2>1. cmd[r] \in Commands /\ cmd[r].id \in IDs /\ cmd[r].order \in Orders
    BY <1>4, CommandType
  <2>2. row[r].status \in Statuses /\ row[r].rev \in Nat \ {0}
    BY <1>4, <2>1, ProjectionType DEF WritesAdvance, Writing
  <2> QED
    BY <1>4, <2>1, <2>2 DEF CommitTables
<1>5. ASSUME NEW r \in Requests, NEW c \in Commands, Arrive(r, c) PROVE TypeInv'
  BY <1>1, <1>5 DEF Arrive, tableVars, ghostVars
<1>6. ASSUME NEW r \in Requests, Expire(r) PROVE TypeInv'
  BY <1>1, <1>6 DEF Expire, tableVars, ghostVars
<1>7. ASSUME NEW r \in Requests, AbortExpired(r) PROVE TypeInv'
  BY <1>3, <1>7 DEF AbortExpired, InTx
<1>8. ASSUME NEW r \in Requests, LoadOrderForUpdate(r) PROVE TypeInv'
  <2>1. cmd[r].order \in Orders
    BY <1>8, CommandType DEF LoadOrderForUpdate
  <2> QED
    BY <1>1, <1>8, <2>1 DEF LoadOrderForUpdate, tableVars, ghostVars
<1>9. ASSUME NEW r \in Requests, FindForMissingOrder(r) PROVE TypeInv'
  BY <1>2, <1>3, <1>9 DEF FindForMissingOrder, Recorded
<1>10. ASSUME NEW r \in Requests, FindByCommandID(r) PROVE TypeInv'
  <2>1. CASE \E e \in Recorded(cmd[r].id) : ResolveWith(r, e)
    BY <1>2, <1>10, <2>1 DEF FindByCommandID, Recorded
  <2>2. CASE pc' = [pc EXCEPT ![r] = "order"] /\ UNCHANGED <<row, outcome>>
    BY <1>1, <1>10, <2>2 DEF FindByCommandID, tableVars, ghostVars
  <2> QED
    BY <1>10, <2>1, <2>2 DEF FindByCommandID
<1>11. ASSUME NEW r \in Requests, InsertOrder(r) PROVE TypeInv'
  <2>1. [status |-> "pending", rev |-> 1] \in Projections
    BY DEF Projections, Statuses
  <2> QED
    BY <1>1, <1>11, <2>1 DEF InsertOrder, tableVars, ghostVars
<1>12. ASSUME NEW r \in Requests, UpdateOrder(r) PROVE TypeInv'
  <2>1. CASE Return(r, "conflict", NoOrder)
    BY <1>3, <1>12, <2>1 DEF UpdateOrder
  <2>2. CASE ~Return(r, "conflict", NoOrder)
    <3>1. [status |-> TransitionStatus(row[r].status, cmd[r].action), rev |-> row[r].rev + 1]
             \in Projections
      BY <1>12, <2>2, CommandType, TransitionFacts, ProjectionType DEF UpdateOrder, Projections
    <3> QED
      BY <1>1, <1>12, <2>2, <3>1 DEF UpdateOrder, tableVars, ghostVars
  <2> QED
    BY <2>1, <2>2
<1>13. ASSUME NEW r \in Requests, InsertHistory(r) PROVE TypeInv'
  <2>1. CASE Return(r, "internal", NoOrder)
    BY <1>3, <1>13, <2>1 DEF InsertHistory
  <2>2. CASE UNCHANGED <<row, outcome>>
    BY <1>1, <1>13, <2>2 DEF InsertHistory, tableVars, ghostVars, Return
  <2> QED
    BY <1>13, <2>1, <2>2 DEF InsertHistory
<1>14. ASSUME NEW r \in Requests, Enqueue(r) PROVE TypeInv'
  BY <1>1, <1>14 DEF Enqueue, tableVars, ghostVars
<1>15. ASSUME NEW r \in Requests, Commit(r) PROVE TypeInv'
  BY <1>4, <1>15 DEF Commit, Return, ghostVars
<1>16. ASSUME NEW r \in Requests, CommitFails(r) PROVE TypeInv'
  BY <1>0, <1>1, <1>4, <1>16 DEF CommitFails, Return, ghostVars
<1>17. ASSUME NEW r \in Requests, ResolveViolation(r) PROVE TypeInv'
  BY <1>2, <1>3, <1>17 DEF ResolveViolation, Recorded
<1>18. ASSUME NEW r \in Requests, Reply(r) PROVE TypeInv'
  <2>1. acked' \subseteq [command : Commands, order : Projections] /\ refused' \subseteq Commands
    BY <1>18 DEF Reply
  <2> QED
    BY <1>0, <1>1, <1>18, <2>1 DEF Reply, tableVars
<1>19. CASE Crash
  <2>1. up' \in BOOLEAN
    BY <1>19, Zenon DEF Crash
  <2> QED
    BY <1>0, <1>1, <1>19, <2>1 DEF Crash, tableVars, ghostVars
<1>20. CASE Restart
  <2>1. up' \in BOOLEAN
    BY <1>20, Zenon DEF Restart
  <2> QED
    BY <1>1, <1>20, <2>1 DEF Restart, requestVars, tableVars, ghostVars
<1>21. CASE UNCHANGED vars
  BY <1>21 DEF vars, requestVars, tableVars, ghostVars
<1> QED
  BY <1>5, <1>6, <1>7, <1>8, <1>9, <1>10, <1>11, <1>12, <1>13, <1>14, <1>15, <1>16, <1>17, <1>18,
     <1>19, <1>20, <1>21 DEF Next, Advance

--------------------------------------------------------------------------------
\* The locks: a request gets a row or an id only when nobody else has it.
LEMMA LocksStep ==
    TypeInv /\ RowsLocked /\ IDsLocked /\ [Next]_vars => RowsLocked' /\ IDsLocked'
<1> SUFFICES ASSUME TypeInv, RowsLocked, IDsLocked, [Next]_vars PROVE RowsLocked' /\ IDsLocked'
  OBVIOUS
<1> DEFINE Fair(r) ==
      /\ \A o \in Orders : HoldsRow(r, o)' =>
            HoldsRow(r, o) \/ \A q \in Requests \ {r} : ~HoldsRow(q, o)
      /\ \A id \in IDs : HoldsID(r, id)' =>
            HoldsID(r, id) \/ \A q \in Requests \ {r} : ~HoldsID(q, id)
<1>1. ASSUME NEW r \in Requests, OthersKeep(r), Fair(r) PROVE RowsLocked' /\ IDsLocked'
  <2>1. \A q \in Requests \ {r} : \A o : HoldsRow(q, o)' <=> HoldsRow(q, o)
    BY <1>1 DEF OthersKeep, HoldsRow, Creates
  <2>2. \A q \in Requests \ {r} : \A id : HoldsID(q, id)' <=> HoldsID(q, id)
    BY <1>1 DEF OthersKeep, HoldsID
  <2>3. RowsLocked'
    BY <1>1, <2>1 DEF RowsLocked
  <2>4. IDsLocked'
    BY <1>1, <2>2 DEF IDsLocked
  <2> QED
    BY <2>3, <2>4
<1>2. ASSUME NEW r \in Requests, pc'[r] \in {"idle", "load", "missing", "resolve", "reply"}
      PROVE  Fair(r)
  BY <1>2 DEF HoldsRow, HoldsID
<1> USE DEF TypeInv, TypeOK, Goto, Return, ResolveWith
<1>3. ASSUME NEW r \in Requests, NEW c \in Commands, Arrive(r, c) PROVE Fair(r)
  BY <1>3 DEF Arrive, HoldsRow, HoldsID, Creates
<1>4. ASSUME NEW r \in Requests, Expire(r) PROVE Fair(r)
  BY <1>4 DEF Expire, HoldsRow, HoldsID, Creates
<1>5. ASSUME NEW r \in Requests, AbortExpired(r) PROVE Fair(r)
  BY <1>2, <1>5 DEF AbortExpired
<1>6. ASSUME NEW r \in Requests, LoadOrderForUpdate(r) PROVE Fair(r)
  BY <1>6 DEF LoadOrderForUpdate, HoldsRow, HoldsID
<1>7. ASSUME NEW r \in Requests, FindForMissingOrder(r) PROVE Fair(r)
  BY <1>2, <1>7 DEF FindForMissingOrder
<1>8. ASSUME NEW r \in Requests, FindByCommandID(r) PROVE Fair(r)
  BY <1>8 DEF FindByCommandID, HoldsRow, HoldsID, Creates
<1>9. ASSUME NEW r \in Requests, InsertOrder(r) PROVE Fair(r)
  BY <1>9 DEF InsertOrder, HoldsRow, HoldsID
<1>10. ASSUME NEW r \in Requests, UpdateOrder(r) PROVE Fair(r)
  BY <1>10 DEF UpdateOrder, HoldsRow, HoldsID, Creates
<1>11. ASSUME NEW r \in Requests, InsertHistory(r) PROVE Fair(r)
  BY <1>11 DEF InsertHistory, HoldsRow, HoldsID
<1>12. ASSUME NEW r \in Requests, Enqueue(r) PROVE Fair(r)
  BY <1>12 DEF Enqueue, HoldsRow, HoldsID
<1>13. ASSUME NEW r \in Requests, Commit(r) \/ CommitFails(r) PROVE Fair(r)
  BY <1>2, <1>13 DEF Commit, CommitFails
<1>14. ASSUME NEW r \in Requests, ResolveViolation(r) PROVE Fair(r)
  BY <1>2, <1>14 DEF ResolveViolation
<1>15. ASSUME NEW r \in Requests, Reply(r) PROVE Fair(r)
  BY <1>2, <1>15 DEF Reply
<1>16. ASSUME NEW r \in Requests, RequestStep(r) PROVE Fair(r)
  BY <1>3, <1>4, <1>5, <1>6, <1>7, <1>8, <1>9, <1>10, <1>11, <1>12, <1>13, <1>14, <1>15, <1>16
     DEF RequestStep, Advance
<1>17. CASE Crash
  BY <1>17 DEF Crash, RowsLocked, IDsLocked, HoldsRow, HoldsID
<1>18. CASE Restart \/ UNCHANGED vars
  BY <1>18 DEF Restart, vars, requestVars, RowsLocked, IDsLocked, HoldsRow, HoldsID, Creates
<1> HIDE DEF Fair
<1> QED
  BY <1>1, <1>16, <1>17, <1>18, OneMoves DEF Next, RequestStep

\* A request that holds a row is not disturbed by the commit of another one.
LEMMA CommitElsewhere ==
    ASSUME TypeInv, RowsLocked, IDsLocked, NEW r \in Requests, NEW q \in Requests \ {r}, Commits(r)
    PROVE  /\ \A o \in Orders : HoldsRow(q, o) =>
                 /\ orders'[o] = orders[o]
                 /\ \A e \in history' \ history : e.command.order # o
           /\ \A id \in IDs : HoldsID(q, id) => \A e \in history' \ history : e.id # id
<1>1. cmd[r] \in Commands /\ cmd[r].order \in Orders /\ cmd[r].id \in IDs
  BY CommandType DEF Commits, TypeInv
<1>2. HoldsRow(r, cmd[r].order) /\ HoldsID(r, cmd[r].id)
  BY DEF HoldsRow, HoldsID, Commits
<1>3. \A e \in history' \ history : e.command = cmd[r] /\ e.id = cmd[r].id
  BY DEF Commits, CommitTables
<1>4. \A o \in Orders : o # cmd[r].order => orders'[o] = orders[o]
  BY <1>1 DEF Commits, CommitTables, TypeInv, TypeOK
<1>5. \A o \in Orders : HoldsRow(q, o) => o # cmd[r].order
  BY <1>1, <1>2 DEF RowsLocked
<1>6. \A id \in IDs : HoldsID(q, id) => id # cmd[r].id
  BY <1>1, <1>2 DEF IDsLocked
<1> QED
  BY <1>3, <1>4, <1>5, <1>6

\* What was read under the row lock still holds.
LEMMA ReadsStep ==
    TypeInv /\ RowsLocked /\ IDsLocked /\ EntriesOK /\ ReadsHold /\ [Next]_vars => ReadsHold'
<1> SUFFICES ASSUME TypeInv, RowsLocked, IDsLocked, EntriesOK, ReadsHold, [Next]_vars
             PROVE  ReadsHold'
  OBVIOUS
<1> DEFINE Holds(r) ==
      pc[r] \in {"find", "order"} /\ ~Creates(r) =>
        /\ row[r] = orders[cmd[r].order]
        /\ row[r] # NoOrder
        /\ pc[r] = "order" => \A e \in history : e.command # cmd[r]
<1>1. \A r \in Requests : Holds(r)
  BY DEF ReadsHold
<1>2. ASSUME NEW r \in Requests, OthersKeep(r), UNCHANGED tableVars, Holds(r)' PROVE ReadsHold'
  BY <1>1, <1>2 DEF OthersKeep, ReadsHold, tableVars, Creates
<1>3. ASSUME NEW r \in Requests, OthersKeep(r), Commits(r) PROVE ReadsHold'
  <2>1. Holds(r)'
    BY <1>3 DEF Commits, TypeInv, TypeOK
  <2>2. ASSUME NEW q \in Requests \ {r} PROVE Holds(q)'
    <3>1. CASE pc[q] \in {"find", "order"} /\ ~Creates(q)
      <4>1. HoldsRow(q, cmd[q].order) /\ cmd[q].order \in Orders
        BY <3>1, CommandType DEF HoldsRow, TypeInv
      <4>2. orders'[cmd[q].order] = orders[cmd[q].order]
            /\ \A e \in history' \ history : e.command # cmd[q]
        BY <1>3, <4>1, CommitElsewhere
      <4> QED
        BY <1>1, <1>3, <3>1, <4>2 DEF OthersKeep
    <3>2. CASE ~(pc[q] \in {"find", "order"} /\ ~Creates(q))
      BY <1>3, <3>2 DEF OthersKeep, Creates
    <3> QED
      BY <3>1, <3>2
  <2> QED
    BY <2>1, <2>2 DEF ReadsHold
<1>4. ASSUME NEW r \in Requests, pc'[r] \notin {"find", "order"} PROVE Holds(r)'
  BY <1>4
<1> USE DEF TypeInv, TypeOK, Goto, Return, ResolveWith
<1>5. ASSUME NEW r \in Requests, NEW c \in Commands, Arrive(r, c) PROVE Holds(r)'
  BY <1>5 DEF Arrive, Creates
<1>6. ASSUME NEW r \in Requests, Expire(r) PROVE Holds(r)'
  BY <1>1, <1>6 DEF Expire, tableVars, Creates
<1>7. ASSUME NEW r \in Requests, LoadOrderForUpdate(r) PROVE Holds(r)'
  BY <1>7 DEF LoadOrderForUpdate, tableVars
<1>8. ASSUME NEW r \in Requests, FindByCommandID(r) PROVE Holds(r)'
  <2>1. CASE pc'[r] = "reply"
    BY <1>4, <2>1
  <2>2. CASE Recorded(cmd[r].id) = {} /\ pc' = [pc EXCEPT ![r] = "order"] /\ UNCHANGED row
    <3>1. \A e \in history : e.command # cmd[r]
      BY <2>2 DEF Recorded, EntriesOK
    <3>2. UNCHANGED <<cmd, history, orders>> /\ pc[r] = "find"
      BY <1>8 DEF FindByCommandID, tableVars
    <3> QED
      BY <1>1, <2>2, <3>1, <3>2 DEF Creates
  <2> QED
    BY <1>8, <2>1, <2>2 DEF FindByCommandID
<1>9. ASSUME NEW r \in Requests, Advance(r), ~LoadOrderForUpdate(r), ~FindByCommandID(r)
      PROVE  pc'[r] \notin {"find", "order"}
  BY <1>9 DEF Advance, AbortExpired, FindForMissingOrder, InsertOrder, UpdateOrder, InsertHistory,
     Enqueue, Commit, CommitFails, ResolveViolation, Reply
<1>10. ASSUME NEW r \in Requests, RequestStep(r) PROVE Holds(r)'
  BY <1>4, <1>5, <1>6, <1>7, <1>8, <1>9, <1>10 DEF RequestStep
<1>11. CASE Crash
  BY <1>11 DEF Crash, ReadsHold
<1>12. CASE Restart \/ UNCHANGED vars
  BY <1>1, <1>12 DEF Restart, vars, requestVars, tableVars, ReadsHold, Creates
<1> HIDE DEF Holds
<1> QED
  BY <1>2, <1>3, <1>10, <1>11, <1>12, OneMoves, TablesChangeAtCommit DEF Next, RequestStep

\* A writing transaction stays one step ahead of its order, and its id stays free.
LEMMA WritesStep ==
    TypeInv /\ RowsLocked /\ IDsLocked /\ ReadsHold /\ WritesAdvance /\ [Next]_vars
        => WritesAdvance'
<1> SUFFICES ASSUME TypeInv, RowsLocked, IDsLocked, ReadsHold, WritesAdvance, [Next]_vars
             PROVE  WritesAdvance'
  OBVIOUS
<1> DEFINE Ahead(r) ==
      Writing(r) =>
        LET before == orders[cmd[r].order] IN
        /\ row[r].status \in Statuses
        /\ row[r].rev = before.rev + 1
        /\ Creates(r) => before = NoOrder /\ row[r].status = "pending"
        /\ ~Creates(r) => /\ before # NoOrder
                          /\ row[r].status = TransitionStatus(before.status, cmd[r].action)
        /\ pc[r] \in {"outbox", "commit"} => Recorded(cmd[r].id) = {}
<1>1. \A r \in Requests : Ahead(r)
  BY DEF WritesAdvance
<1>2. ASSUME NEW r \in Requests, OthersKeep(r), UNCHANGED tableVars, Ahead(r)' PROVE WritesAdvance'
  BY <1>1, <1>2 DEF OthersKeep, WritesAdvance, Writing, tableVars, Creates, Recorded
<1>3. ASSUME NEW r \in Requests, OthersKeep(r), Commits(r) PROVE WritesAdvance'
  <2>1. Ahead(r)'
    BY <1>3 DEF Commits, TypeInv, TypeOK, Writing
  <2>2. ASSUME NEW q \in Requests \ {r} PROVE Ahead(q)'
    <3>1. CASE Writing(q)
      <4>1. HoldsRow(q, cmd[q].order) /\ cmd[q].order \in Orders /\ cmd[q].id \in IDs
        BY <3>1, CommandType DEF HoldsRow, Writing, TypeInv
      <4>2. orders'[cmd[q].order] = orders[cmd[q].order]
        BY <1>3, <4>1, CommitElsewhere
      <4>3. pc[q] \in {"outbox", "commit"} => \A e \in history' \ history : e.id # cmd[q].id
        BY <1>3, <4>1, CommitElsewhere DEF HoldsID
      <4>4. pc[q] \in {"outbox", "commit"} => Recorded(cmd[q].id)' = {}
        BY <1>1, <1>3, <3>1, <4>3 DEF Recorded, OthersKeep
      <4> QED
        BY <1>1, <1>3, <3>1, <4>2, <4>4 DEF OthersKeep, Creates, Writing
    <3>2. CASE ~Writing(q)
      BY <1>3, <3>2 DEF OthersKeep, Writing
    <3> QED
      BY <3>1, <3>2
  <2> QED
    BY <2>1, <2>2 DEF WritesAdvance
<1> USE DEF TypeInv, TypeOK, Goto, Return, ResolveWith
<1>4. ASSUME NEW r \in Requests, Expire(r) PROVE Ahead(r)'
  BY <1>1, <1>4 DEF Expire, tableVars, Creates, Writing, Recorded
<1>5. ASSUME NEW r \in Requests, InsertOrder(r) PROVE Ahead(r)'
  BY <1>5 DEF InsertOrder, tableVars, Creates, Writing, Statuses, NoOrder
<1>6. ASSUME NEW r \in Requests, UpdateOrder(r) PROVE Ahead(r)'
  <2>1. CASE pc'[r] = "reply"
    BY <2>1 DEF Writing
  <2>2. CASE pc'[r] # "reply"
    <3> DEFINE next == TransitionStatus(row[r].status, cmd[r].action)
    <3>1. /\ pc[r] = "order" /\ ~Creates(r) /\ next # "none"
          /\ pc' = [pc EXCEPT ![r] = "history"]
          /\ row'[r] = [status |-> next, rev |-> row[r].rev + 1]
          /\ UNCHANGED <<cmd, orders>>
      BY <1>6, <2>2 DEF UpdateOrder, tableVars
    <3>2. row[r] = orders[cmd[r].order] /\ row[r] # NoOrder
      BY <3>1 DEF ReadsHold
    <3>3. next \in Statuses
      BY <3>1, CommandType, TransitionFacts
    <3> QED
      BY <3>1, <3>2, <3>3 DEF Creates, Writing
  <2> QED
    BY <2>1, <2>2
<1>7. ASSUME NEW r \in Requests, InsertHistory(r) PROVE Ahead(r)'
  BY <1>1, <1>7 DEF InsertHistory, tableVars, Creates, Writing, Recorded
<1>8. ASSUME NEW r \in Requests, Enqueue(r) PROVE Ahead(r)'
  BY <1>1, <1>8 DEF Enqueue, tableVars, Creates, Writing, Recorded
<1>9. ASSUME NEW r \in Requests, pc'[r] \notin {"history", "outbox", "commit"} PROVE Ahead(r)'
  BY <1>9 DEF Writing
<1>10. ASSUME NEW r \in Requests, Advance(r),
              ~(InsertOrder(r) \/ UpdateOrder(r) \/ InsertHistory(r) \/ Enqueue(r))
       PROVE  pc'[r] \notin {"history", "outbox", "commit"}
  BY <1>10 DEF Advance, AbortExpired, LoadOrderForUpdate, FindForMissingOrder, FindByCommandID,
     Commit, CommitFails, ResolveViolation, Reply
<1>11. ASSUME NEW r \in Requests, NEW c \in Commands, Arrive(r, c)
       PROVE  pc'[r] \notin {"history", "outbox", "commit"}
  BY <1>11 DEF Arrive
<1>12. ASSUME NEW r \in Requests, RequestStep(r) PROVE Ahead(r)'
  BY <1>4, <1>5, <1>6, <1>7, <1>8, <1>9, <1>10, <1>11, <1>12 DEF RequestStep
<1>13. CASE Crash
  BY <1>13 DEF Crash, WritesAdvance, Writing
<1>14. CASE Restart \/ UNCHANGED vars
  BY <1>1, <1>14 DEF Restart, vars, requestVars, tableVars, WritesAdvance, Writing, Creates, Recorded
<1> HIDE DEF Ahead
<1> QED
  BY <1>2, <1>3, <1>12, <1>13, <1>14, OneMoves, TablesChangeAtCommit DEF Next, RequestStep

--------------------------------------------------------------------------------
\* The revisions and the ids of one more entry.
LEMMA OneMoreEntry ==
    ASSUME NEW S, NEW x
    PROVE  /\ {e.rev : e \in S \union {x}} = {e.rev : e \in S} \union {x.rev}
           /\ {e.id : e \in S \union {x}} = {e.id : e \in S} \union {x.id}
<1>1. {e.rev : e \in S \union {x}} = {e.rev : e \in S} \union {x.rev}
  OBVIOUS
<1>2. {e.id : e \in S \union {x}} = {e.id : e \in S} \union {x.id}
  OBVIOUS
<1> QED
  BY <1>1, <1>2

\* The tables: a commit adds the entry with the next revision of its order and an id
\* that is not in the history yet.
LEMMA CommitAddsEntry ==
    ASSUME TypeInv, WritesAdvance, EntriesOK, TablesAgree, NEW r \in Requests, Commits(r)
    PROVE  EntriesOK' /\ TablesAgree'
\* The command and the row as constants, so that they stay put under a prime.
<1>0. PICK c, w : c = cmd[r] /\ w = row[r]
  OBVIOUS
<1> DEFINE new == [id |-> c.id, command |-> c, rev |-> w.rev, status |-> w.status]
<1>1. c \in Commands /\ c.order \in Orders /\ c.id \in IDs
  BY <1>0, CommandType DEF Commits, TypeInv
<1>2. /\ history' = history \union {new} /\ outbox' = outbox \union {c.id}
      /\ orders' = [orders EXCEPT ![c.order] = w]
  BY <1>0 DEF Commits, CommitTables
<1>3. /\ w.rev = orders[c.order].rev + 1 /\ Recorded(c.id) = {}
      /\ orders[c.order].rev \in Nat /\ w.rev \in Nat
  BY <1>0, <1>1, ProjectionType DEF WritesAdvance, Writing, Commits, TypeInv, TypeOK
<1>4. \A e \in history : e.id # c.id
  BY <1>3 DEF Recorded
<1>5. ASSUME NEW o \in Orders, o # c.order PROVE Entries(o)' = Entries(o) /\ orders'[o] = orders[o]
  BY <1>1, <1>2, <1>5 DEF Entries, TypeInv, TypeOK
<1>6. Entries(c.order)' = Entries(c.order) \union {new} /\ orders'[c.order] = w
  BY <1>1, <1>2 DEF Entries, TypeInv, TypeOK
<1>7. \A e \in Entries(c.order) : e.rev \in 1 .. orders[c.order].rev
  BY <1>1 DEF TablesAgree
<1>8. new \notin Entries(c.order)
  BY <1>3, <1>7
<1>9. /\ IsFiniteSet(Entries(c.order)')
      /\ Cardinality(Entries(c.order)') = Cardinality(Entries(c.order)) + 1
  BY <1>1, <1>6, <1>8, FS_AddElement DEF EntriesOK
<1>10. EntriesOK'
  <2>1. \A e \in history' : e.id = e.command.id
    BY <1>2 DEF EntriesOK
  <2>2. ASSUME NEW o \in Orders PROVE IsFiniteSet(Entries(o)')
    BY <1>5, <1>9 DEF EntriesOK
  <2> QED
    BY <2>1, <2>2 DEF EntriesOK
<1>11. ASSUME NEW o \in Orders
       PROVE  /\ {e.rev : e \in Entries(o)'} = 1 .. orders'[o].rev
              /\ Cardinality(Entries(o)') = orders'[o].rev
              /\ \A e \in Entries(o)' : e.rev = orders'[o].rev => e.status = orders'[o].status
  <2>1. CASE o # c.order
    BY <1>5, <2>1 DEF TablesAgree
  <2>2. CASE o = c.order
    <3>1. {e.rev : e \in Entries(o)} = 1 .. orders[o].rev
      BY DEF TablesAgree
    <3>2. {e.rev : e \in Entries(o)'} = {e.rev : e \in Entries(o)} \union {w.rev}
      <4>1. {e.rev : e \in Entries(o) \union {new}} = {e.rev : e \in Entries(o)} \union {new.rev}
        BY OneMoreEntry
      <4> QED
        BY <1>6, <2>2, <4>1
    <3>3. {e.rev : e \in Entries(o)'} = 1 .. orders'[o].rev
      BY <1>3, <1>6, <2>2, <3>1, <3>2
    <3>4. Cardinality(Entries(o)') = orders'[o].rev
      BY <1>3, <1>6, <1>9, <2>2 DEF TablesAgree
    <3>5. \A e \in Entries(o)' : e.rev = orders'[o].rev => e.status = orders'[o].status
      BY <1>3, <1>6, <1>7, <2>2
    <3> QED
      BY <3>3, <3>4, <3>5
  <2> QED
    BY <2>1, <2>2
<1>12. \A e, f \in history' : e.id = f.id => e = f
  BY <1>2, <1>4 DEF TablesAgree
<1>13. outbox' = {e.id : e \in history'}
  <2>1. {e.id : e \in history \union {new}} = {e.id : e \in history} \union {new.id}
    BY OneMoreEntry
  <2> QED
    BY <1>2, <2>1 DEF TablesAgree
<1> QED
  BY <1>10, <1>11, <1>12, <1>13 DEF TablesAgree

LEMMA TablesStep ==
    TypeInv /\ WritesAdvance /\ EntriesOK /\ TablesAgree /\ [Next]_vars => EntriesOK' /\ TablesAgree'
<1> SUFFICES ASSUME TypeInv, WritesAdvance, EntriesOK, TablesAgree, [Next]_vars
             PROVE  EntriesOK' /\ TablesAgree'
  OBVIOUS
<1>1. CASE UNCHANGED tableVars
  BY <1>1 DEF tableVars, EntriesOK, TablesAgree, Entries
<1>2. ASSUME NEW r \in Requests, Commits(r) PROVE EntriesOK' /\ TablesAgree'
  BY <1>2, CommitAddsEntry
<1>3. Crash \/ Restart \/ UNCHANGED vars => UNCHANGED tableVars
  BY DEF Crash, Restart, vars
<1> QED
  BY <1>1, <1>2, <1>3, TablesChangeAtCommit DEF Next, RequestStep

--------------------------------------------------------------------------------
LEMMA InvInit == Init => IInv
<1> SUFFICES ASSUME Init PROVE IInv
  OBVIOUS
<1>1. RowsLocked /\ IDsLocked /\ ReadsHold /\ WritesAdvance
  BY DEF Init, RowsLocked, IDsLocked, ReadsHold, WritesAdvance, Writing, HoldsRow, HoldsID
<1>2. history = {} /\ outbox = {} /\ \A o \in Orders : Entries(o) = {} /\ orders[o].rev = 0
  BY DEF Init, Entries, NoOrder
<1>3. EntriesOK /\ TablesAgree
  BY <1>2, FS_EmptySet DEF EntriesOK, TablesAgree
<1> QED
  BY <1>1, <1>3, TypeInit DEF IInv

LEMMA InvStep == IInv /\ [Next]_vars => IInv'
  BY TypeStep, LocksStep, ReadsStep, WritesStep, TablesStep DEF IInv

LEMMA WorkflowInvariant == Spec => []IInv
  BY InvInit, InvStep, PTL DEF Spec

\* For any number of requests, orders and commands: the state keeps its types; what
\* COMMIT writes is a validated command with a status and a positive revision.
THEOREM WorkflowTypes == Spec => []TypeOK
<1>1. IInv => TypeOK
  BY DEF IInv, TypeInv
<1> QED
  BY <1>1, WorkflowInvariant, PTL

\* For any number of requests, orders and commands, however requests time out, commits
\* are lost and the process crashes: an order, its audit history and the outbox tell
\* one story, without a gap or a duplicate.
THEOREM OneStory == Spec => []TablesAgree
<1>1. IInv => TablesAgree
  BY DEF IInv
<1> QED
  BY <1>1, WorkflowInvariant, PTL

\* For any number of requests: an order moves one revision at a time, and a cancelled
\* order never again.
THEOREM OrdersOnlyAdvance == Spec => OrdersMoveForward
<1>1. IInv /\ [Next]_vars => [\A o \in Orders : orders'[o] # orders[o] =>
                                /\ orders'[o].rev = orders[o].rev + 1
                                /\ orders[o].status # "cancelled"]_vars
  <2> SUFFICES ASSUME IInv, [Next]_vars, NEW o \in Orders, orders'[o] # orders[o]
               PROVE  orders'[o].rev = orders[o].rev + 1 /\ orders[o].status # "cancelled"
    OBVIOUS
  <2>1. PICK r \in Requests : Commits(r)
    BY TablesChangeAtCommit DEF Next, RequestStep, Crash, Restart, vars, tableVars
  <2>2. cmd[r] \in Commands /\ o = cmd[r].order /\ orders'[o] = row[r]
    BY <2>1, CommandType DEF Commits, CommitTables, IInv, TypeInv, TypeOK
  <2>3. orders'[o].rev = orders[o].rev + 1
    BY <2>1, <2>2 DEF IInv, WritesAdvance, Writing, Commits
  <2>4. orders[o].status # "cancelled"
    BY <2>1, <2>2, CommandType, TransitionFacts
       DEF IInv, WritesAdvance, Writing, Commits, NoOrder, Statuses
  <2> QED
    BY <2>3, <2>4
<1> QED
  BY <1>1, WorkflowInvariant, PTL DEF Spec, OrdersMoveForward

--------------------------------------------------------------------------------
\* Conflicts: a dead command stays dead, whoever commits.
LEMMA DeadStays ==
    ASSUME IInv, NEW c \in Commands, Dead(c), NEW r \in Requests, Commits(r)
    PROVE  Dead(c)'
<1> USE DEF IInv
<1>0. PICK d, w : d = cmd[r] /\ w = row[r]
  OBVIOUS
<1>1. d \in Commands /\ d.order \in Orders /\ d.action \in {"create", "confirm", "cancel"}
      /\ c.order \in Orders /\ c.action \in {"create", "confirm", "cancel"}
  BY <1>0, CommandType DEF Commits, TypeInv
<1>2. /\ history' = history \union
             {[id |-> d.id, command |-> d, rev |-> w.rev, status |-> w.status]}
      /\ orders' = [orders EXCEPT ![d.order] = w]
  BY <1>0 DEF Commits, CommitTables
<1>3. /\ w.status \in Statuses
      /\ d.action = "create" => orders[d.order] = NoOrder
      /\ d.action # "create" => w.status = TransitionStatus(orders[d.order].status, d.action)
      /\ Recorded(d.id) = {}
  BY <1>0 DEF WritesAdvance, Writing, Commits, Creates
<1>4. c # d
  BY <1>3 DEF Dead, PastApplying, Statuses
<1>5. \A e \in history' : e.command # c
  BY <1>2, <1>4 DEF Dead
<1>6. CASE Recorded(c.id) # {}
  BY <1>2, <1>5, <1>6 DEF Dead, Recorded
<1>7. CASE PastApplying(c)
  <2>1. CASE c.order # d.order
    <3>1. orders'[c.order] = orders[c.order]
      BY <1>1, <1>2, <2>1 DEF TypeInv, TypeOK
    <3> QED
      BY <1>5, <1>7, <3>1 DEF Dead, PastApplying
  <2>2. CASE c.order = d.order
    <3>1. orders'[c.order] = w /\ w # NoOrder
      BY <1>1, <1>2, <1>3, <2>2 DEF TypeInv, TypeOK, NoOrder, Statuses
    <3>2. w.status = TransitionStatus(orders[c.order].status, d.action)
      BY <1>3, <1>7, <2>2 DEF PastApplying
    <3>3. c.action # "create" => TransitionStatus(w.status, c.action) = "none"
      BY <1>1, <1>3, <1>7, <3>2, TransitionFacts DEF PastApplying, Statuses
    <3> QED
      BY <1>5, <3>1, <3>3 DEF Dead, PastApplying
  <2> QED
    BY <2>1, <2>2
<1> QED
  BY <1>6, <1>7 DEF Dead

\* matchesCreate and matchesTransition accept the stored command itself, so a command
\* they refuse is another one.
LEMMA RefusedIsDead ==
    ASSUME IInv, NEW c \in Commands, NEW e \in Recorded(c.id), ~Matches(e.command, c)
    PROVE  Dead(c)
<1>1. e.command # c
  BY DEF Matches, MetadataEqual
<1>2. \A f \in history : f.command = c => f.id = e.id
  BY DEF Recorded, IInv, EntriesOK
<1> QED
  BY <1>1, <1>2 DEF Dead, Recorded, IInv, TablesAgree

LEMMA ConflictsStep == IInv /\ ConflictsAreDead /\ [Next]_vars => ConflictsAreDead'
<1> SUFFICES ASSUME IInv, ConflictsAreDead, [Next]_vars PROVE ConflictsAreDead'
  OBVIOUS
<1> DEFINE
      Taken(r) == Recorded(cmd[r].id) # {} \/ (Creates(r) /\ orders[cmd[r].order] # NoOrder)
      Lost(r) == /\ pc[r] = "resolve" => Taken(r)
                 /\ pc[r] = "reply" /\ outcome[r] = "conflict" => Dead(cmd[r])
<1>1. (\A r \in Requests : Lost(r)) /\ (\A c \in refused : Dead(c))
  BY DEF ConflictsAreDead
<1>2. ASSUME NEW r \in Requests, UNCHANGED tableVars \/ Commits(r), OthersKeep(r), Lost(r)',
             refused' \subseteq refused \union {c \in Commands : Dead(c)}
      PROVE  ConflictsAreDead'
  <2>1. ASSUME NEW c \in Commands, Dead(c) PROVE Dead(c)'
    <3>1. CASE UNCHANGED tableVars
      BY <2>1, <3>1 DEF tableVars, Dead, PastApplying, Recorded
    <3>2. CASE Commits(r)
      BY <2>1, <3>2, DeadStays
    <3> QED
      BY <1>2, <3>1, <3>2
  <2>2. ASSUME NEW q \in Requests \ {r} PROVE Lost(q)'
    <3>1. pc'[q] = pc[q] /\ cmd'[q] = cmd[q] /\ outcome'[q] = outcome[q]
      BY <1>2 DEF OthersKeep
    <3>2. pc[q] # "idle" => cmd[q] \in Commands
      BY DEF IInv, TypeInv
    <3>3. history \subseteq history'
      BY <1>2 DEF tableVars, Commits, CommitTables
    <3>4. \A o \in Orders : orders[o] # NoOrder => orders'[o] # NoOrder
      <4>1. CASE UNCHANGED tableVars
        BY <4>1 DEF tableVars
      <4>2. CASE Commits(r)
        BY <4>2 DEF Commits, CommitTables, IInv, TypeInv, TypeOK, WritesAdvance, Writing, NoOrder,
           Statuses
      <4> QED
        BY <1>2, <4>1, <4>2
    <3>5. pc[q] = "resolve" => Taken(q)'
      BY <1>1, <3>1, <3>2, <3>3, <3>4, CommandType DEF Recorded, Creates
    <3> QED
      BY <1>1, <2>1, <3>1, <3>2, <3>5
  <2>3. \A c \in refused' : Dead(c)'
    BY <1>1, <1>2, <2>1 DEF IInv, TypeInv, TypeOK
  <2> QED
    BY <1>2, <2>2, <2>3 DEF ConflictsAreDead
<1>3. ASSUME NEW r \in Requests, pc'[r] \notin {"resolve", "reply"} PROVE Lost(r)'
  BY <1>3
<1>4. ASSUME NEW r \in Requests, pc'[r] = "reply", outcome'[r] # "conflict" PROVE Lost(r)'
  BY <1>4
<1> HIDE DEF Lost
<1> USE DEF IInv, TypeInv, TypeOK, Goto, Return
<1>5. ASSUME NEW r \in Requests, UNCHANGED <<cmd, tableVars>>, pc[r] # "idle",
             \E e \in Recorded(cmd[r].id) : ResolveWith(r, e)
      PROVE  Lost(r)'
  <2>1. CASE outcome'[r] # "conflict"
    BY <1>4, <1>5, <2>1 DEF ResolveWith
  <2>2. CASE outcome'[r] = "conflict"
    <3>1. PICK e \in Recorded(cmd[r].id) : ~Matches(e.command, cmd[r]) /\ pc'[r] = "reply"
      BY <1>5, <2>2 DEF ResolveWith
    <3>2. Dead(cmd[r])
      BY <1>5, <3>1, RefusedIsDead
    <3> QED
      BY <1>5, <3>1, <3>2 DEF Lost, Dead, PastApplying, Recorded, tableVars
  <2> QED
    BY <2>1, <2>2
<1>6. ASSUME NEW r \in Requests, NEW c \in Commands, Arrive(r, c) PROVE Lost(r)'
  BY <1>3, <1>6 DEF Arrive
<1>7. ASSUME NEW r \in Requests, Expire(r) PROVE Lost(r)'
  BY <1>1, <1>7 DEF Expire, tableVars, Lost, Dead, PastApplying, Recorded, Creates
<1>8. ASSUME NEW r \in Requests, AbortExpired(r) PROVE Lost(r)'
  BY <1>4, <1>8 DEF AbortExpired
<1>9. ASSUME NEW r \in Requests, LoadOrderForUpdate(r) PROVE Lost(r)'
  BY <1>3, <1>9 DEF LoadOrderForUpdate
<1>10. ASSUME NEW r \in Requests, FindForMissingOrder(r) PROVE Lost(r)'
  BY <1>4, <1>5, <1>10 DEF FindForMissingOrder
<1>11. ASSUME NEW r \in Requests, FindByCommandID(r) PROVE Lost(r)'
  BY <1>3, <1>5, <1>11 DEF FindByCommandID
<1>12. ASSUME NEW r \in Requests, InsertOrder(r) PROVE Lost(r)'
  <2>1. CASE orders[cmd[r].order] # NoOrder
    BY <1>12, <2>1 DEF InsertOrder, Lost, tableVars, Creates
  <2>2. CASE orders[cmd[r].order] = NoOrder
    BY <1>3, <1>12, <2>2 DEF InsertOrder
  <2> QED
    BY <2>1, <2>2
<1>13. ASSUME NEW r \in Requests, UpdateOrder(r) PROVE Lost(r)'
  <2>1. pc[r] = "order" /\ ~Creates(r) /\ UNCHANGED <<cmd, orders, history>>
    BY <1>13 DEF UpdateOrder, tableVars
  <2>2. row[r] = orders[cmd[r].order] /\ row[r] # NoOrder /\ \A e \in history : e.command # cmd[r]
    BY <2>1 DEF ReadsHold
  <2>3. CASE TransitionStatus(row[r].status, cmd[r].action) = "none"
    <3>1. Dead(cmd[r])
      BY <2>2, <2>3 DEF Dead, PastApplying
    <3>2. pc'[r] = "reply"
      BY <1>13, <2>3 DEF UpdateOrder
    <3> QED
      BY <2>1, <3>1, <3>2 DEF Lost, Dead, PastApplying, Recorded
  <2>4. CASE TransitionStatus(row[r].status, cmd[r].action) # "none"
    BY <1>3, <1>13, <2>2, <2>4 DEF UpdateOrder
  <2> QED
    BY <2>3, <2>4
<1>14. ASSUME NEW r \in Requests, InsertHistory(r) PROVE Lost(r)'
  <2>1. CASE Recorded(cmd[r].id) # {}
    BY <1>14, <2>1 DEF InsertHistory, Lost, tableVars, Recorded
  <2>2. CASE Recorded(cmd[r].id) = {}
    BY <1>3, <1>4, <1>14, <2>2 DEF InsertHistory
  <2> QED
    BY <2>1, <2>2
<1>15. ASSUME NEW r \in Requests, Enqueue(r) PROVE Lost(r)'
  <2>1. CASE cmd[r].id \in outbox
    <3>1. Recorded(cmd[r].id) # {}
      BY <2>1 DEF TablesAgree, Recorded
    <3> QED
      BY <1>15, <3>1 DEF Enqueue, Lost, tableVars, Recorded
  <2>2. CASE cmd[r].id \notin outbox
    BY <1>3, <1>15, <2>2 DEF Enqueue
  <2> QED
    BY <2>1, <2>2
<1>16. ASSUME NEW r \in Requests, Commit(r) \/ CommitFails(r) PROVE Lost(r)'
  BY <1>4, <1>16 DEF Commit, CommitFails
<1>17. ASSUME NEW r \in Requests, ResolveViolation(r) PROVE Lost(r)'
  <2>1. CASE \E e \in Recorded(cmd[r].id) : ResolveWith(r, e)
    BY <1>5, <1>17, <2>1 DEF ResolveViolation
  <2>2. CASE Recorded(cmd[r].id) = {} /\ pc'[r] = "reply"
    <3>1. Creates(r) /\ orders[cmd[r].order] # NoOrder
      BY <1>1, <1>17, <2>2 DEF ResolveViolation, Lost
    <3>2. \A e \in history : e.command # cmd[r]
      BY <2>2 DEF Recorded, EntriesOK
    <3>3. Dead(cmd[r]) /\ UNCHANGED <<cmd, orders, history>>
      BY <1>17, <3>1, <3>2 DEF Dead, PastApplying, Creates, ResolveViolation, tableVars
    <3> QED
      BY <2>2, <3>3 DEF Lost, Dead, PastApplying, Recorded
  <2> QED
    BY <1>17, <2>1, <2>2 DEF ResolveViolation
<1>18. ASSUME NEW r \in Requests, Reply(r) PROVE Lost(r)'
  BY <1>3, <1>18 DEF Reply
<1>19. ASSUME NEW r \in Requests, RequestStep(r) PROVE Lost(r)'
  BY <1>6, <1>7, <1>8, <1>9, <1>10, <1>11, <1>12, <1>13, <1>14, <1>15, <1>16, <1>17, <1>18, <1>19
     DEF RequestStep, Advance
<1>20. ASSUME NEW r \in Requests, RequestStep(r)
       PROVE  refused' \subseteq refused \union {c \in Commands : Dead(c)}
  <2>1. CASE Reply(r)
    BY <1>1, <2>1 DEF Reply, Lost
  <2>2. CASE ~Reply(r)
    BY <1>20, <2>2 DEF RequestStep, Advance, Expire, Arrive, AbortExpired, LoadOrderForUpdate,
       FindForMissingOrder, FindByCommandID, InsertOrder, UpdateOrder, InsertHistory, Enqueue,
       Commit, CommitFails, ResolveViolation, ghostVars
  <2> QED
    BY <2>1, <2>2
<1>21. CASE Crash
  BY <1>21 DEF Crash, tableVars, ghostVars, ConflictsAreDead, Dead, PastApplying, Recorded
<1>22. CASE Restart \/ UNCHANGED vars
  BY <1>22 DEF Restart, vars, requestVars, tableVars, ghostVars, ConflictsAreDead, Dead,
     PastApplying, Recorded, Creates
<1>23. ASSUME NEW r \in Requests, RequestStep(r) PROVE ConflictsAreDead'
  BY <1>2, <1>19, <1>20, <1>23, OneMoves, TablesChangeAtCommit
<1> QED
  BY <1>21, <1>22, <1>23 DEF Next, RequestStep

\* For any number of requests: a command that was answered with a conflict has not
\* taken effect and never will, whatever races, retries and crashes follow.
THEOREM ConflictsAreFinal == Spec => []ConflictIsFinal
<1>1. Init => ConflictsAreDead
  BY DEF Init, ConflictsAreDead
<1>2. ConflictsAreDead => ConflictIsFinal
  BY DEF ConflictsAreDead, ConflictIsFinal, Dead
<1> QED
  BY <1>1, <1>2, ConflictsStep, WorkflowInvariant, PTL DEF Spec

--------------------------------------------------------------------------------
\* metadataEqual is equality on maps without empty values: as many keys, and no key of
\* the left one is missing in the right one.
LEMMA MetadataEqualIsEquality ==
    ASSUME NoEmptyValues, NEW c \in Commands, NEW d \in Commands,
           MetadataEqual(c.metadata, d.metadata)
    PROVE  c.metadata = d.metadata
<1>1. IsFiniteSet(DOMAIN d.metadata) /\ DOMAIN c.metadata \in SUBSET DOMAIN d.metadata
  BY WorkflowAssumption DEF NoEmptyValues, MetadataEqual
<1>2. DOMAIN c.metadata = DOMAIN d.metadata
  BY <1>1, FS_Subset DEF MetadataEqual
<1>3. /\ c.metadata = [k \in DOMAIN c.metadata |-> c.metadata[k]]
      /\ d.metadata = [k \in DOMAIN d.metadata |-> d.metadata[k]]
  BY WorkflowAssumption
<1>4. \A k \in DOMAIN c.metadata : c.metadata[k] = d.metadata[k]
  BY <1>2 DEF MetadataEqual
<1> QED
  BY <1>2, <1>3, <1>4, Zenon

LEMMA MatchIsEquality ==
    ASSUME NoEmptyValues, NEW c \in Commands, NEW d \in Commands, c.id = d.id, Matches(c, d)
    PROVE  c = d
<1>1. c.order = d.order /\ c.action = d.action /\ c.reason = d.reason /\ c.metadata = d.metadata
  BY MetadataEqualIsEquality DEF Matches
<1>2. \A x \in {c, d} : x \in [id : IDs, order : Orders, action : {"create", "confirm", "cancel"},
                             reason : {a.reason : a \in Commands},
                             metadata : {a.metadata : a \in Commands}]
  BY WorkflowAssumption
<1>3. \A x \in {c, d} : x = [id |-> x.id, order |-> x.order, action |-> x.action,
                           reason |-> x.reason, metadata |-> x.metadata]
  BY <1>2
<1> QED
  BY <1>1, <1>3, Zenon

LEMMA SuccessStep ==
    ASSUME NoEmptyValues
    PROVE  IInv /\ SuccessIsRecorded /\ AckedIsRecorded /\ [Next]_vars
               => SuccessIsRecorded' /\ AckedIsRecorded'
<1> SUFFICES ASSUME IInv, SuccessIsRecorded, AckedIsRecorded, [Next]_vars
             PROVE  SuccessIsRecorded' /\ AckedIsRecorded'
  OBVIOUS
<1> DEFINE
      Shown(c, w) == \E e \in Recorded(c.id) : e.command = c /\ w = [status |-> e.status, rev |-> e.rev]
      Good(r) == pc[r] = "reply" /\ outcome[r] \in {"fresh", "replayed"} => Shown(cmd[r], row[r])
<1>1. (\A r \in Requests : Good(r)) /\ (\A a \in acked : Shown(a.command, a.order))
  BY DEF SuccessIsRecorded, AckedIsRecorded
<1>2. ASSUME NEW r \in Requests, UNCHANGED tableVars \/ Commits(r), OthersKeep(r), Good(r)',
             \A a \in acked' : a \in acked \/ Shown(a.command, a.order)
      PROVE  SuccessIsRecorded' /\ AckedIsRecorded'
  <2>1. history \subseteq history'
    BY <1>2 DEF tableVars, Commits, CommitTables
  <2>2. ASSUME NEW q \in Requests \ {r} PROVE Good(q)'
    <3>1. pc'[q] = pc[q] /\ cmd'[q] = cmd[q] /\ outcome'[q] = outcome[q] /\ row'[q] = row[q]
      BY <1>2 DEF OthersKeep
    <3>2. CASE pc[q] = "reply" /\ outcome[q] \in {"fresh", "replayed"}
      <4>1. PICK e \in Recorded(cmd[q].id) :
              e.command = cmd[q] /\ row[q] = [status |-> e.status, rev |-> e.rev]
        BY <1>1, <3>2
      <4>2. e \in Recorded(cmd[q].id)'
        BY <2>1, <3>1, <4>1 DEF Recorded
      <4> QED
        BY <3>1, <4>1, <4>2
    <3>3. CASE ~(pc[q] = "reply" /\ outcome[q] \in {"fresh", "replayed"})
      BY <3>1, <3>3
    <3> QED
      BY <3>2, <3>3
  <2>3. SuccessIsRecorded'
    BY <1>2, <2>2 DEF SuccessIsRecorded
  <2>4. AckedIsRecorded'
    BY <1>1, <1>2, <2>1 DEF AckedIsRecorded, Recorded
  <2> QED
    BY <2>3, <2>4
<1>3. ASSUME NEW r \in Requests, pc'[r] # "reply" \/ outcome'[r] \notin {"fresh", "replayed"}
      PROVE  Good(r)'
  BY <1>3
<1> USE DEF IInv, TypeInv, TypeOK, Goto, Return
<1>4. ASSUME NEW r \in Requests, UNCHANGED <<cmd, tableVars>>, pc[r] # "idle",
             \E e \in Recorded(cmd[r].id) : ResolveWith(r, e)
      PROVE  Good(r)'
  <2>1. PICK e \in Recorded(cmd[r].id) : ResolveWith(r, e)
    BY <1>4
  <2>2. CASE ~Matches(e.command, cmd[r])
    BY <1>3, <2>1, <2>2 DEF ResolveWith
  <2>3. CASE Matches(e.command, cmd[r])
    <3>1. e.command = cmd[r]
      BY <1>4, <2>3, MatchIsEquality DEF Recorded, EntriesOK
    <3>2. row'[r] = [status |-> e.status, rev |-> e.rev]
      BY <2>1, <2>3 DEF ResolveWith
    <3> QED
      BY <1>4, <3>1, <3>2 DEF Recorded, tableVars
  <2> QED
    BY <2>2, <2>3
<1>5. ASSUME NEW r \in Requests, Expire(r) PROVE Good(r)'
  BY <1>1, <1>5 DEF Expire, tableVars, Recorded
<1>6. ASSUME NEW r \in Requests, Commit(r) PROVE Good(r)'
  <2>1. /\ row'[r] = row[r] /\ cmd' = cmd
        /\ [id |-> cmd[r].id, command |-> cmd[r], rev |-> row[r].rev, status |-> row[r].status]
              \in history'
    BY <1>6 DEF Commit, CommitTables
  <2>2. row[r] = [status |-> row[r].status, rev |-> row[r].rev]
    BY DEF Projections, NoOrder
  <2> QED
    BY <2>1, <2>2 DEF Recorded
<1>7. ASSUME NEW r \in Requests, FindForMissingOrder(r) PROVE Good(r)'
  BY <1>3, <1>4, <1>7 DEF FindForMissingOrder
<1>8. ASSUME NEW r \in Requests, FindByCommandID(r) PROVE Good(r)'
  BY <1>3, <1>4, <1>8 DEF FindByCommandID
<1>9. ASSUME NEW r \in Requests, ResolveViolation(r) PROVE Good(r)'
  BY <1>3, <1>4, <1>9 DEF ResolveViolation
<1>10. ASSUME NEW r \in Requests, NEW c \in Commands, Arrive(r, c) PROVE Good(r)'
  BY <1>3, <1>10 DEF Arrive
<1>11. ASSUME NEW r \in Requests, Advance(r),
              ~(Commit(r) \/ FindForMissingOrder(r) \/ FindByCommandID(r) \/ ResolveViolation(r))
       PROVE  Good(r)'
  <2>1. pc'[r] # "reply" \/ outcome'[r] \notin {"fresh", "replayed"}
    BY <1>11 DEF Advance, AbortExpired, LoadOrderForUpdate, InsertOrder, UpdateOrder,
       InsertHistory, Enqueue, CommitFails, Reply
  <2> QED
    BY <1>3, <2>1
<1> HIDE DEF Good
<1>12. ASSUME NEW r \in Requests, RequestStep(r) PROVE Good(r)'
  BY <1>5, <1>6, <1>7, <1>8, <1>9, <1>10, <1>11, <1>12 DEF RequestStep
<1>13. ASSUME NEW r \in Requests, RequestStep(r)
       PROVE  \A a \in acked' : a \in acked \/ Shown(a.command, a.order)
  <2>1. CASE Reply(r)
    BY <1>1, <2>1 DEF Reply, Good
  <2>2. CASE ~Reply(r)
    BY <1>13, <2>2 DEF RequestStep, Advance, Expire, Arrive, AbortExpired, LoadOrderForUpdate,
       FindForMissingOrder, FindByCommandID, InsertOrder, UpdateOrder, InsertHistory, Enqueue,
       Commit, CommitFails, ResolveViolation, ghostVars
  <2> QED
    BY <2>1, <2>2
<1>14. CASE Crash
  BY <1>14 DEF Crash, tableVars, ghostVars, SuccessIsRecorded, AckedIsRecorded, Recorded
<1>15. CASE Restart \/ UNCHANGED vars
  BY <1>15 DEF Restart, vars, requestVars, tableVars, ghostVars, SuccessIsRecorded,
     AckedIsRecorded, Recorded
<1> HIDE DEF Shown
<1>16. ASSUME NEW r \in Requests, RequestStep(r) PROVE SuccessIsRecorded' /\ AckedIsRecorded'
  BY <1>2, <1>12, <1>13, <1>16, OneMoves, TablesChangeAtCommit
<1> QED
  BY <1>14, <1>15, <1>16 DEF Next, RequestStep

\* For any number of requests whose metadata has no empty value: every success answer,
\* fresh or replayed, shows what the one entry of that very command recorded.
THEOREM AnswersStayTrue == ASSUME NoEmptyValues PROVE Spec => []AckedIsRecorded
<1>1. Init => SuccessIsRecorded /\ AckedIsRecorded
  BY DEF Init, SuccessIsRecorded, AckedIsRecorded
<1> QED
  BY <1>1, SuccessStep, WorkflowInvariant, PTL DEF Spec
================================================================================
