------------------------------- MODULE ApiProofs -------------------------------
(***************************************************************************)
(* Proofs about three HTTP APIs over shared state and two servers around   *)
(* such APIs.  For any number of concurrent requests: no two requests move *)
(* an order from the same state, a retried payment command gets its first  *)
(* answer and the stored answers are the moves of the payment, what the    *)
(* moderation API answers is and stays true of its store, and a client     *)
(* that follows the cursor of a search is shown every match once.          *)
(*                                                                         *)
(* The process around the order commands, for any handlers, outbox         *)
(* records, orders and attempts, and for every point at which the process  *)
(* is told to stop, loses its server or its relay, runs out of time or is  *)
(* killed: delivery is at least once, and the shutdown of RunLifecycle is  *)
(* in order.  The moderation server, for any number of requests in flight: *)
(* RunServer returns nil only after a clean shutdown.                      *)
(*                                                                         *)
(* The two programs with compensations.  One request of                    *)
(* examples/compensation-workflow whose client does not leave between the  *)
(* failure of the forward workflow and the answer leaves nothing behind    *)
(* and implements the saga.  One request of                                *)
(* examples/order-fulfillment-integration implements the saga whenever its *)
(* client leaves, and its lifecycle agrees with its effects.               *)
(***************************************************************************)
EXTENDS CompensationRun, FiniteSets, FiniteSetTheorems, TLAPS

CONSTANTS
    Requests, Keys,                              \* of the two state APIs
    IDs, MaximumRecords, MaximumResults, DefaultLimit, Submissions, Searches,  \* of the moderation service
    Handlers, Events, Aggregate, MaxAttempts,    \* of the order process
    MaxHandlers                                  \* of the moderation server

VARIABLES
    history, partial,   \* of the order fulfillment, beside those of CompensationRun
    expired, seen, view, total, amount, machine, known, entries,
    ended, draft, snapshot, result, base, collected, records,
    main, signalled, cause, deadline, errors, server, busy,
    relay, relayErr, relayCancel, relayFlag, outbox, sending, stream, exits,
    listener, handlers, late, results, cut

Lifecycle == INSTANCE OrderLifecycle
Payment == INSTANCE PaymentAuthorization
Moderation == INSTANCE ModerationService
Process == INSTANCE OrderRuntime
Server == INSTANCE ServerLifecycle

--------------------------------------------------------------------------------
\* The order lifecycle API.

States == Lifecycle!OrderStates \union {"none"}

OrderTypes ==
    /\ pc \in [Requests -> {"idle", "lookup", "commit", "state", "events", "done"}]
    /\ call \in [Requests -> [op : {"none", "transition", "can"},
                              event : Lifecycle!OrderEvents \union {"none", "other"}]]
    /\ expired \in [Requests -> BOOLEAN]
    /\ seen \in [Requests -> States]
    /\ view \in [Requests -> [state : States, events : States]]
    /\ outcome \in [Requests -> [code : Lifecycle!Codes, current : States]]
    /\ total \in BOOLEAN
    /\ machine \in Lifecycle!OrderStates

Moved(r) == outcome[r].code = "ok" /\ call[r].op = "transition"

\* A request that moved the order did so from a state the order has left for good, and
\* to one it has not been moved behind.
MoveIsBehind(r) ==
    Moved(r) =>
        /\ seen[r] \in Lifecycle!OrderStates
        /\ Lifecycle!Rank(seen[r]) < Lifecycle!Rank(machine)
        /\ outcome[r].current \in Lifecycle!OrderStates
        /\ Lifecycle!Reaches(outcome[r].current, machine)

MoversDiffer ==
    \A r, s \in Requests : r # s /\ Moved(r) /\ Moved(s) => seen[r] # seen[s]

\* The state a request acted on.
Acted(r) == IF outcome[r].current # "none" THEN outcome[r].current ELSE seen[r]

\* What the snapshot of a request has read so far is in the order the order went through.
ViewFollows(r) ==
    /\ pc[r] \in {"idle", "lookup", "commit"} => outcome[r] = Lifecycle!NoOutcome
    /\ pc[r] \in {"idle", "lookup", "commit", "state"} => view[r] = Lifecycle!NoView
    /\ pc[r] = "state" =>
          Acted(r) \in Lifecycle!OrderStates /\ Lifecycle!Reaches(Acted(r), machine)
    /\ pc[r] = "events" =>
          /\ view[r].state \in Lifecycle!OrderStates
          /\ Lifecycle!Reaches(Acted(r), view[r].state)
          /\ Lifecycle!Reaches(view[r].state, machine)
    /\ pc[r] = "done" /\ view[r].state # "none" =>
          /\ view[r].events \in Lifecycle!OrderStates
          /\ Lifecycle!Reaches(Acted(r), view[r].state)
          /\ Lifecycle!Reaches(view[r].state, view[r].events)
          /\ Lifecycle!Reaches(view[r].events, machine)

OrderInv ==
    /\ OrderTypes
    /\ MoversDiffer
    /\ \A r \in Requests : MoveIsBehind(r) /\ ViewFollows(r)

--------------------------------------------------------------------------------
\* The payment authorization API.

PaymentTypes ==
    /\ Payment!TypeOK
    /\ DOMAIN call = Requests
    /\ outcome \in [Requests -> [code : Payment!Codes, entry : Payment!Entries \union Payment!Snapshots,
                                 replay : BOOLEAN]]
    /\ \A r \in Requests : pc[r] = "locked" =>
          call[r].event \in Payment!PaymentEvents /\ call[r].key \in Keys
    /\ \A r \in Requests : pc[r] \in {"can", "snapshot"} => call[r].op = "can"

\* A stored answer never changes.
KnownStays ==
    \A r \in Requests, k \in Keys :
        known[r][k] # Payment!NoEntry => entries[k] = known[r][k]

\* The payment has left the states its stored moves started in.
MovesAreOver ==
    \A k \in Keys : entries[k] # Payment!NoEntry =>
        /\ entries[k].previous = "requested" => machine # "requested"
        /\ entries[k].previous = "authorized" => machine \in Payment!FinalStates

PaymentInv ==
    /\ PaymentTypes
    /\ KnownStays
    /\ MovesAreOver
    /\ Payment!RetriesAreReplayed
    /\ Payment!EntriesAreMoves

--------------------------------------------------------------------------------
\* The moderation API.

ModerationTypes ==
    /\ pc \in [Requests -> {"idle", "create", "route", "moderate", "terms", "commit", "get",
                            "search", "snapshot", "scan", "respond", "answered"}]
    /\ DOMAIN call = Requests
    /\ DOMAIN draft = Requests
    /\ DOMAIN result = Requests
    /\ DOMAIN outcome = Requests
    /\ IsFiniteSet(DOMAIN records)
    /\ Cardinality(DOMAIN records) <= MaximumRecords

\* A record waits for manual review exactly when there is a reason.
Reviewed(d) == d.outcome = "manual-review" <=> Moderation!ReviewReasons(d.content) # {}

\* The record that Create has prepared before its terms are.
Prepared(r, route) ==
    [outcome |-> route, metadata |-> call[r].metadata, terms |-> {}, content |-> call[r].content]

\* What an error or success code says about the store.
CodeIsTrue(r, code) ==
    /\ code = "ok" /\ call[r].op = "create" =>
          call[r].id \in DOMAIN records /\ records[call[r].id] = draft[r]
    /\ code = "duplicate_content_id" => call[r].id \in DOMAIN records
    /\ code = "store_capacity_reached" => Cardinality(DOMAIN records) = MaximumRecords

\* What a request knows at each of its steps.
RequestHolds(r) ==
    /\ "op" \in DOMAIN call[r]
    /\ pc[r] \in {"create", "route", "moderate", "terms", "commit"} => call[r].op = "create"
    /\ pc[r] = "get" => call[r].op = "get"
    /\ pc[r] \in {"search", "snapshot", "scan"} => call[r].op = "search"
    /\ pc[r] \in {"moderate", "terms"} => Moderation!ReviewReasons(call[r].content) = {}
    /\ pc[r] = "moderate" => draft[r] = Prepared(r, "manual-review")
    /\ pc[r] = "terms" => \E route \in {"allowed", "masked"} : draft[r] = Prepared(r, route)
    /\ pc[r] = "commit" => Reviewed(draft[r])
    /\ pc[r] = "respond" => CodeIsTrue(r, result[r].code)
    /\ pc[r] = "answered" => CodeIsTrue(r, outcome[r])

ModerationInv ==
    /\ ModerationTypes
    /\ \A r \in Requests : RequestHolds(r)
    /\ \A i \in DOMAIN records : Reviewed(records[i])

--------------------------------------------------------------------------------
\* The order of the states.
LEMMA RankType == \A s : Lifecycle!Rank(s) \in 0 .. 4
BY DEF Lifecycle!Rank

\* Every transition of newMachine leads from a state that is not final to a later one.
LEMMA TransitionsAdvance ==
    ASSUME NEW event, NEW from, NEW to \in Lifecycle!Targets(event, from)
    PROVE  /\ from \in Lifecycle!OrderStates \ Lifecycle!FinalStates
           /\ to \in Lifecycle!OrderStates
           /\ Lifecycle!Rank(from) < Lifecycle!Rank(to)
BY DEF Lifecycle!Targets, Lifecycle!Transitions, Lifecycle!OrderStates, Lifecycle!FinalStates,
       Lifecycle!Rank

\* The machine stays or advances.
Advances ==
    \/ machine' = machine
    \/ /\ machine \notin Lifecycle!FinalStates
       /\ machine' \in Lifecycle!OrderStates
       /\ Lifecycle!Rank(machine) < Lifecycle!Rank(machine')

LEMMA ReachesFurther ==
    ASSUME Advances, NEW s, Lifecycle!Reaches(s, machine)
    PROVE  Lifecycle!Reaches(s, machine')
BY RankType DEF Advances, Lifecycle!Reaches

LEMMA RankStaysBelow ==
    ASSUME Advances, NEW s, Lifecycle!Rank(s) < Lifecycle!Rank(machine)
    PROVE  Lifecycle!Rank(s) < Lifecycle!Rank(machine')
BY RankType DEF Advances

\* A request that does not take part in a step keeps what it knows.
LEMMA BystanderFollows ==
    ASSUME OrderInv, NEW q \in Requests, Advances,
           pc'[q] = pc[q], call'[q] = call[q], seen'[q] = seen[q], view'[q] = view[q],
           outcome'[q] = outcome[q]
    PROVE  MoveIsBehind(q)' /\ ViewFollows(q)'
<1>1. MoveIsBehind(q) /\ ViewFollows(q)
  BY DEF OrderInv
<1>2. MoveIsBehind(q)'
  BY <1>1, ReachesFurther, RankStaysBelow DEF MoveIsBehind, Moved
<1>3. ViewFollows(q)'
  BY <1>1, ReachesFurther DEF ViewFollows, Acted
<1> QED
  BY <1>2, <1>3

\* What every action of a request leaves alone.
OthersKeep(r) ==
    \A q \in Requests \ {r} :
        /\ pc'[q] = pc[q]
        /\ call'[q] = call[q]
        /\ seen'[q] = seen[q]
        /\ view'[q] = view[q]
        /\ outcome'[q] = outcome[q]

LEMMA OrderBegins == Lifecycle!Init => OrderInv
<1> SUFFICES ASSUME Lifecycle!Init PROVE OrderInv
  OBVIOUS
<1>1. OrderTypes
  BY DEF Lifecycle!Init, OrderTypes, States, Lifecycle!NoCall, Lifecycle!NoView,
         Lifecycle!NoOutcome, Lifecycle!Codes, Lifecycle!OrderStates
<1>2. \A r \in Requests : ~Moved(r) /\ MoveIsBehind(r) /\ ViewFollows(r)
  BY DEF Lifecycle!Init, Moved, MoveIsBehind, ViewFollows, Lifecycle!NoOutcome, Lifecycle!NoCall
<1> QED
  BY <1>1, <1>2 DEF OrderInv, MoversDiffer

\* Answer changes the code of one request.
LEMMA AnswerType ==
    ASSUME OrderTypes, NEW r \in Requests, NEW code \in Lifecycle!Codes, NEW label,
           Lifecycle!Answer(r, code, label)
    PROVE  /\ outcome' \in [Requests -> [code : Lifecycle!Codes, current : States]]
           /\ outcome'[r].code = code /\ outcome'[r].current = outcome[r].current
           /\ \A q \in Requests \ {r} : outcome'[q] = outcome[q]
BY DEF OrderTypes, Lifecycle!Answer

\* A step of one request: nobody moves from a state that another one moved from.
LEMMA OrderStepOf ==
    ASSUME OrderInv, NEW r \in Requests, OrderTypes', Advances, OthersKeep(r),
           MoveIsBehind(r)', ViewFollows(r)',
           Moved(r)' => \/ ~Moved(r) /\ seen'[r] = machine
                        \/ Moved(r) /\ seen'[r] = seen[r]
    PROVE  OrderInv'
<1>1. \A q \in Requests : MoveIsBehind(q)' /\ ViewFollows(q)'
  BY BystanderFollows DEF OthersKeep
<1>2. \A q \in Requests \ {r} : Moved(q)' => Moved(q) /\ seen'[q] = seen[q]
  BY DEF OthersKeep, Moved
<1>3. \A q \in Requests : Moved(q) => seen[q] # machine
  BY RankType DEF OrderInv, MoveIsBehind
<1>4. MoversDiffer'
  BY <1>2, <1>3 DEF MoversDiffer, OrderInv
<1> QED
  BY <1>1, <1>4 DEF OrderInv

LEMMA OrderStep ==
    ASSUME OrderInv, [Lifecycle!Next]_(Lifecycle!vars)
    PROVE  OrderInv'
<1>0. OrderTypes /\ (\A q \in Requests : MoveIsBehind(q) /\ ViewFollows(q))
  BY DEF OrderInv
<1>1. ASSUME NEW r \in Requests, NEW op \in {"transition", "can"},
             NEW event \in Lifecycle!OrderEvents \union {"other"}, Lifecycle!Start(r, op, event)
      PROVE  OrderInv'
  <2>1. pc[r] = "idle" /\ machine' = machine /\ seen' = seen /\ view' = view
    BY <1>1 DEF Lifecycle!Start
  <2>2. outcome[r] = Lifecycle!NoOutcome /\ view[r] = Lifecycle!NoView
    BY <1>0, <2>1 DEF ViewFollows
  <2>3. /\ outcome' \in [Requests -> [code : Lifecycle!Codes, current : States]]
        /\ outcome'[r].code \in {"none", "unknown_event"} /\ outcome'[r].current = "none"
        /\ \A q \in Requests \ {r} : outcome'[q] = outcome[q]
    <3>1. CASE event \in Lifecycle!OrderEvents
      BY <1>0, <1>1, <2>2, <3>1 DEF Lifecycle!Start, OrderTypes, Lifecycle!NoOutcome
    <3>2. CASE event \notin Lifecycle!OrderEvents
      <4>1. "unknown_event" \in Lifecycle!Codes
        BY DEF Lifecycle!Codes
      <4> QED
        BY <1>0, <1>1, <2>2, <3>2, <4>1, AnswerType DEF Lifecycle!Start, Lifecycle!NoOutcome
    <3> QED
      BY <3>1, <3>2
  <2>4. /\ pc' \in [Requests -> {"idle", "lookup", "commit", "state", "events", "done"}]
        /\ pc'[r] \in {"lookup", "done"} /\ (pc'[r] = "lookup" => outcome' = outcome)
        /\ \A q \in Requests \ {r} : pc'[q] = pc[q]
    BY <1>0, <1>1 DEF Lifecycle!Start, Lifecycle!Answer, Lifecycle!Goto, OrderTypes
  <2>5. /\ call' \in [Requests -> [op : {"none", "transition", "can"},
                                   event : Lifecycle!OrderEvents \union {"none", "other"}]]
        /\ \A q \in Requests \ {r} : call'[q] = call[q]
    BY <1>0, <1>1 DEF Lifecycle!Start, OrderTypes
  <2>6. OrderTypes'
    BY <1>0, <1>1, <2>3, <2>4, <2>5 DEF Lifecycle!Start, OrderTypes
  <2>7. ~Moved(r)' /\ MoveIsBehind(r)' /\ ViewFollows(r)'
    BY <2>1, <2>2, <2>3, <2>4 DEF Moved, MoveIsBehind, ViewFollows, Lifecycle!NoView
  <2> QED
    BY <2>1, <2>3, <2>4, <2>5, <2>6, <2>7, OrderStepOf DEF Advances, OthersKeep
<1>2. ASSUME NEW r \in Requests, Lifecycle!Expire(r) PROVE OrderInv'
  <2>1. UNCHANGED <<pc, call, seen, view, outcome, total, machine>>
    BY <1>2 DEF Lifecycle!Expire
  <2>2. expired' \in [Requests -> BOOLEAN]
    BY <1>0, <1>2, Zenon DEF Lifecycle!Expire, OrderTypes
  <2>3. OrderTypes'
    BY <1>0, <2>1, <2>2 DEF OrderTypes
  <2> QED
    BY <2>1, <2>3, BystanderFollows DEF OrderInv, Advances, MoversDiffer, Moved
<1>3. ASSUME NEW r \in Requests, Lifecycle!Lookup(r) PROVE OrderInv'
  <2>1. /\ pc[r] = "lookup" /\ machine' = machine /\ call' = call /\ view' = view
        /\ seen' = [seen EXCEPT ![r] = machine]
    BY <1>3 DEF Lifecycle!Lookup
  <2>2. outcome[r] = Lifecycle!NoOutcome /\ view[r] = Lifecycle!NoView
    BY <1>0, <2>1 DEF ViewFollows
  <2>3. \/ Lifecycle!Goto(r, "commit") /\ outcome' = outcome
        \/ \E code \in {"request_timeout", "final_state", "invalid_transition", "guard_rejected"} :
              Lifecycle!Answer(r, code, "done")
        \/ /\ call[r].op = "can"
           /\ \E code \in {"ok", "unavailable"} : Lifecycle!Answer(r, code, "state")
    BY <1>3 DEF Lifecycle!Lookup
  <2>4. /\ outcome' \in [Requests -> [code : Lifecycle!Codes, current : States]]
        /\ outcome'[r].current = "none"
        /\ outcome'[r].code = "ok" => call[r].op = "can"
        /\ \A q \in Requests \ {r} : outcome'[q] = outcome[q]
    <3>1. CASE Lifecycle!Goto(r, "commit") /\ outcome' = outcome
      BY <1>0, <2>2, <3>1 DEF OrderTypes, Lifecycle!NoOutcome
    <3>2. CASE ~(Lifecycle!Goto(r, "commit") /\ outcome' = outcome)
      <4>1. \E code \in Lifecycle!Codes, label \in {"state", "done"} :
               Lifecycle!Answer(r, code, label) /\ (code = "ok" => call[r].op = "can")
        BY <2>3, <3>2 DEF Lifecycle!Codes
      <4>2. PICK code \in Lifecycle!Codes, label \in {"state", "done"} :
               Lifecycle!Answer(r, code, label) /\ (code = "ok" => call[r].op = "can")
        BY <4>1
      <4> QED
        BY <1>0, <2>2, <4>2, AnswerType DEF Lifecycle!NoOutcome
    <3> QED
      BY <3>1, <3>2
  <2>5. /\ pc' \in [Requests -> {"idle", "lookup", "commit", "state", "events", "done"}]
        /\ pc'[r] \in {"commit", "state", "done"} /\ (pc'[r] = "commit" => outcome' = outcome)
        /\ \A q \in Requests \ {r} : pc'[q] = pc[q]
    BY <1>0, <2>3 DEF Lifecycle!Answer, Lifecycle!Goto, OrderTypes
  <2>6. /\ seen' \in [Requests -> States] /\ seen'[r] = machine
        /\ \A q \in Requests \ {r} : seen'[q] = seen[q]
    BY <1>0, <2>1 DEF OrderTypes, States
  <2>7. OrderTypes'
    BY <1>0, <1>3, <2>1, <2>4, <2>5, <2>6 DEF Lifecycle!Lookup, OrderTypes
  <2>8. ~Moved(r)' /\ MoveIsBehind(r)' /\ ViewFollows(r)'
    BY <1>0, <2>1, <2>2, <2>4, <2>5, <2>6
    DEF Moved, MoveIsBehind, ViewFollows, Acted, Lifecycle!NoView, Lifecycle!Reaches, OrderTypes
  <2> QED
    BY <2>1, <2>4, <2>5, <2>6, <2>7, <2>8, OrderStepOf DEF Advances, OthersKeep
<1>4. ASSUME NEW r \in Requests, Lifecycle!Commit(r) PROVE OrderInv'
  <2>1. /\ pc[r] = "commit" /\ call' = call /\ seen' = seen /\ view' = view
        /\ expired' = expired /\ total' = total
    BY <1>4 DEF Lifecycle!Commit
  <2>2. outcome[r] = Lifecycle!NoOutcome /\ view[r] = Lifecycle!NoView
    BY <1>0, <2>1 DEF ViewFollows
  <2>3. CASE machine = seen[r]
    <3>1. PICK to \in Lifecycle!Targets(call[r].event, seen[r]) :
             /\ machine' = to
             /\ outcome' = [outcome EXCEPT ![r] = [code |-> "ok", current |-> to]]
             /\ Lifecycle!Goto(r, "state")
      BY <1>4, <2>3 DEF Lifecycle!Commit
    <3>2. /\ machine \notin Lifecycle!FinalStates /\ to \in Lifecycle!OrderStates
          /\ Lifecycle!Rank(machine) < Lifecycle!Rank(to)
      BY <2>3, TransitionsAdvance
    <3>3. OrderTypes'
      BY <1>0, <2>1, <3>1, <3>2 DEF OrderTypes, Lifecycle!Goto, Lifecycle!Codes, States
    <3>4. /\ outcome'[r] = [code |-> "ok", current |-> to] /\ pc'[r] = "state"
          /\ \A q \in Requests \ {r} : outcome'[q] = outcome[q] /\ pc'[q] = pc[q]
      BY <1>0, <3>1 DEF OrderTypes, Lifecycle!Goto
    <3>5. MoveIsBehind(r)' /\ ViewFollows(r)'
      BY <1>0, <2>1, <2>2, <2>3, <3>1, <3>2, <3>4
      DEF MoveIsBehind, ViewFollows, Acted, Lifecycle!Reaches, OrderTypes, Lifecycle!OrderStates
    <3>6. ~Moved(r) /\ seen'[r] = machine
      BY <2>1, <2>2, <2>3 DEF Moved, Lifecycle!NoOutcome
    <3> QED
      BY <2>1, <3>1, <3>2, <3>3, <3>4, <3>5, <3>6, OrderStepOf DEF Advances, OthersKeep
  <2>4. CASE machine # seen[r]
    <3>1. machine' = machine /\ Lifecycle!Answer(r, "concurrent_transition", "done")
      BY <1>4, <2>4 DEF Lifecycle!Commit
    <3>2. /\ outcome' \in [Requests -> [code : Lifecycle!Codes, current : States]]
          /\ outcome'[r].code = "concurrent_transition" /\ outcome'[r].current = "none"
          /\ \A q \in Requests \ {r} : outcome'[q] = outcome[q]
      <4>1. "concurrent_transition" \in Lifecycle!Codes
        BY DEF Lifecycle!Codes
      <4> QED
        BY <1>0, <2>2, <3>1, <4>1, AnswerType DEF Lifecycle!NoOutcome
    <3>3. /\ pc' \in [Requests -> {"idle", "lookup", "commit", "state", "events", "done"}]
          /\ pc'[r] = "done" /\ \A q \in Requests \ {r} : pc'[q] = pc[q]
      BY <1>0, <3>1 DEF Lifecycle!Answer, Lifecycle!Goto, OrderTypes
    <3>4. OrderTypes'
      BY <1>0, <2>1, <3>1, <3>2, <3>3 DEF OrderTypes
    <3>5. ~Moved(r)' /\ MoveIsBehind(r)' /\ ViewFollows(r)'
      BY <2>1, <2>2, <3>2, <3>3 DEF Moved, MoveIsBehind, ViewFollows, Lifecycle!NoView
    <3> QED
      BY <2>1, <3>1, <3>2, <3>3, <3>4, <3>5, OrderStepOf DEF Advances, OthersKeep
  <2> QED
    BY <2>3, <2>4
<1>5. ASSUME NEW r \in Requests, Lifecycle!SnapshotState(r) PROVE OrderInv'
  <2>1. /\ pc[r] = "state" /\ UNCHANGED <<call, expired, seen, outcome, total, machine>>
        /\ view' = [view EXCEPT ![r].state = machine] /\ pc' = [pc EXCEPT ![r] = "events"]
    BY <1>5 DEF Lifecycle!SnapshotState, Lifecycle!Goto
  <2>2. /\ view' \in [Requests -> [state : States, events : States]]
        /\ view'[r].state = machine /\ pc'[r] = "events"
        /\ \A q \in Requests \ {r} : view'[q] = view[q] /\ pc'[q] = pc[q]
    BY <1>0, <2>1, SMTT(30) DEF OrderTypes, States
  <2>3. OrderTypes'
    BY <1>0, <2>1, <2>2 DEF OrderTypes
  <2>4. MoveIsBehind(r)' /\ ViewFollows(r)'
    BY <1>0, <2>1, <2>2
    DEF Moved, MoveIsBehind, ViewFollows, Acted, Lifecycle!Reaches, OrderTypes
  <2> QED
    BY <2>1, <2>2, <2>3, <2>4, OrderStepOf DEF Advances, OthersKeep, Moved
<1>6. ASSUME NEW r \in Requests, Lifecycle!SnapshotEvents(r) PROVE OrderInv'
  <2>1. /\ pc[r] = "events" /\ UNCHANGED <<call, expired, seen, outcome, total, machine>>
        /\ view' = [view EXCEPT ![r].events = machine] /\ pc' = [pc EXCEPT ![r] = "done"]
    BY <1>6 DEF Lifecycle!SnapshotEvents, Lifecycle!Goto
  <2>2. /\ view' \in [Requests -> [state : States, events : States]]
        /\ view'[r].state = view[r].state /\ view'[r].events = machine /\ pc'[r] = "done"
        /\ \A q \in Requests \ {r} : view'[q] = view[q] /\ pc'[q] = pc[q]
    <3>1. machine \in States /\ view[r] \in [state : States, events : States]
      BY <1>0 DEF OrderTypes, States
    <3>2. /\ [view[r] EXCEPT !.events = machine] \in [state : States, events : States]
          /\ [view[r] EXCEPT !.events = machine].state = view[r].state
          /\ [view[r] EXCEPT !.events = machine].events = machine
      BY <3>1
    <3>3. view' = [view EXCEPT ![r] = [view[r] EXCEPT !.events = machine]]
      BY <2>1
    <3> QED
      BY <1>0, <2>1, <3>2, <3>3 DEF OrderTypes
  <2>3. OrderTypes'
    BY <1>0, <2>1, <2>2 DEF OrderTypes
  <2>4. MoveIsBehind(r)' /\ ViewFollows(r)'
    <3>1. MoveIsBehind(r)'
      BY <1>0, <2>1 DEF Moved, MoveIsBehind
    <3>2. /\ view[r].state \in Lifecycle!OrderStates
          /\ Lifecycle!Reaches(Acted(r), view[r].state)
          /\ Lifecycle!Reaches(view[r].state, machine)
      BY <1>0, <2>1 DEF ViewFollows
    <3>3. Acted(r)' = Acted(r)
      BY <2>1 DEF Acted
    <3>4. machine \in Lifecycle!OrderStates /\ Lifecycle!Reaches(machine, machine)
      BY <1>0 DEF OrderTypes, Lifecycle!Reaches
    <3>5. ViewFollows(r)'
      BY <2>1, <2>2, <3>2, <3>3, <3>4 DEF ViewFollows
    <3> QED
      BY <3>1, <3>5
  <2> QED
    BY <2>1, <2>2, <2>3, <2>4, OrderStepOf DEF Advances, OthersKeep, Moved
<1>7. ASSUME NEW r \in Requests, Lifecycle!Again(r) PROVE OrderInv'
  <2>1. /\ machine' = machine /\ total' = total
        /\ pc' = [pc EXCEPT ![r] = "idle"] /\ call' = [call EXCEPT ![r] = Lifecycle!NoCall]
        /\ seen' = [seen EXCEPT ![r] = "none"] /\ view' = [view EXCEPT ![r] = Lifecycle!NoView]
        /\ outcome' = [outcome EXCEPT ![r] = Lifecycle!NoOutcome]
    BY <1>7 DEF Lifecycle!Again, Lifecycle!Goto
  <2>2. expired' \in [Requests -> BOOLEAN]
    BY <1>0, <1>7, Zenon DEF Lifecycle!Again, OrderTypes
  <2>3. OrderTypes'
    BY <1>0, <2>1, <2>2
    DEF OrderTypes, States, Lifecycle!NoCall, Lifecycle!NoView, Lifecycle!NoOutcome, Lifecycle!Codes
  <2>4. ~Moved(r)' /\ MoveIsBehind(r)' /\ ViewFollows(r)' /\ OthersKeep(r)
    BY <1>0, <2>1
    DEF Moved, MoveIsBehind, ViewFollows, OrderTypes, OthersKeep, Lifecycle!NoCall,
        Lifecycle!NoOutcome
  <2> QED
    BY <2>1, <2>3, <2>4, OrderStepOf DEF Advances
<1>8. CASE UNCHANGED Lifecycle!vars
  <2>1. UNCHANGED <<pc, call, expired, seen, view, outcome, total, machine>>
    BY <1>8 DEF Lifecycle!vars, Lifecycle!requestVars
  <2> QED
    BY <2>1
    DEF OrderInv, OrderTypes, MoversDiffer, MoveIsBehind, ViewFollows, Moved, Acted
<1> QED
  BY <1>1, <1>2, <1>3, <1>4, <1>5, <1>6, <1>7, <1>8 DEF Lifecycle!Next

LEMMA OrderTyped == OrderInv => Lifecycle!TypeOK
<1> SUFFICES ASSUME OrderInv PROVE Lifecycle!TypeOK
  OBVIOUS
<1>1. OrderTypes
  BY DEF OrderInv
<1>2. ASSUME NEW r \in Requests
      PROVE  /\ view[r].state \in States /\ view[r].events \in States
             /\ outcome[r].code \in Lifecycle!Codes /\ outcome[r].current \in States
  <2>1. view[r] \in [state : States, events : States]
    BY <1>1 DEF OrderTypes
  <2>2. outcome[r] \in [code : Lifecycle!Codes, current : States]
    BY <1>1 DEF OrderTypes
  <2> QED
    BY <2>1, <2>2
<1> QED
  BY <1>1, <1>2, Zenon DEF OrderTypes, States, Lifecycle!TypeOK

\* What OrderInv says of the answers.
LEMMA OrderReports == OrderInv => Lifecycle!MovesAreExclusive /\ Lifecycle!SnapshotsFollow
<1>1. OrderInv => Lifecycle!MovesAreExclusive
  BY DEF OrderInv, MoversDiffer, MoveIsBehind, Moved, Lifecycle!MovesAreExclusive
<1>2. OrderInv => Lifecycle!SnapshotsFollow
  BY DEF OrderInv, ViewFollows, Acted, Lifecycle!SnapshotsFollow
<1> QED
  BY <1>1, <1>2

\* Of concurrent requests that say they moved the order, no two moved it from the same
\* state, and the order is never behind a reported move (machine.Transition).
THEOREM OrderMovesAreExclusive == Lifecycle!Spec => []Lifecycle!MovesAreExclusive
BY OrderBegins, OrderStep, OrderReports, PTL DEF Lifecycle!Spec

\* The snapshot of a response shows a state at or behind the one the request acted on,
\* although it reads the machine twice more beside other requests (snapshot).
THEOREM OrderSnapshotsFollow == Lifecycle!Spec => []Lifecycle!SnapshotsFollow
BY OrderBegins, OrderStep, OrderReports, PTL DEF Lifecycle!Spec

--------------------------------------------------------------------------------
\* Every transition of newMachine starts in a state that is not final.
LEMMA PaymentsAdvance ==
    ASSUME NEW event, NEW to \in Payment!Targets(event)
    PROVE  /\ machine \in {"requested", "authorized"}
           /\ to \in Payment!PaymentStates \ {"requested"}
           /\ machine = "authorized" => to \in Payment!FinalStates
           /\ <<event, machine, to>> \in Payment!Transitions
BY DEF Payment!Targets, Payment!Transitions, Payment!PaymentStates, Payment!FinalStates

\* Where a stored move can have started.
LEMMA MovesStart ==
    ASSUME NEW e, <<e.event, e.previous, e.current>> \in Payment!Transitions
    PROVE  e.previous \in {"requested", "authorized"}
BY DEF Payment!Transitions

LEMMA NoEntryType == Payment!NoEntry \in Payment!Entries
BY DEF Payment!Entries

\* An outcome with its parts in the right sets.
LEMMA OutcomeType ==
    ASSUME NEW code \in Payment!Codes, NEW entry \in Payment!Entries \union Payment!Snapshots,
           NEW replay \in BOOLEAN
    PROVE  [code |-> code, entry |-> entry, replay |-> replay]
              \in [code : Payment!Codes, entry : Payment!Entries \union Payment!Snapshots,
                   replay : BOOLEAN]
OBVIOUS

LEMMA PaymentBegins == Payment!Init => PaymentInv
<1> SUFFICES ASSUME Payment!Init PROVE PaymentInv
  OBVIOUS
<1>1. Payment!NoOutcome \in [code : Payment!Codes, entry : Payment!Entries \union Payment!Snapshots,
                              replay : BOOLEAN]
  BY NoEntryType, OutcomeType DEF Payment!NoOutcome, Payment!Codes
<1>2. entries \in [Keys -> Payment!Entries] /\ known \in [Requests -> [Keys -> Payment!Entries]]
  BY NoEntryType DEF Payment!Init
<1>3. expired \in [Requests -> BOOLEAN]
  BY Zenon DEF Payment!Init
<1>4. PaymentTypes
  BY <1>1, <1>2, <1>3 DEF Payment!Init, PaymentTypes, Payment!TypeOK, Payment!PaymentStates
<1>5. \A k \in Keys : entries[k] = Payment!NoEntry
  BY DEF Payment!Init
<1>6. \A r \in Requests : pc[r] = "idle" /\ known[r] = entries
  BY DEF Payment!Init
<1>7. machine = "requested"
  BY DEF Payment!Init
<1> QED
  BY <1>4, <1>5, <1>6, <1>7
  DEF PaymentInv, KnownStays, MovesAreOver, Payment!RetriesAreReplayed, Payment!EntriesAreMoves

\* A request that does not take part in a step, and the stored answers that it leaves.
PaymentOthersKeep(r) ==
    \A q \in Requests \ {r} :
        /\ pc'[q] = pc[q]
        /\ call'[q] = call[q]
        /\ outcome'[q] = outcome[q]
        /\ known'[q] = known[q]

\* Body of RetriesAreReplayed.
Replayed(r) ==
    pc[r] = "done" /\ call[r].op = "transition" /\ call[r].event \in Payment!PaymentEvents =>
        LET before == known[r][call[r].key]
        IN  before # Payment!NoEntry =>
                IF before.event = call[r].event
                THEN outcome[r] = [code |-> "ok", entry |-> before, replay |-> TRUE]
                ELSE outcome[r].code = "idempotency_conflict"

LEMMA RetriesAre == Payment!RetriesAreReplayed <=> \A r \in Requests : Replayed(r)
BY DEF Payment!RetriesAreReplayed, Replayed

LEMMA PaymentBystander ==
    ASSUME PaymentInv, NEW r \in Requests, PaymentOthersKeep(r), Replayed(r)'
    PROVE  Payment!RetriesAreReplayed'
<1>1. \A q \in Requests : Replayed(q)
  BY RetriesAre DEF PaymentInv
<1>2. \A q \in Requests \ {r} : Replayed(q)'
  BY <1>1 DEF PaymentOthersKeep, Replayed
<1>3. \A q \in Requests : Replayed(q)'
  BY <1>2
<1> QED
  BY <1>3 DEF Payment!RetriesAreReplayed, Replayed

\* Steps that do not touch the stored answers and the machine.
LEMMA PaymentQuiet ==
    ASSUME PaymentInv, NEW r \in Requests, PaymentTypes', PaymentOthersKeep(r), Replayed(r)',
           entries' = entries, machine' = machine,
           \A k \in Keys : known'[r][k] \in {known[r][k], entries[k], Payment!NoEntry}
    PROVE  PaymentInv'
<1>1. KnownStays'
  <2> SUFFICES ASSUME NEW q \in Requests, NEW k \in Keys, known'[q][k] # Payment!NoEntry
               PROVE  entries'[k] = known'[q][k]
    BY DEF KnownStays
  <2>1. CASE q = r
    BY <2>1 DEF PaymentInv, KnownStays
  <2>2. CASE q # r
    BY <2>2 DEF PaymentInv, KnownStays, PaymentOthersKeep
  <2> QED
    BY <2>1, <2>2
<1>2. MovesAreOver'
  BY DEF PaymentInv, MovesAreOver
<1>3. Payment!EntriesAreMoves'
  BY DEF PaymentInv, Payment!EntriesAreMoves
<1> QED
  BY <1>1, <1>2, <1>3, PaymentBystander DEF PaymentInv

PaymentPlaces == {"idle", "locked", "can", "snapshot", "done"}

\* What a step of one request does to the request's own variables keeps the types.
LEMMA PaymentTypesOf ==
    ASSUME PaymentTypes, NEW r \in Requests, NEW label \in PaymentPlaces, NEW answer,
           pc' = [pc EXCEPT ![r] = label],
           outcome' = [outcome EXCEPT ![r] = answer],
           answer \in [code : Payment!Codes, entry : Payment!Entries \union Payment!Snapshots,
                       replay : BOOLEAN],
           DOMAIN call' = Requests, \A q \in Requests \ {r} : call'[q] = call[q],
           label = "locked" => call'[r].event \in Payment!PaymentEvents /\ call'[r].key \in Keys,
           label \in {"can", "snapshot"} => call'[r].op = "can",
           expired' \in [Requests -> BOOLEAN],
           seen' \in [Requests -> Payment!PaymentStates \union {"none"}],
           known' \in [Requests -> [Keys -> Payment!Entries]],
           entries' \in [Keys -> Payment!Entries],
           amount' = amount, machine' \in Payment!PaymentStates
    PROVE  PaymentTypes'
<1>1. outcome' \in [Requests -> [code : Payment!Codes, entry : Payment!Entries \union Payment!Snapshots,
                                 replay : BOOLEAN]]
  BY DEF PaymentTypes
<1>2. \A q \in Requests :
         outcome'[q] \in [code : Payment!Codes, entry : Payment!Entries \union Payment!Snapshots,
                          replay : BOOLEAN]
  BY <1>1
<1>3. /\ pc' \in [Requests -> PaymentPlaces] /\ pc'[r] = label
      /\ \A q \in Requests \ {r} : pc'[q] = pc[q]
  BY DEF PaymentTypes, Payment!TypeOK, PaymentPlaces
<1>4. amount' \in BOOLEAN
  BY DEF PaymentTypes, Payment!TypeOK
<1>5. \A q \in Requests :
         /\ pc'[q] = "locked" => call'[q].event \in Payment!PaymentEvents /\ call'[q].key \in Keys
         /\ pc'[q] \in {"can", "snapshot"} => call'[q].op = "can"
  BY <1>3 DEF PaymentTypes
<1> QED
  BY <1>1, <1>2, <1>3, <1>4, <1>5 DEF PaymentTypes, Payment!TypeOK, PaymentPlaces

LEMMA PaymentOthers ==
    ASSUME PaymentTypes, NEW r \in Requests, NEW label, NEW answer, NEW entry,
           pc' = [pc EXCEPT ![r] = label], outcome' = [outcome EXCEPT ![r] = answer],
           \A q \in Requests \ {r} : call'[q] = call[q],
           known' = [known EXCEPT ![r] = entry]
    PROVE  PaymentOthersKeep(r) /\ pc'[r] = label /\ outcome'[r] = answer /\ known'[r] = entry
BY DEF PaymentTypes, Payment!TypeOK, PaymentOthersKeep

LEMMA ObjectionType ==
    ASSUME NEW r, NEW event
    PROVE  Payment!Objection(r, event) \in Payment!Codes
BY DEF Payment!Objection, Payment!Codes

LEMMA PaymentStart ==
    ASSUME PaymentInv, NEW r \in Requests, NEW op \in {"transition", "can"}, NEW event, NEW key,
           op = "transition" => key \in Keys, Payment!Start(r, op, event, key)
    PROVE  PaymentInv'
<1>0. PaymentTypes
  BY DEF PaymentInv
<1>1. /\ UNCHANGED <<expired, seen, entries, amount, machine>>
      /\ call' = [call EXCEPT ![r] = [op |-> op, event |-> event, key |-> key]]
      /\ known' = [known EXCEPT ![r] = entries]
  BY DEF Payment!Start
<1>2. PICK label \in {"locked", "can", "done"},
           answer \in [code : Payment!Codes, entry : Payment!Entries \union Payment!Snapshots,
                       replay : BOOLEAN] :
         /\ pc' = [pc EXCEPT ![r] = label]
         /\ outcome' = [outcome EXCEPT ![r] = answer]
         /\ label = "locked" => event \in Payment!PaymentEvents /\ op # "can"
         /\ label = "can" => op = "can"
         /\ label = "done" => event \notin Payment!PaymentEvents
  <2>1. CASE event \in Payment!PaymentEvents
    <3>1. outcome' = [outcome EXCEPT ![r] = outcome[r]]
      BY <1>0, <2>1 DEF Payment!Start, PaymentTypes
    <3>2. outcome[r] \in [code : Payment!Codes, entry : Payment!Entries \union Payment!Snapshots,
                          replay : BOOLEAN]
      BY <1>0 DEF PaymentTypes, Payment!TypeOK
    <3>3. pc' = [pc EXCEPT ![r] = IF op = "can" THEN "can" ELSE "locked"]
      BY <2>1 DEF Payment!Start, Payment!Goto
    <3> QED
      BY <2>1, <3>1, <3>2, <3>3
  <2>2. CASE event \notin Payment!PaymentEvents
    <3> DEFINE code == IF op = "can" THEN "unknown_event" ELSE "invalid_request"
               answer == [code |-> code, entry |-> Payment!NoEntry, replay |-> FALSE]
    <3>1. code \in Payment!Codes
      BY DEF Payment!Codes
    <3>2. answer \in [code : Payment!Codes, entry : Payment!Entries \union Payment!Snapshots,
                      replay : BOOLEAN]
      BY <3>1, NoEntryType, OutcomeType
    <3>3. outcome' = [outcome EXCEPT ![r] = answer] /\ pc' = [pc EXCEPT ![r] = "done"]
      BY <2>2 DEF Payment!Start, Payment!Goto, Payment!Answer
    <3> HIDE DEF answer
    <3> QED
      BY <2>2, <3>2, <3>3
  <2> QED
    BY <2>1, <2>2
<1>3. /\ DOMAIN call' = Requests /\ call'[r] = [op |-> op, event |-> event, key |-> key]
      /\ \A q \in Requests \ {r} : call'[q] = call[q]
  BY <1>0, <1>1 DEF PaymentTypes
<1>4. known' \in [Requests -> [Keys -> Payment!Entries]]
  BY <1>0, <1>1 DEF PaymentTypes, Payment!TypeOK
<1>5. PaymentTypes'
  BY <1>0, <1>1, <1>2, <1>3, <1>4, PaymentTypesOf DEF PaymentTypes, Payment!TypeOK, PaymentPlaces
<1>6. PaymentOthersKeep(r) /\ pc'[r] = label /\ known'[r] = entries
  <2>1. pc' = [pc EXCEPT ![r] = label] /\ outcome' = [outcome EXCEPT ![r] = answer]
    BY <1>2
  <2> QED
    BY <1>0, <1>1, <1>3, <2>1 DEF PaymentTypes, Payment!TypeOK, PaymentOthersKeep
<1>7. Replayed(r)'
  BY <1>2, <1>3, <1>6 DEF Replayed
<1> QED
  BY <1>1, <1>5, <1>6, <1>7, PaymentQuiet

LEMMA PaymentExpire ==
    ASSUME PaymentInv, NEW r \in Requests, Payment!Expire(r)
    PROVE  PaymentInv'
<1>1. UNCHANGED <<pc, call, seen, outcome, known, entries, amount, machine>>
  BY DEF Payment!Expire
<1>2. expired' \in [Requests -> BOOLEAN]
  BY Zenon DEF Payment!Expire, PaymentInv, PaymentTypes, Payment!TypeOK
<1>3. PaymentTypes'
  BY <1>1, <1>2 DEF PaymentInv, PaymentTypes, Payment!TypeOK
<1> QED
  BY <1>1, <1>3 DEF PaymentInv, KnownStays, MovesAreOver, Payment!RetriesAreReplayed,
                    Payment!EntriesAreMoves

\* The critical section of transitionWithIdempotency.
LEMMA PaymentTransition ==
    ASSUME PaymentInv, NEW r \in Requests, Payment!TransitionWithIdempotency(r)
    PROVE  PaymentInv'
<1>0. PaymentTypes
  BY DEF PaymentInv
<1> DEFINE key == call[r].key
           event == call[r].event
<1>1. /\ pc[r] = "locked" /\ pc' = [pc EXCEPT ![r] = "done"]
      /\ UNCHANGED <<call, expired, seen, known, amount>>
  BY DEF Payment!TransitionWithIdempotency, Payment!Goto
<1>2. key \in Keys /\ event \in Payment!PaymentEvents /\ entries[key] \in Payment!Entries
  BY <1>0, <1>1 DEF PaymentTypes, Payment!TypeOK
<1>3. known' = [known EXCEPT ![r] = known[r]]
  BY <1>0, <1>1 DEF PaymentTypes, Payment!TypeOK
<1>4. ASSUME NEW code \in Payment!Codes, NEW entry \in Payment!Entries, NEW replay \in BOOLEAN,
             Payment!Answer(r, code, entry, replay),
             entries' \in [Keys -> Payment!Entries], machine' \in Payment!PaymentStates
      PROVE  /\ PaymentTypes' /\ PaymentOthersKeep(r) /\ pc'[r] = "done"
             /\ outcome'[r] = [code |-> code, entry |-> entry, replay |-> replay]
  <2> DEFINE answer == [code |-> code, entry |-> entry, replay |-> replay]
  <2>1. answer \in [code : Payment!Codes, entry : Payment!Entries \union Payment!Snapshots,
                    replay : BOOLEAN]
    BY OutcomeType
  <2>2. outcome' = [outcome EXCEPT ![r] = answer]
    BY <1>4 DEF Payment!Answer
  <2> HIDE DEF answer
  <2>3. PaymentTypes'
    BY <1>0, <1>1, <1>2, <1>4, <2>1, <2>2, PaymentTypesOf
    DEF PaymentTypes, Payment!TypeOK, PaymentPlaces
  <2>4. PaymentOthersKeep(r) /\ pc'[r] = "done" /\ outcome'[r] = answer
    BY <1>0, <1>1, <1>3, <2>2, PaymentOthers
  <2> QED
    BY <2>3, <2>4 DEF answer
<1>5. CASE entries[key] # Payment!NoEntry /\ Payment!Replay(r, entries[key])
  <2>1. entries' = entries /\ machine' = machine
    BY <1>5 DEF Payment!Replay, Payment!Refuse
  <2>2. entries' \in [Keys -> Payment!Entries] /\ machine' \in Payment!PaymentStates
    BY <1>0, <2>1 DEF PaymentTypes, Payment!TypeOK
  <2>3. known[r][key] # Payment!NoEntry => known[r][key] = entries[key]
    BY <1>2 DEF PaymentInv, KnownStays
  <2>4. CASE entries[key].event = event
    <3>1. Payment!Answer(r, "ok", entries[key], TRUE)
      BY <1>5, <2>4 DEF Payment!Replay
    <3>2. "ok" \in Payment!Codes /\ TRUE \in BOOLEAN
      BY DEF Payment!Codes
    <3>3. /\ PaymentTypes' /\ PaymentOthersKeep(r) /\ pc'[r] = "done"
          /\ outcome'[r] = [code |-> "ok", entry |-> entries[key], replay |-> TRUE]
      BY <1>2, <1>4, <2>2, <3>1, <3>2
    <3>4. Replayed(r)'
      BY <1>1, <2>3, <2>4, <3>3, Zenon DEF Replayed
    <3> QED
      BY <1>1, <2>1, <3>3, <3>4, PaymentQuiet
  <2>5. CASE entries[key].event # event
    <3>1. Payment!Answer(r, "idempotency_conflict", Payment!NoEntry, FALSE)
      BY <1>5, <2>5 DEF Payment!Replay, Payment!Refuse
    <3>2. "idempotency_conflict" \in Payment!Codes /\ FALSE \in BOOLEAN
      BY DEF Payment!Codes
    <3>3. /\ PaymentTypes' /\ PaymentOthersKeep(r) /\ pc'[r] = "done"
          /\ outcome'[r] = [code |-> "idempotency_conflict", entry |-> Payment!NoEntry,
                            replay |-> FALSE]
      BY <1>4, <2>2, <3>1, <3>2, NoEntryType
    <3>4. outcome'[r].code = "idempotency_conflict"
      BY <3>3
    <3>5. Replayed(r)'
      BY <1>1, <2>3, <2>5, <3>4, Zenon DEF Replayed
    <3> QED
      BY <1>1, <2>1, <3>3, <3>5, PaymentQuiet
  <2> QED
    BY <2>4, <2>5
<1>6. known[r][key] # Payment!NoEntry => entries[key] # Payment!NoEntry
  BY <1>2 DEF PaymentInv, KnownStays
<1>7. CASE entries[key] = Payment!NoEntry /\ Payment!Refuse(r, Payment!Objection(r, event))
  <2>1. /\ entries' = entries /\ machine' = machine
        /\ Payment!Answer(r, Payment!Objection(r, event), Payment!NoEntry, FALSE)
    BY <1>7 DEF Payment!Refuse
  <2>2. PaymentTypes' /\ PaymentOthersKeep(r)
    BY <1>0, <1>4, <2>1, ObjectionType, NoEntryType DEF PaymentTypes, Payment!TypeOK
  <2>3. Replayed(r)'
    BY <1>1, <1>6, <1>7, Zenon DEF Replayed
  <2> QED
    BY <1>1, <2>1, <2>2, <2>3, PaymentQuiet
<1>8. CASE entries[key] = Payment!NoEntry /\ Payment!Move(r)
  <2>1. PICK to \in Payment!Targets(event) :
           /\ Payment!Answer(r, "ok", [event |-> event, previous |-> machine, current |-> to], FALSE)
           /\ machine' = to
           /\ entries' = [entries EXCEPT ![key] =
                            [event |-> event, previous |-> machine, current |-> to]]
    BY <1>8 DEF Payment!Move
  <2>2. PICK old : old = machine
    OBVIOUS
  <2> DEFINE entry == [event |-> event, previous |-> old, current |-> to]
  <2>3. /\ old \in {"requested", "authorized"} /\ to \in Payment!PaymentStates \ {"requested"}
        /\ old = "authorized" => to \in Payment!FinalStates
        /\ <<event, old, to>> \in Payment!Transitions
    BY <2>1, <2>2, PaymentsAdvance
  <2>4. entry \in Payment!Entries /\ entry # Payment!NoEntry
    BY <1>2, <2>3 DEF Payment!Entries, Payment!PaymentStates, Payment!NoEntry
  <2>5. entries' = [entries EXCEPT ![key] = entry] /\ Payment!Answer(r, "ok", entry, FALSE)
    BY <2>1, <2>2
  <2>6. entry.event = event /\ entry.previous = old /\ entry.current = to
    OBVIOUS
  <2> HIDE DEF entry
  <2>7. /\ entries' \in [Keys -> Payment!Entries] /\ entries'[key] = entry
        /\ \A k \in Keys \ {key} : entries'[k] = entries[k]
    BY <1>0, <1>2, <2>4, <2>5 DEF PaymentTypes, Payment!TypeOK
  <2>8. PaymentTypes' /\ PaymentOthersKeep(r)
    BY <1>4, <2>1, <2>3, <2>4, <2>5, <2>7 DEF Payment!Codes
  <2>9. Replayed(r)'
    BY <1>1, <1>6, <1>8, Zenon DEF Replayed
  <2>10. KnownStays'
    <3> SUFFICES ASSUME NEW q \in Requests, NEW k \in Keys, known[q][k] # Payment!NoEntry
                 PROVE  entries'[k] = known[q][k]
      BY <1>1 DEF KnownStays
    <3>1. entries[k] = known[q][k]
      BY DEF PaymentInv, KnownStays
    <3> QED
      BY <1>8, <2>7, <3>1
  <2>11. MovesAreOver'
    <3> SUFFICES ASSUME NEW k \in Keys, entries'[k] # Payment!NoEntry
                 PROVE  /\ entries'[k].previous = "requested" => machine' # "requested"
                        /\ entries'[k].previous = "authorized" => machine' \in Payment!FinalStates
      BY DEF MovesAreOver
    <3>1. CASE k = key
      BY <2>1, <2>3, <2>6, <2>7, <3>1
    <3>2. CASE k # key
      BY <2>1, <2>2, <2>3, <2>7, <3>2 DEF PaymentInv, MovesAreOver, Payment!FinalStates
    <3> QED
      BY <3>1, <3>2
  <2>12. Payment!EntriesAreMoves'
    <3>1. \A k \in Keys : entries[k] # Payment!NoEntry =>
             /\ <<entries[k].event, entries[k].previous, entries[k].current>> \in Payment!Transitions
             /\ entries[k].previous # old
      <4> SUFFICES ASSUME NEW k \in Keys, entries[k] # Payment!NoEntry
                   PROVE  /\ <<entries[k].event, entries[k].previous, entries[k].current>>
                                \in Payment!Transitions
                          /\ entries[k].previous # old
        OBVIOUS
      <4>1. <<entries[k].event, entries[k].previous, entries[k].current>> \in Payment!Transitions
        BY DEF PaymentInv, Payment!EntriesAreMoves
      <4>2. entries[k].previous \in {"requested", "authorized"}
        BY <4>1, MovesStart
      <4> QED
        BY <2>2, <2>3, <4>1, <4>2 DEF PaymentInv, MovesAreOver, Payment!FinalStates
    <3>2. \A k, l \in Keys :
             /\ entries[k] # Payment!NoEntry /\ entries[l] # Payment!NoEntry
             /\ entries[k].previous = entries[l].previous
             => k = l
      BY DEF PaymentInv, Payment!EntriesAreMoves
    <3>3. \A k \in Keys : entries'[k] # Payment!NoEntry =>
             <<entries'[k].event, entries'[k].previous, entries'[k].current>> \in Payment!Transitions
      BY <2>3, <2>6, <2>7, <3>1
    <3>4. \A k, l \in Keys :
             /\ entries'[k] # Payment!NoEntry /\ entries'[l] # Payment!NoEntry
             /\ entries'[k].previous = entries'[l].previous
             => k = l
      BY <2>6, <2>7, <3>1, <3>2
    <3>5. \E k \in Keys : entries'[k] # Payment!NoEntry /\ entries'[k].current = machine'
      BY <1>2, <2>1, <2>4, <2>6, <2>7
    <3> QED
      BY <3>3, <3>4, <3>5 DEF Payment!EntriesAreMoves
  <2> QED
    BY <2>8, <2>9, <2>10, <2>11, <2>12, PaymentBystander DEF PaymentInv
<1> QED
  BY <1>5, <1>7, <1>8, Zenon DEF Payment!TransitionWithIdempotency

\* A request that answers without touching the stored answers and the machine.
LEMMA PaymentAnswers ==
    ASSUME PaymentInv, NEW r \in Requests, NEW label \in {"snapshot", "done"},
           NEW code \in Payment!Codes, NEW entry \in Payment!Entries \union Payment!Snapshots,
           pc[r] \in {"can", "snapshot"}, Payment!Goto(r, label),
           Payment!Answer(r, code, entry, FALSE),
           UNCHANGED <<call, expired, known, entries, amount, machine>>,
           seen' \in [Requests -> Payment!PaymentStates \union {"none"}]
    PROVE  PaymentInv'
<1>0. PaymentTypes
  BY DEF PaymentInv
<1> DEFINE answer == [code |-> code, entry |-> entry, replay |-> FALSE]
<1>1. answer \in [code : Payment!Codes, entry : Payment!Entries \union Payment!Snapshots,
                  replay : BOOLEAN]
  BY OutcomeType
<1>2. outcome' = [outcome EXCEPT ![r] = answer] /\ pc' = [pc EXCEPT ![r] = label]
  BY DEF Payment!Answer, Payment!Goto
<1> HIDE DEF answer
<1>3. call[r].op = "can" /\ DOMAIN call = Requests
  BY <1>0 DEF PaymentTypes
<1>4. known' = [known EXCEPT ![r] = known[r]]
  BY <1>0 DEF PaymentTypes, Payment!TypeOK
<1>5. PaymentTypes'
  BY <1>0, <1>1, <1>2, <1>3, PaymentTypesOf DEF PaymentTypes, Payment!TypeOK, PaymentPlaces
<1>6. PaymentOthersKeep(r)
  BY <1>0, <1>2, <1>4, PaymentOthers
<1>7. Replayed(r)'
  BY <1>3 DEF Replayed
<1> QED
  BY <1>5, <1>6, <1>7, PaymentQuiet

LEMMA PaymentCanTransition ==
    ASSUME PaymentInv, NEW r \in Requests, Payment!CanTransition(r)
    PROVE  PaymentInv'
<1>0. PaymentTypes
  BY DEF PaymentInv
<1>1. /\ pc[r] = "can" /\ UNCHANGED <<call, expired, known, amount>>
      /\ seen' = [seen EXCEPT ![r] = machine]
  BY DEF Payment!CanTransition
<1>2. \E code \in Payment!Codes, label \in {"snapshot", "done"} :
         Payment!Refuse(r, code) /\ Payment!Goto(r, label)
  BY ObjectionType DEF Payment!CanTransition, Payment!Codes
<1>3. PICK code \in Payment!Codes, label \in {"snapshot", "done"} :
         Payment!Refuse(r, code) /\ Payment!Goto(r, label)
  BY <1>2
<1>4. seen' \in [Requests -> Payment!PaymentStates \union {"none"}]
  BY <1>0, <1>1 DEF PaymentTypes, Payment!TypeOK
<1>5. entries' = entries /\ machine' = machine /\ Payment!Answer(r, code, Payment!NoEntry, FALSE)
  BY <1>3 DEF Payment!Refuse
<1> QED
  BY <1>1, <1>3, <1>4, <1>5, NoEntryType, PaymentAnswers

LEMMA PaymentSnapshot ==
    ASSUME PaymentInv, NEW r \in Requests, Payment!Snapshot(r)
    PROVE  PaymentInv'
<1>0. PaymentTypes
  BY DEF PaymentInv
<1> DEFINE entry == [Payment!NoEntry EXCEPT !.current = machine]
<1>1. /\ pc[r] = "snapshot" /\ Payment!Goto(r, "done")
      /\ Payment!Answer(r, outcome[r].code, entry, FALSE)
      /\ UNCHANGED <<call, expired, seen, known, entries, amount, machine>>
  BY DEF Payment!Snapshot
<1>2. entry \in Payment!Snapshots
  BY <1>0 DEF Payment!Snapshots, PaymentTypes, Payment!TypeOK
<1> HIDE DEF entry
<1>3. outcome[r].code \in Payment!Codes
  BY <1>0 DEF PaymentTypes
<1>4. seen' \in [Requests -> Payment!PaymentStates \union {"none"}]
  BY <1>0, <1>1 DEF PaymentTypes, Payment!TypeOK
<1> QED
  BY <1>1, <1>2, <1>3, <1>4, PaymentAnswers

LEMMA PaymentAgain ==
    ASSUME PaymentInv, NEW r \in Requests, Payment!Again(r)
    PROVE  PaymentInv'
<1>0. PaymentTypes
  BY DEF PaymentInv
<1> DEFINE nothing == [k \in Keys |-> Payment!NoEntry]
           answer == Payment!NoOutcome
<1>1. /\ pc' = [pc EXCEPT ![r] = "idle"] /\ call' = [call EXCEPT ![r] = Payment!NoCall]
      /\ outcome' = [outcome EXCEPT ![r] = answer] /\ known' = [known EXCEPT ![r] = nothing]
      /\ seen' = [seen EXCEPT ![r] = "none"] /\ UNCHANGED <<entries, amount, machine>>
  BY DEF Payment!Again, Payment!Goto
<1>2. expired' \in [Requests -> BOOLEAN]
  BY <1>0, Zenon DEF Payment!Again, PaymentTypes, Payment!TypeOK
<1>3. nothing \in [Keys -> Payment!Entries] /\ \A k \in Keys : nothing[k] = Payment!NoEntry
  BY NoEntryType
<1>4. answer \in [code : Payment!Codes, entry : Payment!Entries \union Payment!Snapshots,
                  replay : BOOLEAN]
  BY NoEntryType, OutcomeType DEF Payment!NoOutcome, Payment!Codes
<1> HIDE DEF nothing, answer
<1>5. DOMAIN call' = Requests /\ \A q \in Requests \ {r} : call'[q] = call[q]
  BY <1>0, <1>1 DEF PaymentTypes
<1>6. PaymentTypes'
  BY <1>0, <1>1, <1>2, <1>3, <1>4, <1>5, PaymentTypesOf
  DEF PaymentTypes, Payment!TypeOK, PaymentPlaces
<1>7. PaymentOthersKeep(r) /\ pc'[r] = "idle" /\ known'[r] = nothing
  BY <1>0, <1>1, <1>5, PaymentOthers, ZenonT(60)
<1>8. Replayed(r)'
  BY <1>7 DEF Replayed
<1> QED
  BY <1>1, <1>3, <1>6, <1>7, <1>8, PaymentQuiet

LEMMA PaymentStep ==
    ASSUME PaymentInv, [Payment!Next]_(Payment!vars)
    PROVE  PaymentInv'
<1>1. ASSUME NEW r \in Requests, NEW event \in Payment!PaymentEvents \union {"other"},
             NEW key \in Keys, Payment!Start(r, "transition", event, key)
      PROVE  PaymentInv'
  BY <1>1, PaymentStart
<1>2. ASSUME NEW r \in Requests, NEW event \in Payment!PaymentEvents \union {"other"},
             Payment!Start(r, "can", event, "none")
      PROVE  PaymentInv'
  BY <1>2, PaymentStart
<1>3. CASE UNCHANGED Payment!vars
  <2>1. UNCHANGED <<pc, call, expired, seen, outcome, known, entries, amount, machine>>
    BY <1>3 DEF Payment!vars, Payment!requestVars
  <2> QED
    BY <2>1 DEF PaymentInv, PaymentTypes, Payment!TypeOK, KnownStays, MovesAreOver,
                Payment!RetriesAreReplayed, Payment!EntriesAreMoves
<1> QED
  BY <1>1, <1>2, <1>3, PaymentExpire, PaymentTransition, PaymentCanTransition, PaymentSnapshot,
     PaymentAgain
  DEF Payment!Next

\* A retry of a command that had succeeded before it arrived gets the first answer, and a
\* key that has succeeded with another event is refused (transitionWithIdempotency).
THEOREM PaymentRetriesAreReplayed == Payment!Spec => []Payment!RetriesAreReplayed
<1>1. PaymentInv => Payment!RetriesAreReplayed
  BY DEF PaymentInv
<1> QED
  BY <1>1, PaymentBegins, PaymentStep, PTL DEF Payment!Spec

\* The stored answers are the moves of the payment, one key for each, and no two start in
\* the same state (the mutex of idempotencyStore around machine.Transition).
THEOREM PaymentEntriesAreMoves == Payment!Spec => []Payment!EntriesAreMoves
<1>1. PaymentInv => Payment!EntriesAreMoves
  BY DEF PaymentInv
<1> QED
  BY <1>1, PaymentBegins, PaymentStep, PTL DEF Payment!Spec

--------------------------------------------------------------------------------
\* The instance counts as this module does.
LEMMA SameCardinality == \A S : Moderation!Cardinality(S) = Cardinality(S)
BY DEF Moderation!Cardinality, Cardinality

LEMMA ModerationBegins ==
    ASSUME Moderation!ModerationAssumption
    PROVE  Moderation!Init => ModerationInv
<1> SUFFICES ASSUME Moderation!Init PROVE ModerationInv
  OBVIOUS
<1>1. DOMAIN records = {}
  BY DEF Moderation!Init
<1>2. IsFiniteSet(DOMAIN records) /\ Cardinality(DOMAIN records) <= MaximumRecords
  BY <1>1, FS_EmptySet DEF Moderation!ModerationAssumption
<1>3. ModerationTypes
  BY <1>2 DEF Moderation!Init, ModerationTypes
<1>4. \A r \in Requests : RequestHolds(r)
  BY DEF Moderation!Init, RequestHolds, Moderation!NoCall
<1> QED
  BY <1>1, <1>3, <1>4 DEF ModerationInv

\* Records are only added, below the limit, and never changed.
StoreGrows ==
    \/ records' = records
    \/ /\ Cardinality(DOMAIN records) < MaximumRecords
       /\ \A i \in DOMAIN records : i \in DOMAIN records' /\ records'[i] = records[i]

\* What the other requests keep.
CallersKeep(r) ==
    \A q \in Requests \ {r} :
        /\ pc'[q] = pc[q]
        /\ call'[q] = call[q]
        /\ draft'[q] = draft[q]
        /\ result'[q] = result[q]
        /\ outcome'[q] = outcome[q]

\* What a code says stays true while the store grows.
LEMMA CodesStayTrue ==
    ASSUME Moderation!ModerationAssumption, ModerationTypes, StoreGrows, NEW q \in Requests,
           call'[q] = call[q], draft'[q] = draft[q], NEW code, CodeIsTrue(q, code)
    PROVE  CodeIsTrue(q, code)'
<1>1. Cardinality(DOMAIN records) \in Nat /\ MaximumRecords \in Nat
  BY FS_CardinalityType DEF ModerationTypes, Moderation!ModerationAssumption
<1>2. CASE records' = records
  BY <1>2 DEF CodeIsTrue
<1>3. CASE records' # records
  BY <1>1, <1>3 DEF CodeIsTrue, StoreGrows
<1> QED
  BY <1>2, <1>3

LEMMA CallerKeeps ==
    ASSUME Moderation!ModerationAssumption, ModerationInv, StoreGrows, NEW q \in Requests,
           pc'[q] = pc[q], call'[q] = call[q], draft'[q] = draft[q], result'[q] = result[q],
           outcome'[q] = outcome[q]
    PROVE  RequestHolds(q)'
<1>0. ModerationTypes /\ RequestHolds(q)
  BY DEF ModerationInv
<1>1. pc[q] = "respond" => CodeIsTrue(q, result[q].code)'
  <2>1. PICK code : code = result[q].code
    OBVIOUS
  <2>2. pc[q] = "respond" => CodeIsTrue(q, code)'
    BY <1>0, <2>1, CodesStayTrue DEF RequestHolds
  <2> QED
    BY <2>1, <2>2 DEF CodeIsTrue
<1>2. pc[q] = "answered" => CodeIsTrue(q, outcome[q])'
  <2>1. PICK code : code = outcome[q]
    OBVIOUS
  <2>2. pc[q] = "answered" => CodeIsTrue(q, code)'
    BY <1>0, <2>1, CodesStayTrue DEF RequestHolds
  <2> QED
    BY <2>1, <2>2 DEF CodeIsTrue
<1> QED
  BY <1>0, <1>1, <1>2 DEF RequestHolds, Prepared, Reviewed

\* A step of one request.
LEMMA ModerationStepOf ==
    ASSUME Moderation!ModerationAssumption, ModerationInv, NEW r \in Requests,
           ModerationTypes', CallersKeep(r), StoreGrows, RequestHolds(r)',
           \A i \in DOMAIN records' : Reviewed(records'[i])
    PROVE  ModerationInv'
<1>1. \A q \in Requests \ {r} : RequestHolds(q)'
  BY CallerKeeps DEF CallersKeep
<1> QED
  BY <1>1 DEF ModerationInv, Reviewed

\* A step of one request changes that request's part of the variables.
StepOf(r) ==
    /\ pc' \in [Requests -> {"idle", "create", "route", "moderate", "terms", "commit", "get",
                             "search", "snapshot", "scan", "respond", "answered"}]
    /\ DOMAIN call' = Requests
    /\ DOMAIN draft' = Requests
    /\ DOMAIN result' = Requests
    /\ DOMAIN outcome' = Requests
    /\ CallersKeep(r)

LEMMA ModerationQuiet ==
    ASSUME Moderation!ModerationAssumption, ModerationInv, NEW r \in Requests,
           StepOf(r), records' = records, RequestHolds(r)'
    PROVE  ModerationInv'
<1>0. ModerationTypes /\ \A i \in DOMAIN records : Reviewed(records[i])
  BY DEF ModerationInv
<1>1. ModerationTypes'
  BY <1>0 DEF ModerationTypes, StepOf
<1>2. \A i \in DOMAIN records' : Reviewed(records'[i])
  BY <1>0
<1> QED
  BY <1>1, <1>2, ModerationStepOf DEF StoreGrows, StepOf

\* The service returns an error that is true of the store.
LEMMA ModerationFails ==
    ASSUME Moderation!ModerationAssumption, ModerationInv, NEW r \in Requests, NEW code,
           Moderation!Fail(r, code), code # "ok", CodeIsTrue(r, code)
    PROVE  ModerationInv'
<1>0. ModerationTypes /\ RequestHolds(r)
  BY DEF ModerationInv
<1>1. /\ StepOf(r) /\ records' = records /\ pc'[r] = "respond" /\ call' = call
      /\ result'[r] = [code |-> code, hits |-> <<>>, truncated |-> FALSE]
  BY <1>0 DEF Moderation!Fail, Moderation!Return, Moderation!Goto, ModerationTypes, StepOf,
              CallersKeep
<1>2. result'[r].code = code
  BY <1>1
<1>3. RequestHolds(r)'
  BY <1>0, <1>1, <1>2 DEF RequestHolds, CodeIsTrue
<1> QED
  BY <1>1, <1>3, ModerationQuiet

\* Create goes on to its next step.
LEMMA ModerationContinues ==
    ASSUME Moderation!ModerationAssumption, ModerationInv, NEW r \in Requests,
           NEW label \in {"route", "moderate", "terms", "commit", "snapshot", "scan"},
           Moderation!Continue(r, label), DOMAIN draft' = Requests,
           \A q \in Requests \ {r} : draft'[q] = draft[q],
           pc'[r] = label => RequestHolds(r)'
    PROVE  ModerationInv'
<1>0. ModerationTypes
  BY DEF ModerationInv
<1>1. StepOf(r) /\ records' = records /\ pc'[r] = label
  BY <1>0 DEF Moderation!Continue, Moderation!Goto, ModerationTypes, StepOf, CallersKeep
<1> QED
  BY <1>1, ModerationQuiet

LEMMA ModerationArrives ==
    ASSUME Moderation!ModerationAssumption, ModerationInv, NEW r \in Requests,
           \/ \E s \in Submissions : Moderation!ArriveCreate(r, s)
           \/ \E i \in IDs : Moderation!ArriveGet(r, i)
           \/ \E s \in Searches : Moderation!ArriveSearch(r, s)
    PROVE  ModerationInv'
<1>0. ModerationTypes /\ RequestHolds(r)
  BY DEF ModerationInv
<1>1. ASSUME NEW s \in Submissions, Moderation!ArriveCreate(r, s) PROVE ModerationInv'
  <2>1. StepOf(r) /\ records' = records /\ pc'[r] = "create"
    BY <1>0, <1>1 DEF Moderation!ArriveCreate, Moderation!Goto, ModerationTypes, StepOf, CallersKeep
  <2>2. call'[r] = [op |-> "create", id |-> s.id, content |-> s.content, metadata |-> s.metadata]
    BY <1>0, <1>1 DEF Moderation!ArriveCreate, ModerationTypes
  <2>3. RequestHolds(r)'
    BY <2>1, <2>2 DEF RequestHolds
  <2> QED
    BY <2>1, <2>3, ModerationQuiet
<1>2. ASSUME NEW i \in IDs, Moderation!ArriveGet(r, i) PROVE ModerationInv'
  <2>1. /\ StepOf(r) /\ records' = records /\ pc'[r] = "get"
        /\ call'[r] = [op |-> "get", id |-> i]
    BY <1>0, <1>2 DEF Moderation!ArriveGet, Moderation!Goto, ModerationTypes, StepOf, CallersKeep
  <2>2. RequestHolds(r)'
    BY <2>1 DEF RequestHolds
  <2> QED
    BY <2>1, <2>2, ModerationQuiet
<1>3. ASSUME NEW s \in Searches, Moderation!ArriveSearch(r, s) PROVE ModerationInv'
  <2>1. /\ pc' = [pc EXCEPT ![r] = "search"]
        /\ call' = [call EXCEPT ![r] = [op |-> "search", search |-> s]]
        /\ UNCHANGED <<draft, result, outcome, records>>
    BY <1>3 DEF Moderation!ArriveSearch, Moderation!Goto
  <2>2. /\ StepOf(r) /\ records' = records /\ pc'[r] = "search"
        /\ call'[r] = [op |-> "search", search |-> s]
    BY <1>0, <2>1 DEF ModerationTypes, StepOf, CallersKeep
  <2>3. RequestHolds(r)'
    BY <2>2 DEF RequestHolds
  <2> QED
    BY <2>2, <2>3, ModerationQuiet
<1> QED
  BY <1>1, <1>2, <1>3

\* The steps of Create up to its critical section.
LEMMA ModerationPrepares ==
    ASSUME Moderation!ModerationAssumption, ModerationInv, NEW r \in Requests,
           \/ Moderation!ValidateCreate(r)
           \/ Moderation!DetectAndRoute(r)
           \/ Moderation!Moderate(r)
           \/ Moderation!PrepareTerms(r)
    PROVE  ModerationInv'
<1>0. ModerationTypes /\ RequestHolds(r)
  BY DEF ModerationInv
<1>1. CASE Moderation!ValidateCreate(r)
  <2>1. CASE Moderation!Fail(r, "invalid_request")
    BY <2>1, ModerationFails DEF CodeIsTrue
  <2>2. CASE Moderation!Continue(r, "route") /\ draft' = draft
    <3>1. pc[r] = "create" /\ call' = call
      BY <1>1, <2>2 DEF Moderation!ValidateCreate, Moderation!Continue
    <3>2. pc'[r] = "route" => RequestHolds(r)'
      BY <1>0, <3>1 DEF RequestHolds
    <3> QED
      BY <1>0, <2>2, <3>2, ModerationContinues DEF ModerationTypes
  <2> QED
    BY <1>1, <2>1, <2>2 DEF Moderation!ValidateCreate
<1>2. CASE Moderation!DetectAndRoute(r)
  <2> DEFINE label == IF Moderation!ReviewReasons(call[r].content) = {} THEN "moderate" ELSE "commit"
  <2>1. /\ pc[r] = "route" /\ Moderation!Continue(r, label) /\ call' = call
        /\ draft' = [draft EXCEPT ![r] = Prepared(r, "manual-review")]
    BY <1>2 DEF Moderation!DetectAndRoute, Moderation!Continue, Prepared
  <2>2. /\ DOMAIN draft' = Requests /\ draft'[r] = Prepared(r, "manual-review")
        /\ \A q \in Requests \ {r} : draft'[q] = draft[q]
    BY <1>0, <2>1 DEF ModerationTypes
  <2>3. Prepared(r, "manual-review")' = Prepared(r, "manual-review")
    BY <2>1 DEF Prepared
  <2>4. draft'[r].outcome = "manual-review" /\ draft'[r].content = call[r].content
    BY <2>2 DEF Prepared
  <2>5. CASE Moderation!ReviewReasons(call[r].content) = {}
    <3>1. pc'[r] = "moderate" => RequestHolds(r)'
      BY <1>0, <2>1, <2>2, <2>3, <2>5 DEF RequestHolds
    <3> QED
      BY <2>1, <2>2, <2>5, <3>1, ModerationContinues
  <2>6. CASE Moderation!ReviewReasons(call[r].content) # {}
    <3>1. pc'[r] = "commit" => RequestHolds(r)'
      BY <1>0, <2>1, <2>4, <2>6 DEF RequestHolds, Reviewed
    <3> QED
      BY <2>1, <2>2, <2>6, <3>1, ModerationContinues
  <2> QED
    BY <2>5, <2>6
<1>3. CASE Moderation!Moderate(r)
  <2>1. PICK route \in {"allowed", "masked"} :
           draft' = [draft EXCEPT ![r].outcome = route]
    BY <1>3 DEF Moderation!Moderate
  <2>2. pc[r] = "moderate" /\ Moderation!Continue(r, "terms") /\ call' = call
    BY <1>3 DEF Moderation!Moderate, Moderation!Continue
  <2>3. draft[r] = Prepared(r, "manual-review") /\ Moderation!ReviewReasons(call[r].content) = {}
    BY <1>0, <2>2 DEF RequestHolds
  <2>4. /\ DOMAIN draft' = Requests /\ draft'[r] = [draft[r] EXCEPT !.outcome = route]
        /\ \A q \in Requests \ {r} : draft'[q] = draft[q]
    BY <1>0, <2>1 DEF ModerationTypes
  <2>5. draft'[r] = Prepared(r, route)'
    BY <2>2, <2>3, <2>4 DEF Prepared
  <2>6. pc'[r] = "terms" => RequestHolds(r)'
    BY <1>0, <2>2, <2>3, <2>5 DEF RequestHolds
  <2> QED
    BY <2>2, <2>4, <2>6, ModerationContinues
<1>4. CASE Moderation!PrepareTerms(r)
  <2>1. /\ pc[r] = "terms" /\ Moderation!Continue(r, "commit") /\ call' = call
        /\ draft' = [draft EXCEPT ![r].terms = call[r].content.terms]
    BY <1>4 DEF Moderation!PrepareTerms, Moderation!Continue
  <2>2. PICK route \in {"allowed", "masked"} : draft[r] = Prepared(r, route)
    BY <1>0, <2>1 DEF RequestHolds
  <2>3. Moderation!ReviewReasons(call[r].content) = {}
    BY <1>0, <2>1 DEF RequestHolds
  <2>4. /\ DOMAIN draft' = Requests
        /\ draft'[r] = [draft[r] EXCEPT !.terms = call[r].content.terms]
        /\ \A q \in Requests \ {r} : draft'[q] = draft[q]
    BY <1>0, <2>1 DEF ModerationTypes
  <2>5. draft'[r].outcome = route /\ draft'[r].content = call[r].content
    BY <2>2, <2>4 DEF Prepared
  <2>6. pc'[r] = "commit" => RequestHolds(r)'
    BY <1>0, <2>1, <2>3, <2>5 DEF RequestHolds, Reviewed
  <2> QED
    BY <2>1, <2>4, <2>6, ModerationContinues
<1> QED
  BY <1>1, <1>2, <1>3, <1>4

\* The critical section of Create: the id is new and there is room, or nothing is stored.
LEMMA ModerationCommits ==
    ASSUME Moderation!ModerationAssumption, ModerationInv, NEW r \in Requests,
           Moderation!CommitRecord(r)
    PROVE  ModerationInv'
<1>0. ModerationTypes /\ RequestHolds(r) /\ pc[r] = "commit"
  BY DEF ModerationInv, Moderation!CommitRecord
<1>1. Cardinality(DOMAIN records) \in Nat /\ MaximumRecords \in Nat
  BY <1>0, FS_CardinalityType DEF ModerationTypes, Moderation!ModerationAssumption
<1>2. CASE call[r].id \in DOMAIN records
  <2>1. Moderation!Fail(r, "duplicate_content_id")
    BY <1>2 DEF Moderation!CommitRecord
  <2> QED
    BY <1>2, <2>1, ModerationFails DEF CodeIsTrue
<1>3. CASE call[r].id \notin DOMAIN records /\ Cardinality(DOMAIN records) >= MaximumRecords
  <2>1. Moderation!Fail(r, "store_capacity_reached")
    BY <1>3, SameCardinality DEF Moderation!CommitRecord
  <2>2. Cardinality(DOMAIN records) = MaximumRecords
    BY <1>0, <1>1, <1>3 DEF ModerationTypes
  <2> QED
    BY <2>1, <2>2, ModerationFails DEF CodeIsTrue
<1>4. CASE call[r].id \notin DOMAIN records /\ ~(Cardinality(DOMAIN records) >= MaximumRecords)
  <2> DEFINE id == call[r].id
  <2>1. /\ records' = [i \in DOMAIN records \union {id} |-> IF i = id THEN draft[r] ELSE records[i]]
        /\ Moderation!Return(r, "ok", <<>>, FALSE) /\ draft' = draft
    BY <1>4, SameCardinality DEF Moderation!CommitRecord
  <2>2. /\ DOMAIN records' = DOMAIN records \union {id} /\ records'[id] = draft[r]
        /\ \A i \in DOMAIN records : records'[i] = records[i]
    BY <1>4, <2>1
  <2>3. /\ StepOf(r) /\ pc'[r] = "respond" /\ call' = call
        /\ result'[r] = [code |-> "ok", hits |-> <<>>, truncated |-> FALSE]
    BY <1>0, <2>1 DEF Moderation!Return, Moderation!Goto, ModerationTypes, StepOf, CallersKeep
  <2>4. /\ IsFiniteSet(DOMAIN records')
        /\ Cardinality(DOMAIN records') = Cardinality(DOMAIN records) + 1
    BY <1>0, <1>4, <2>2, FS_AddElement DEF ModerationTypes
  <2>5. ModerationTypes'
    BY <1>1, <1>4, <2>3, <2>4 DEF ModerationTypes, StepOf
  <2>6. StoreGrows
    BY <1>1, <1>4, <2>2 DEF StoreGrows
  <2>7. result'[r].code = "ok"
    BY <2>3
  <2>8. RequestHolds(r)'
    BY <1>0, <2>1, <2>2, <2>3, <2>7 DEF RequestHolds, CodeIsTrue
  <2>9. Reviewed(draft[r]) /\ \A i \in DOMAIN records : Reviewed(records[i])
    BY <1>0 DEF RequestHolds, ModerationInv
  <2>10. \A i \in DOMAIN records' : Reviewed(records'[i])
    BY <2>2, <2>9
  <2> QED
    BY <2>3, <2>5, <2>6, <2>8, <2>10, ModerationStepOf DEF StepOf
<1> QED
  BY <1>2, <1>3, <1>4

\* Get and Search read the store.
LEMMA ModerationReads ==
    ASSUME Moderation!ModerationAssumption, ModerationInv, NEW r \in Requests,
           \/ Moderation!Get(r)
           \/ Moderation!ValidateSearch(r)
           \/ Moderation!TakeSnapshot(r)
           \/ Moderation!Scan(r)
    PROVE  ModerationInv'
<1>0. ModerationTypes /\ RequestHolds(r)
  BY DEF ModerationInv
<1>1. ASSUME NEW hits, NEW truncated, Moderation!Return(r, "ok", hits, truncated),
             call[r].op # "create", draft' = draft, records' = records
      PROVE  ModerationInv'
  <2>1. /\ StepOf(r) /\ pc'[r] = "respond" /\ call' = call
        /\ result'[r] = [code |-> "ok", hits |-> hits, truncated |-> truncated]
    BY <1>0, <1>1 DEF Moderation!Return, Moderation!Goto, ModerationTypes, StepOf, CallersKeep
  <2>2. result'[r].code = "ok"
    BY <2>1
  <2>3. RequestHolds(r)'
    BY <1>0, <1>1, <2>1, <2>2 DEF RequestHolds, CodeIsTrue
  <2> QED
    BY <1>1, <2>1, <2>3, ModerationQuiet
<1>2. CASE Moderation!Get(r)
  <2>1. pc[r] = "get" /\ call[r].op # "create"
    BY <1>0, <1>2 DEF Moderation!Get, RequestHolds
  <2>2. CASE call[r].id \in DOMAIN records
    BY <1>1, <1>2, <2>1, <2>2 DEF Moderation!Get
  <2>3. CASE call[r].id \notin DOMAIN records
    <3>1. Moderation!Fail(r, "record_not_found")
      BY <1>2, <2>3 DEF Moderation!Get
    <3> QED
      BY <3>1, ModerationFails DEF CodeIsTrue
  <2> QED
    BY <2>2, <2>3
<1>3. CASE Moderation!ValidateSearch(r)
  <2>1. CASE Moderation!Fail(r, "invalid_request")
    BY <2>1, ModerationFails DEF CodeIsTrue
  <2>2. CASE Moderation!Continue(r, "snapshot") /\ draft' = draft
    <3>1. pc[r] = "search" /\ call' = call
      BY <1>3, <2>2 DEF Moderation!ValidateSearch, Moderation!Continue
    <3>2. pc'[r] = "snapshot" => RequestHolds(r)'
      BY <1>0, <3>1 DEF RequestHolds
    <3> QED
      BY <1>0, <2>2, <3>2, ModerationContinues DEF ModerationTypes
  <2> QED
    BY <1>3, <2>1, <2>2 DEF Moderation!ValidateSearch
<1>4. CASE Moderation!TakeSnapshot(r)
  <2>1. pc[r] = "snapshot" /\ Moderation!Continue(r, "scan") /\ call' = call /\ draft' = draft
    BY <1>4 DEF Moderation!TakeSnapshot, Moderation!Continue
  <2>2. pc'[r] = "scan" => RequestHolds(r)'
    BY <1>0, <2>1 DEF RequestHolds
  <2> QED
    BY <1>0, <2>1, <2>2, ModerationContinues DEF ModerationTypes
<1>5. CASE Moderation!Scan(r)
  <2>1. /\ pc[r] = "scan" /\ draft' = draft /\ records' = records
        /\ \E hits, truncated : Moderation!Return(r, "ok", hits, truncated)
    BY <1>5, Zenon DEF Moderation!Scan
  <2>2. call[r].op # "create"
    BY <1>0, <2>1 DEF RequestHolds
  <2> QED
    BY <1>1, <2>1, <2>2
<1> QED
  BY <1>2, <1>3, <1>4, <1>5

\* The handler answers, and the client goes on or leaves.
LEMMA ModerationResponds ==
    ASSUME Moderation!ModerationAssumption, ModerationInv, NEW r \in Requests,
           \/ Moderation!Respond(r)
           \/ Moderation!NextPage(r)
           \/ Moderation!Leave(r)
    PROVE  ModerationInv'
<1>0. ModerationTypes /\ RequestHolds(r)
  BY DEF ModerationInv
<1>1. CASE Moderation!Respond(r)
  <2>1. PICK code : code = Moderation!Answer(r)
    OBVIOUS
  <2>2. code \in {"request_canceled", "request_timeout", result[r].code}
    BY <2>1 DEF Moderation!Answer
  <2>3. /\ pc[r] = "respond" /\ pc' = [pc EXCEPT ![r] = "answered"]
        /\ outcome' = [outcome EXCEPT ![r] = code]
        /\ UNCHANGED <<call, draft, records>>
        /\ \/ result' = result
           \/ result' = [result EXCEPT ![r] = Moderation!NoResult]
    BY <1>1, <2>1 DEF Moderation!Respond, Moderation!Goto
  <2>4. StepOf(r) /\ pc'[r] = "answered" /\ outcome'[r] = code
    BY <1>0, <2>3 DEF ModerationTypes, StepOf, CallersKeep
  <2>5. CodeIsTrue(r, code)
    BY <1>0, <2>2, <2>3 DEF RequestHolds, CodeIsTrue
  <2>6. RequestHolds(r)'
    BY <1>0, <2>3, <2>4, <2>5 DEF RequestHolds, CodeIsTrue
  <2> QED
    BY <2>3, <2>4, <2>6, ModerationQuiet
<1>2. CASE Moderation!NextPage(r)
  <2>1. PICK last : call' = [call EXCEPT ![r].search.after = last]
    BY <1>2 DEF Moderation!NextPage
  <2>2. /\ call[r].op = "search" /\ pc' = [pc EXCEPT ![r] = "search"]
        /\ result' = [result EXCEPT ![r] = Moderation!NoResult]
        /\ outcome' = [outcome EXCEPT ![r] = "none"]
        /\ UNCHANGED <<draft, records>>
    BY <1>2 DEF Moderation!NextPage, Moderation!Goto
  <2>3. StepOf(r) /\ pc'[r] = "search"
    BY <1>0, <2>1, <2>2 DEF ModerationTypes, StepOf, CallersKeep
  <2>4. call'[r] = [call[r] EXCEPT !.search = [call[r].search EXCEPT !.after = last]]
    BY <1>0, <2>1 DEF ModerationTypes
  <2>5. "op" \in DOMAIN call'[r] /\ call'[r].op = "search"
    BY <1>0, <2>2, <2>4 DEF RequestHolds
  <2>6. RequestHolds(r)'
    BY <2>3, <2>5 DEF RequestHolds
  <2> QED
    BY <2>2, <2>3, <2>6, ModerationQuiet
<1>3. CASE Moderation!Leave(r)
  <2>1. /\ StepOf(r) /\ pc'[r] = "idle" /\ call'[r] = Moderation!NoCall /\ records' = records
    BY <1>0, <1>3 DEF Moderation!Leave, Moderation!Goto, ModerationTypes, StepOf, CallersKeep
  <2>2. RequestHolds(r)'
    BY <2>1 DEF RequestHolds, Moderation!NoCall
  <2> QED
    BY <2>1, <2>2, ModerationQuiet
<1> QED
  BY <1>1, <1>2, <1>3

LEMMA ModerationStep ==
    ASSUME Moderation!ModerationAssumption, ModerationInv, [Moderation!Next]_(Moderation!vars)
    PROVE  ModerationInv'
<1>1. ASSUME NEW r \in Requests, NEW why, Moderation!ContextEnds(r, why) PROVE ModerationInv'
  <2>1. UNCHANGED <<pc, call, draft, result, outcome, records>>
    BY <1>1 DEF Moderation!ContextEnds
  <2> QED
    BY <2>1, ZenonT(60) DEF ModerationInv, ModerationTypes, RequestHolds, Prepared, Reviewed, CodeIsTrue
<1>2. CASE UNCHANGED Moderation!vars
  <2>1. UNCHANGED <<pc, call, draft, result, outcome, records>>
    BY <1>2 DEF Moderation!vars, Moderation!requestVars
  <2> QED
    BY <2>1, ZenonT(60) DEF ModerationInv, ModerationTypes, RequestHolds, Prepared, Reviewed, CodeIsTrue
<1>3. ASSUME NEW r \in Requests, Moderation!CheckContext(r) \/ Moderation!WorkflowFails(r)
      PROVE  ModerationInv'
  <2>1. \E code \in {"context", "internal_error"} : Moderation!Fail(r, code)
    BY <1>3 DEF Moderation!CheckContext, Moderation!WorkflowFails
  <2> QED
    BY <2>1, ModerationFails DEF CodeIsTrue
<1>4. ASSUME NEW r \in Requests, Moderation!Advance(r) PROVE ModerationInv'
  BY <1>3, <1>4, ModerationPrepares, ModerationCommits, ModerationReads, ModerationResponds
  DEF Moderation!Advance
<1> QED
  BY <1>1, <1>2, <1>4, ModerationArrives DEF Moderation!Next

LEMMA ModerationReports == ModerationInv => Moderation!AnswersHold
BY SameCardinality DEF ModerationInv, RequestHolds, CodeIsTrue, Reviewed, Moderation!AnswersHold

\* An answer of the moderation API is true of the store and stays true while other
\* requests create records: a success names the stored record, a conflict a stored id, a
\* refusal for capacity a full store; and a record waits for review exactly when there
\* is a reason (Create, respond).
THEOREM ModerationAnswersHold ==
    Moderation!ModerationAssumption /\ Moderation!Spec => []Moderation!AnswersHold
<1> SUFFICES ASSUME Moderation!ModerationAssumption PROVE Moderation!Spec => []Moderation!AnswersHold
  OBVIOUS
<1>1. Moderation!Init => ModerationInv
  BY ModerationBegins
<1>2. ModerationInv /\ [Moderation!Next]_(Moderation!vars) => ModerationInv'
  BY ModerationStep
<1>3. ModerationInv => Moderation!AnswersHold
  BY ModerationReports
<1> QED
  BY <1>1, <1>2, <1>3, PTL DEF Moderation!Spec

--------------------------------------------------------------------------------
\* The pages of a moderation search.

\* Sequences of ids as the pages are.
Increasing(c) == \A j, k \in DOMAIN c : j < k => c[j] < c[k]
InSeq(c) == {c[k] : k \in DOMAIN c}
Final(c) == c[Len(c)]

\* What the service may answer and where a record may stand.
Answers == Moderation!Codes \union {"request_timeout", "request_canceled"}
Routes == {"allowed", "masked", "manual-review"}

\* What the service keeps, beside ModerationTypes.
SearchTypes ==
    /\ ended \in [Requests -> {"no", "deadline", "cancelled"}]
    /\ snapshot \in [Requests -> SUBSET IDs]
    /\ outcome \in [Requests -> Answers]
    /\ base \in [Requests -> SUBSET IDs]
    /\ collected \in [Requests -> Seq(IDs)]
    /\ DOMAIN records \subseteq IDs
    /\ \A i \in DOMAIN records : records[i].outcome \in Routes

\* What a request carries.
CallHolds(r) ==
    /\ result[r].code \in Moderation!Codes
    /\ result[r].hits \in Seq(IDs)
    /\ pc[r] = "idle" => call[r].op = "none"
    /\ call[r].op = "create" => call[r].id \in IDs
    /\ pc[r] = "commit" => draft[r].outcome \in Routes
    /\ call[r].op = "search" =>
          /\ call[r] = [op |-> "search", search |-> call[r].search]
          /\ DOMAIN call[r].search = {"terms", "filter", "limit", "after"}
          /\ call[r].search.limit \in Int
          /\ call[r].search.after \in IDs \union {0}

\* The ids of a set are of stored records that match the search.
AreMatches(S, s) == \A i \in S : i \in DOMAIN records /\ Moderation!Matches(records[i], s)

\* The pages shown so far end at the cursor, and what they leave out lies behind it.
UpTo(shown, matched, cursor) ==
    /\ \A i \in InSeq(shown) : i <= cursor
    /\ \A i \in matched : i \in InSeq(shown) \/ i > cursor
    /\ shown # <<>> => Final(shown) = cursor

\* The page that Search returns: it continues what was shown, and if it was cut it is not
\* empty and what is left out lies behind its last id.
PageContinues(shown, matched, cursor, hits, truncated) ==
    /\ Increasing(hits)
    /\ \A i \in InSeq(hits) : i > cursor
    /\ truncated = TRUE =>
          /\ hits # <<>>
          /\ \A i \in matched : i \in InSeq(shown) \/ i \in InSeq(hits) \/ i > Final(hits)
    /\ truncated # TRUE => \A i \in matched : i \in InSeq(shown) \/ i \in InSeq(hits)

\* What a search knows at each of its steps.
PagesHold(r) ==
    /\ collected[r] # <<>> \/ base[r] # {} => call[r].op = "search"
    /\ Increasing(collected[r])
    /\ call[r].op = "search" => AreMatches(InSeq(collected[r]) \union base[r], call[r].search)
    /\ pc[r] \in {"search", "snapshot", "scan"} => UpTo(collected[r], base[r], call[r].search.after)
    /\ pc[r] \in {"snapshot", "scan"} => Moderation!LimitOf(call[r].search) \in Nat \ {0}
    /\ pc[r] = "scan" => base[r] \subseteq snapshot[r] /\ snapshot[r] \subseteq DOMAIN records
    /\ pc[r] = "respond" /\ call[r].op = "search" =>
          /\ UpTo(collected[r], base[r], call[r].search.after)
          /\ result[r].code = "ok" =>
                /\ AreMatches(InSeq(result[r].hits), call[r].search)
                /\ PageContinues(collected[r], base[r], call[r].search.after, result[r].hits,
                                 result[r].truncated)
    /\ pc[r] = "answered" /\ call[r].op = "search" /\ outcome[r] # "ok" =>
          UpTo(collected[r], base[r], call[r].search.after)
    /\ pc[r] = "answered" /\ call[r].op = "search" /\ outcome[r] = "ok" =>
          /\ result[r].truncated = TRUE =>
                /\ result[r].hits # <<>>
                /\ collected[r] # <<>>
                /\ UpTo(collected[r], base[r], Final(result[r].hits))
          /\ result[r].truncated # TRUE => base[r] \subseteq InSeq(collected[r])

SearchInv ==
    /\ SearchTypes
    /\ \A r \in Requests : CallHolds(r) /\ PagesHold(r)

\* How many ids are smaller.
Below(S, i) == Cardinality({j \in S : j < i})

LEMMA BelowOrders ==
    ASSUME NEW S \in SUBSET Nat, IsFiniteSet(S)
    PROVE  /\ \A i \in S : Below(S, i) \in 0 .. (Cardinality(S) - 1)
           /\ \A i, j \in S : i < j => Below(S, i) < Below(S, j)
<1>0. Cardinality(S) \in Nat /\ \A i \in S : i \in Nat
  BY FS_CardinalityType
<1>1. ASSUME NEW i \in S
      PROVE  /\ IsFiniteSet({j \in S : j < i}) /\ Below(S, i) \in Nat
             /\ IsFiniteSet({j \in S : j < i} \union {i})
             /\ Cardinality({j \in S : j < i} \union {i}) = Below(S, i) + 1
  <2> DEFINE T == {j \in S : j < i}
  <2>1. IsFiniteSet(T) /\ Cardinality(T) \in Nat
    <3>1. T \in SUBSET S
      OBVIOUS
    <3>2. IsFiniteSet(T)
      BY <3>1, FS_Subset
    <3> QED
      BY <3>2, FS_CardinalityType
  <2>2. i \notin T
    OBVIOUS
  <2>3. IsFiniteSet(T \union {i}) /\ Cardinality(T \union {i}) = Cardinality(T) + 1
    BY <2>1, <2>2, FS_AddElement, Zenon
  <2> QED
    BY <2>1, <2>3 DEF Below
<1>2. ASSUME NEW i \in S PROVE Below(S, i) \in 0 .. (Cardinality(S) - 1)
  <2>1. PICK T : T = {j \in S : j < i} \union {i}
    OBVIOUS
  <2>2. T \in SUBSET S /\ Cardinality(T) = Below(S, i) + 1 /\ Below(S, i) \in Nat
    BY <1>1, <2>1, Zenon
  <2>3. Cardinality(T) <= Cardinality(S)
    BY <2>2, FS_Subset
  <2> QED
    BY <1>0, <2>2, <2>3
<1>3. ASSUME NEW i \in S, NEW j \in S, i < j PROVE Below(S, i) < Below(S, j)
  <2>1. PICK T : T = {k \in S : k < i} \union {i}
    OBVIOUS
  <2>2. T \in SUBSET {k \in S : k < j}
    <3> SUFFICES ASSUME NEW k \in T PROVE k \in S /\ k < j
      BY Zenon
    <3> QED
      BY <1>0, <1>3, <2>1
  <2>3. Cardinality(T) = Below(S, i) + 1 /\ Below(S, i) \in Nat /\ Below(S, j) \in Nat
    BY <1>1, <2>1, Zenon
  <2>4. Cardinality(T) <= Below(S, j)
    BY <1>1, <2>2, FS_Subset DEF Below
  <2> QED
    BY <2>3, <2>4
<1> QED
  BY <1>2, <1>3

\* Every rank is taken.
LEMMA BelowReaches ==
    ASSUME NEW S \in SUBSET Nat, IsFiniteSet(S), NEW n \in 0 .. (Cardinality(S) - 1)
    PROVE  \E i \in S : Below(S, i) = n
<1> DEFINE f == [i \in S |-> Below(S, i)]
           T == 0 .. (Cardinality(S) - 1)
<1>0. Cardinality(S) \in Nat
  BY FS_CardinalityType
<1>1. f \in [S -> T]
  BY BelowOrders
<1>2. \A i, j \in S : f[i] = f[j] => i = j
  <2> SUFFICES ASSUME NEW i \in S, NEW j \in S, f[i] = f[j], i # j PROVE FALSE
    OBVIOUS
  <2>1. Below(S, i) \in Nat /\ Below(S, j) \in Nat /\ Below(S, i) = Below(S, j)
    BY BelowOrders, <1>0
  <2>2. i < j \/ j < i
    OBVIOUS
  <2> QED
    BY <2>1, <2>2, BelowOrders
<1>3. f \in Injection(S, T)
  <2> HIDE DEF f, T
  <2> QED
    BY <1>1, <1>2 DEF Injection, IsInjective
<1>4. IsFiniteSet(T) /\ Cardinality(T) = Cardinality(S)
  BY <1>0, FS_Interval
<1>5. f \in Surjection(S, T)
  BY <1>3, <1>4, FS_Injection
<1> QED
  BY <1>5 DEF Surjection

LEMMA SortedIsSorted ==
    ASSUME NEW S \in SUBSET Nat, IsFiniteSet(S)
    PROVE  /\ Moderation!Sorted(S) \in Seq(S)
           /\ Len(Moderation!Sorted(S)) = Cardinality(S)
           /\ Increasing(Moderation!Sorted(S))
           /\ \A i \in S : \E k \in 1 .. Cardinality(S) : Moderation!Sorted(S)[k] = i
<1>0. Cardinality(S) \in Nat /\ \A i \in S : i \in Nat
  BY FS_CardinalityType
<1>1. PICK c : c = Moderation!Sorted(S)
  OBVIOUS
<1>2. c = [k \in 1 .. Cardinality(S) |-> CHOOSE i \in S : Below(S, i) = k - 1]
  BY <1>1, Zenon DEF Moderation!Sorted, Below, Moderation!Cardinality, Cardinality
<1>3. ASSUME NEW k \in 1 .. Cardinality(S) PROVE c[k] \in S /\ Below(S, c[k]) = k - 1
  <2>1. k - 1 \in 0 .. (Cardinality(S) - 1)
    BY <1>0
  <2>2. \E i \in S : Below(S, i) = k - 1
    BY <2>1, BelowReaches
  <2>3. c[k] = CHOOSE i \in S : Below(S, i) = k - 1
    BY <1>2
  <2> QED
    BY <2>2, <2>3, Zenon
<1>4. c \in Seq(S) /\ Len(c) = Cardinality(S) /\ DOMAIN c = 1 .. Cardinality(S)
  BY <1>0, <1>2, <1>3
<1>5. Increasing(c)
  <2> SUFFICES ASSUME NEW j \in 1 .. Cardinality(S), NEW k \in 1 .. Cardinality(S), j < k
               PROVE  c[j] < c[k]
    BY <1>4 DEF Increasing
  <2>1. c[j] \in S /\ c[k] \in S /\ Below(S, c[j]) = j - 1 /\ Below(S, c[k]) = k - 1
    BY <1>3
  <2>2. c[k] < c[j] => k - 1 < j - 1
    BY <2>1, BelowOrders
  <2>3. c[j] = c[k] => j - 1 = k - 1
    BY <2>1
  <2>4. c[j] \in Nat /\ c[k] \in Nat
    BY <1>0, <2>1, Zenon
  <2>5. ~(c[k] < c[j]) /\ c[j] # c[k]
    BY <1>0, <2>2, <2>3
  <2> QED
    BY <2>4, <2>5
<1>6. ASSUME NEW i \in S PROVE \E k \in 1 .. Cardinality(S) : c[k] = i
  <2>1. PICK k \in 1 .. Cardinality(S) : Below(S, i) = k - 1
    <3>1. Below(S, i) \in 0 .. (Cardinality(S) - 1)
      BY BelowOrders
    <3>2. Below(S, i) + 1 \in 1 .. Cardinality(S) /\ Below(S, i) = (Below(S, i) + 1) - 1
      BY <1>0, <3>1
    <3> QED
      BY <3>2
  <2>2. c[k] \in S /\ Below(S, c[k]) = k - 1 /\ k - 1 \in Nat
    BY <1>3
  <2>3. i < c[k] => k - 1 < k - 1
    BY <2>1, <2>2, BelowOrders
  <2>4. c[k] < i => k - 1 < k - 1
    BY <2>1, <2>2, BelowOrders
  <2>5. c[k] \in Nat /\ i \in Nat
    BY <1>0, <2>2, Zenon
  <2>6. c[k] = i
    BY <2>3, <2>4, <2>5
  <2> QED
    BY <2>6
<1> QED
  BY <1>1, <1>4, <1>5, <1>6

\* A page: the first hits, as many as the limit allows.
FirstOf(hits, limit) == SubSeq(hits, 1, IF Len(hits) > limit THEN limit ELSE Len(hits))

LEMMA PageIsFirst ==
    ASSUME NEW S \in SUBSET Nat, IsFiniteSet(S), NEW limit \in Nat \ {0},
           NEW hits, hits = Moderation!Sorted(S),
           NEW page, page = FirstOf(hits, limit)
    PROVE  /\ page \in Seq(S)
           /\ Increasing(page)
           /\ Len(hits) > limit =>
                page # <<>> /\ \A i \in S : i \in InSeq(page) \/ i > Final(page)
           /\ ~(Len(hits) > limit) => S \subseteq InSeq(page)
<1>0. Cardinality(S) \in Nat
  BY FS_CardinalityType
<1>1. /\ hits \in Seq(S) /\ Len(hits) = Cardinality(S) /\ Increasing(hits)
      /\ \A i \in S : \E k \in 1 .. Cardinality(S) : hits[k] = i
  BY SortedIsSorted
<1> DEFINE n == IF Len(hits) > limit THEN limit ELSE Len(hits)
<1>2. n \in Nat /\ n <= Len(hits) /\ Len(hits) \in Nat
  BY <1>0, <1>1
<1>3. page \in Seq(S) /\ Len(page) = n /\ \A k \in 1 .. n : page[k] = hits[k] /\ page[k] \in S
  BY <1>1, <1>2 DEF FirstOf
<1>4. DOMAIN page = 1 .. n /\ DOMAIN hits = 1 .. Len(hits)
  BY <1>1, <1>3
<1>5. Increasing(page)
  BY <1>1, <1>2, <1>3, <1>4 DEF Increasing
<1>6. ASSUME Len(hits) > limit
      PROVE  page # <<>> /\ \A i \in S : i \in InSeq(page) \/ i > Final(page)
  <2>1. n = limit /\ n > 0 /\ Final(page) = hits[n]
    BY <1>3, <1>6 DEF Final
  <2>2. page # <<>>
    BY <1>3, <2>1
  <2>3. ASSUME NEW i \in S, i \notin InSeq(page) PROVE i > Final(page)
    <3>1. PICK k \in 1 .. Len(hits) : hits[k] = i
      BY <1>1
    <3>2. k \notin 1 .. n
      BY <1>3, <1>4, <2>3, <3>1 DEF InSeq
    <3>3. n < k /\ n \in 1 .. Len(hits)
      BY <1>2, <2>1, <3>2
    <3>4. hits[n] < hits[k]
      BY <1>1, <1>4, <3>3 DEF Increasing
    <3>5. hits[n] \in S /\ hits[k] \in S /\ \A s \in S : s \in Nat
      BY <1>1, <3>3
    <3> QED
      BY <2>1, <3>1, <3>4, <3>5
  <2> QED
    BY <2>2, <2>3
<1>7. ASSUME ~(Len(hits) > limit) PROVE S \subseteq InSeq(page)
  BY <1>1, <1>3, <1>4, <1>7 DEF InSeq
<1> QED
  BY <1>3, <1>5, <1>6, <1>7

\* The next page is appended to what the client has been shown.
LEMMA PagesAppend ==
    ASSUME NEW c \in Seq(IDs), NEW h \in Seq(IDs), IDs \subseteq Nat, Increasing(c), Increasing(h),
           NEW a \in Nat, \A i \in InSeq(c) : i <= a, \A i \in InSeq(h) : i > a
    PROVE  /\ c \o h \in Seq(IDs)
           /\ Increasing(c \o h)
           /\ InSeq(c \o h) = InSeq(c) \union InSeq(h)
           /\ h # <<>> => c \o h # <<>> /\ Final(c \o h) = Final(h)
<1>1. /\ c \o h \in Seq(IDs) /\ Len(c \o h) = Len(c) + Len(h) /\ Len(c) \in Nat /\ Len(h) \in Nat
      /\ DOMAIN c = 1 .. Len(c) /\ DOMAIN h = 1 .. Len(h) /\ DOMAIN (c \o h) = 1 .. (Len(c) + Len(h))
  OBVIOUS
<1>2. /\ \A k \in 1 .. Len(c) : (c \o h)[k] = c[k]
      /\ \A k \in 1 .. Len(h) : (c \o h)[Len(c) + k] = h[k]
  OBVIOUS
<1>3. PICK d : d = c \o h
  OBVIOUS
<1>4. \A k \in 1 .. (Len(c) + Len(h)) :
         \/ k \in 1 .. Len(c) /\ d[k] = c[k]
         \/ \E m \in 1 .. Len(h) : k = Len(c) + m /\ d[k] = h[m]
  <2> SUFFICES ASSUME NEW k \in 1 .. (Len(c) + Len(h)), k \notin 1 .. Len(c)
               PROVE  \E m \in 1 .. Len(h) : k = Len(c) + m /\ d[k] = h[m]
    BY <1>2, <1>3
  <2>1. k - Len(c) \in 1 .. Len(h) /\ k = Len(c) + (k - Len(c))
    BY <1>1
  <2> QED
    BY <1>2, <1>3, <2>1
<1>5. /\ \A k \in 1 .. Len(c) : c[k] \in Nat /\ c[k] <= a
      /\ \A k \in 1 .. Len(h) : h[k] \in Nat /\ h[k] > a
  <2>1. /\ \A k \in 1 .. Len(c) : c[k] \in IDs /\ c[k] \in InSeq(c)
        /\ \A k \in 1 .. Len(h) : h[k] \in IDs /\ h[k] \in InSeq(h)
    BY <1>1 DEF InSeq
  <2> QED
    BY <2>1
<1>6. Increasing(d)
  <2> SUFFICES ASSUME NEW j \in 1 .. (Len(c) + Len(h)), NEW k \in 1 .. (Len(c) + Len(h)), j < k
               PROVE  d[j] < d[k]
    BY <1>1, <1>3 DEF Increasing
  <2>1. CASE k \in 1 .. Len(c)
    <3>1. j \in 1 .. Len(c)
      BY <1>1, <2>1
    <3> QED
      BY <1>1, <1>2, <1>3, <2>1, <3>1 DEF Increasing
  <2>2. CASE k \notin 1 .. Len(c)
    <3>1. PICK m \in 1 .. Len(h) : k = Len(c) + m /\ d[k] = h[m]
      BY <1>4, <2>2
    <3>2. CASE j \in 1 .. Len(c)
      BY <1>2, <1>3, <1>5, <3>1, <3>2
    <3>3. CASE j \notin 1 .. Len(c)
      <4>1. PICK l \in 1 .. Len(h) : j = Len(c) + l /\ d[j] = h[l]
        BY <1>4, <3>3
      <4>2. l < m
        BY <1>1, <3>1, <4>1
      <4> QED
        BY <1>1, <3>1, <4>1, <4>2 DEF Increasing
    <3> QED
      BY <3>2, <3>3
  <2> QED
    BY <2>1, <2>2
<1>7. InSeq(d) = InSeq(c) \union InSeq(h)
  <2>1. InSeq(d) \subseteq InSeq(c) \union InSeq(h)
    BY <1>1, <1>3, <1>4 DEF InSeq
  <2>2. InSeq(c) \subseteq InSeq(d)
    BY <1>1, <1>2, <1>3 DEF InSeq
  <2>3. InSeq(h) \subseteq InSeq(d)
    <3> SUFFICES ASSUME NEW k \in 1 .. Len(h) PROVE h[k] \in InSeq(d)
      BY <1>1 DEF InSeq
    <3>1. Len(c) + k \in DOMAIN d /\ d[Len(c) + k] = h[k]
      BY <1>1, <1>2, <1>3
    <3> QED
      BY <3>1 DEF InSeq
  <2> QED
    BY <2>1, <2>2, <2>3
<1>8. h # <<>> => d # <<>> /\ Final(d) = Final(h)
  <2> SUFFICES ASSUME h # <<>> PROVE d # <<>> /\ Final(d) = Final(h)
    OBVIOUS
  <2>1. Len(h) \in 1 .. Len(h)
    BY <1>1
  <2>2. Len(d) = Len(c) + Len(h) /\ d[Len(c) + Len(h)] = h[Len(h)]
    BY <1>1, <1>2, <1>3, <2>1
  <2> QED
    BY <1>1, <2>1, <2>2 DEF Final
<1> QED
  BY <1>1, <1>3, <1>6, <1>7, <1>8

LEMMA SearchBegins ==
    ASSUME Moderation!ModerationAssumption
    PROVE  Moderation!Init => SearchInv
<1> SUFFICES ASSUME Moderation!Init PROVE SearchInv
  OBVIOUS
<1>1. SearchTypes
  BY DEF Moderation!Init, SearchTypes, Answers, Moderation!Codes
<1>2. ASSUME NEW r \in Requests PROVE CallHolds(r) /\ PagesHold(r)
  <2>1. /\ pc[r] = "idle" /\ call[r] = [op |-> "none"] /\ base[r] = {} /\ collected[r] = <<>>
        /\ result[r] = [code |-> "none", hits |-> <<>>, truncated |-> FALSE]
    BY DEF Moderation!Init, Moderation!NoCall, Moderation!NoResult
  <2>2. Increasing(collected[r])
    BY <2>1 DEF Increasing
  <2> QED
    BY <2>1, <2>2 DEF CallHolds, PagesHold, Moderation!Codes
<1> QED
  BY <1>1, <1>2 DEF SearchInv

\* Stored records stay as they are.
StoreStays == \A i \in DOMAIN records : i \in DOMAIN records' /\ records'[i] = records[i]

LEMMA MatchesStay ==
    ASSUME StoreStays, NEW S, NEW s, AreMatches(S, s)
    PROVE  AreMatches(S, s)'
<1> SUFFICES ASSUME NEW i \in S PROVE i \in DOMAIN records' /\ Moderation!Matches(records'[i], s)
  BY DEF AreMatches
<1>1. i \in DOMAIN records /\ Moderation!Matches(records[i], s)
  BY DEF AreMatches
<1> QED
  BY <1>1 DEF StoreStays

\* A request that does not take the step.
LEMMA ReaderKeeps ==
    ASSUME SearchInv, StoreStays, NEW q \in Requests,
           pc'[q] = pc[q], call'[q] = call[q], draft'[q] = draft[q], result'[q] = result[q],
           outcome'[q] = outcome[q], snapshot'[q] = snapshot[q], base'[q] = base[q],
           collected'[q] = collected[q]
    PROVE  CallHolds(q)' /\ PagesHold(q)'
<1>0. CallHolds(q) /\ PagesHold(q)
  BY DEF SearchInv
<1>1. CallHolds(q)'
  BY <1>0 DEF CallHolds
<1>2. call[q].op = "search" => AreMatches(InSeq(collected[q]) \union base[q], call[q].search)'
  <2>1. PICK S, s : S = InSeq(collected[q]) \union base[q] /\ s = call[q].search
    OBVIOUS
  <2>2. call[q].op = "search" => AreMatches(S, s)'
    BY <1>0, <2>1, MatchesStay DEF PagesHold
  <2> QED
    BY <2>1, <2>2 DEF AreMatches
<1>3. pc[q] = "respond" /\ call[q].op = "search" /\ result[q].code = "ok" =>
         AreMatches(InSeq(result[q].hits), call[q].search)'
  <2>1. PICK S, s : S = InSeq(result[q].hits) /\ s = call[q].search
    OBVIOUS
  <2>2. pc[q] = "respond" /\ call[q].op = "search" /\ result[q].code = "ok" => AreMatches(S, s)'
    BY <1>0, <2>1, MatchesStay DEF PagesHold
  <2> QED
    BY <2>1, <2>2 DEF AreMatches
<1>4. pc[q] = "scan" => snapshot[q] \subseteq DOMAIN records'
  BY <1>0 DEF PagesHold, StoreStays
<1>5. PagesHold(q)'
  BY <1>0, <1>2, <1>3, <1>4 DEF PagesHold
<1> QED
  BY <1>1, <1>5

\* What the other requests keep of their searches.
ReadersKeep(r) ==
    \A q \in Requests \ {r} :
        snapshot'[q] = snapshot[q] /\ base'[q] = base[q] /\ collected'[q] = collected[q]

LEMMA SearchStepOf ==
    ASSUME SearchInv, StoreStays, NEW r \in Requests, StepOf(r), ReadersKeep(r), SearchTypes',
           CallHolds(r)', PagesHold(r)'
    PROVE  SearchInv'
<1>1. \A q \in Requests \ {r} : CallHolds(q)' /\ PagesHold(q)'
  BY ReaderKeeps DEF StepOf, CallersKeep, ReadersKeep
<1> QED
  BY <1>1 DEF SearchInv

\* The service returns an error: nothing was shown.
LEMMA SearchFails ==
    ASSUME ModerationInv, SearchInv, NEW r \in Requests,
           NEW code \in Moderation!Codes \ {"ok"}, Moderation!Fail(r, code),
           pc[r] \notin {"idle", "respond", "answered"}
    PROVE  SearchInv'
<1>0. /\ ModerationTypes /\ RequestHolds(r) /\ SearchTypes /\ CallHolds(r) /\ PagesHold(r)
  BY DEF ModerationInv, SearchInv
<1>1. /\ pc' = [pc EXCEPT ![r] = "respond"]
      /\ result' = [result EXCEPT ![r] = [code |-> code, hits |-> <<>>, truncated |-> FALSE]]
      /\ draft' = [draft EXCEPT ![r] = Moderation!NoDraft]
      /\ snapshot' = [snapshot EXCEPT ![r] = {}]
      /\ UNCHANGED <<call, ended, outcome, base, collected, records>>
  BY DEF Moderation!Fail, Moderation!Return, Moderation!Goto
<1>2. StepOf(r) /\ StoreStays /\ ReadersKeep(r)
  BY <1>0, <1>1 DEF ModerationTypes, SearchTypes, StepOf, CallersKeep, StoreStays, ReadersKeep
<1>3. SearchTypes'
  BY <1>0, <1>1 DEF SearchTypes
<1>4. /\ pc'[r] = "respond" /\ result'[r].code = code /\ result'[r].hits = <<>>
      /\ call'[r] = call[r] /\ base'[r] = base[r] /\ collected'[r] = collected[r]
  BY <1>0, <1>1 DEF ModerationTypes
<1>5. CallHolds(r)'
  BY <1>0, <1>4 DEF CallHolds
<1>6. call[r].op = "search" => UpTo(collected[r], base[r], call[r].search.after)
  <2>1. call[r].op = "search" => pc[r] \in {"search", "snapshot", "scan"}
    BY <1>0 DEF RequestHolds, ModerationTypes
  <2> QED
    BY <1>0, <2>1 DEF PagesHold
<1>7. PagesHold(r)'
  <2>1. AreMatches(InSeq(collected[r]) \union base[r], call[r].search)' <=>
          AreMatches(InSeq(collected[r]) \union base[r], call[r].search)
    BY <1>1 DEF AreMatches
  <2> QED
    BY <1>0, <1>4, <1>6, <2>1 DEF PagesHold
<1> QED
  BY <1>2, <1>3, <1>5, <1>7, SearchStepOf

\* A step of a request that does not search.
LEMMA OtherStep ==
    ASSUME SearchInv, StoreStays, NEW r \in Requests, StepOf(r),
           UNCHANGED <<ended, snapshot, outcome, base, collected>>,
           DOMAIN records' \subseteq IDs, \A i \in DOMAIN records' : records'[i].outcome \in Routes,
           call[r].op # "search", call'[r].op # "search",
           pc'[r] \notin {"search", "snapshot", "scan"}, CallHolds(r)'
    PROVE  SearchInv'
<1>0. SearchTypes /\ PagesHold(r)
  BY DEF SearchInv
<1>1. SearchTypes' /\ ReadersKeep(r)
  BY <1>0 DEF SearchTypes, ReadersKeep
<1>2. collected'[r] = <<>> /\ base'[r] = {}
  BY <1>0 DEF PagesHold
<1>3. Increasing(collected[r])'
  BY <1>2 DEF Increasing
<1>4. PagesHold(r)'
  BY <1>2, <1>3 DEF PagesHold
<1> QED
  BY <1>1, <1>4, SearchStepOf

LEMMA CreateArrives ==
    ASSUME Moderation!ModerationAssumption, ModerationInv, SearchInv, NEW r \in Requests,
           \/ \E s \in Submissions : Moderation!ArriveCreate(r, s)
           \/ \E i \in IDs : Moderation!ArriveGet(r, i)
    PROVE  SearchInv'
<1>0. ModerationTypes /\ SearchTypes /\ CallHolds(r)
  BY DEF ModerationInv, SearchInv
<1>1. ASSUME NEW label \in {"create", "get"}, NEW c, c.op = label, c.id \in IDs, pc[r] = "idle",
             pc' = [pc EXCEPT ![r] = label], call' = [call EXCEPT ![r] = c],
             UNCHANGED <<ended, draft, snapshot, result, outcome, base, collected, records>>
      PROVE  SearchInv'
  <2>1. StepOf(r) /\ pc'[r] = label /\ call'[r] = c /\ StoreStays
    BY <1>0, <1>1 DEF ModerationTypes, StepOf, CallersKeep, StoreStays
  <2>2. call[r].op # "search" /\ CallHolds(r)'
    BY <1>0, <1>1, <2>1 DEF CallHolds
  <2> QED
    BY <1>0, <1>1, <2>1, <2>2, OtherStep DEF SearchTypes
<1>2. ASSUME NEW s \in Submissions, Moderation!ArriveCreate(r, s) PROVE SearchInv'
  <2>1. PICK c : c = [op |-> "create", id |-> s.id, content |-> s.content, metadata |-> s.metadata]
    OBVIOUS
  <2>2. c.op = "create" /\ c.id \in IDs
    BY <2>1 DEF Moderation!ModerationAssumption
  <2>3. call' = [call EXCEPT ![r] = c]
    BY <1>2, <2>1, Zenon DEF Moderation!ArriveCreate
  <2> QED
    BY <1>1, <1>2, <2>2, <2>3 DEF Moderation!ArriveCreate, Moderation!Goto
<1>3. ASSUME NEW i \in IDs, Moderation!ArriveGet(r, i) PROVE SearchInv'
  <2>1. PICK c : c = [op |-> "get", id |-> i]
    OBVIOUS
  <2>2. c.op = "get" /\ c.id \in IDs
    BY <2>1
  <2>3. call' = [call EXCEPT ![r] = c]
    BY <1>3, <2>1, Zenon DEF Moderation!ArriveGet
  <2> QED
    BY <1>1, <1>3, <2>2, <2>3 DEF Moderation!ArriveGet, Moderation!Goto
<1> QED
  BY <1>2, <1>3

\* The steps of Create and Get that do not fail.
LEMMA CreateAdvances ==
    ASSUME ModerationInv, SearchInv, NEW r \in Requests, call[r].op # "search",
           NEW label \in {"route", "moderate", "terms", "commit"},
           Moderation!Continue(r, label), snapshot' = snapshot,
           DOMAIN draft' = Requests, \A q \in Requests \ {r} : draft'[q] = draft[q],
           label = "commit" => draft'[r].outcome \in Routes
    PROVE  SearchInv'
<1>0. ModerationTypes /\ SearchTypes /\ CallHolds(r)
  BY DEF ModerationInv, SearchInv
<1>1. /\ pc' = [pc EXCEPT ![r] = label]
      /\ UNCHANGED <<call, ended, result, outcome, base, collected, records>>
  BY DEF Moderation!Continue, Moderation!Goto
<1>2. StepOf(r) /\ pc'[r] = label /\ StoreStays
  BY <1>0, <1>1 DEF ModerationTypes, StepOf, CallersKeep, StoreStays
<1>3. CallHolds(r)'
  BY <1>0, <1>1, <1>2 DEF CallHolds
<1> QED
  BY <1>0, <1>1, <1>2, <1>3, OtherStep DEF SearchTypes

LEMMA CreatePrepares ==
    ASSUME ModerationInv, SearchInv, NEW r \in Requests,
           \/ Moderation!ValidateCreate(r)
           \/ Moderation!DetectAndRoute(r)
           \/ Moderation!Moderate(r)
           \/ Moderation!PrepareTerms(r)
    PROVE  SearchInv'
<1>0. ModerationTypes /\ RequestHolds(r) /\ CallHolds(r)
  BY DEF ModerationInv, SearchInv
<1>1. CASE Moderation!ValidateCreate(r)
  <2>1. pc[r] = "create" /\ call[r].op # "search"
    BY <1>0, <1>1 DEF Moderation!ValidateCreate, RequestHolds
  <2>2. CASE Moderation!Fail(r, "invalid_request")
    BY <2>1, <2>2, SearchFails DEF Moderation!Codes
  <2>3. CASE Moderation!Continue(r, "route") /\ draft' = draft /\ snapshot' = snapshot
    BY <1>0, <2>1, <2>3, CreateAdvances DEF ModerationTypes
  <2> QED
    BY <1>1, <2>2, <2>3 DEF Moderation!ValidateCreate
<1>2. CASE Moderation!DetectAndRoute(r)
  <2> DEFINE label == IF Moderation!ReviewReasons(call[r].content) = {} THEN "moderate" ELSE "commit"
  <2>1. /\ pc[r] = "route" /\ Moderation!Continue(r, label) /\ snapshot' = snapshot
        /\ draft' = [draft EXCEPT ![r] = Prepared(r, "manual-review")]
    BY <1>2 DEF Moderation!DetectAndRoute, Prepared
  <2>2. /\ DOMAIN draft' = Requests /\ draft'[r] = Prepared(r, "manual-review")
        /\ \A q \in Requests \ {r} : draft'[q] = draft[q]
    BY <1>0, <2>1 DEF ModerationTypes
  <2>3. draft'[r].outcome \in Routes
    BY <2>2 DEF Prepared, Routes
  <2>4. call[r].op # "search" /\ label \in {"route", "moderate", "terms", "commit"}
    BY <1>0, <2>1 DEF RequestHolds
  <2> QED
    BY <2>1, <2>2, <2>3, <2>4, CreateAdvances
<1>3. CASE Moderation!Moderate(r)
  <2>1. PICK route : draft' = [draft EXCEPT ![r].outcome = route]
    BY <1>3 DEF Moderation!Moderate
  <2>2. pc[r] = "moderate" /\ Moderation!Continue(r, "terms") /\ snapshot' = snapshot
    BY <1>3 DEF Moderation!Moderate
  <2>3. DOMAIN draft' = Requests /\ \A q \in Requests \ {r} : draft'[q] = draft[q]
    BY <1>0, <2>1 DEF ModerationTypes
  <2>4. call[r].op # "search"
    BY <1>0, <2>2 DEF RequestHolds
  <2> QED
    BY <2>2, <2>3, <2>4, CreateAdvances
<1>4. CASE Moderation!PrepareTerms(r)
  <2>1. /\ pc[r] = "terms" /\ Moderation!Continue(r, "commit") /\ snapshot' = snapshot
        /\ draft' = [draft EXCEPT ![r].terms = call[r].content.terms]
    BY <1>4 DEF Moderation!PrepareTerms
  <2>2. PICK route \in {"allowed", "masked"} : draft[r] = Prepared(r, route)
    BY <1>0, <2>1 DEF RequestHolds
  <2>3. /\ DOMAIN draft' = Requests
        /\ draft'[r] = [draft[r] EXCEPT !.terms = call[r].content.terms]
        /\ \A q \in Requests \ {r} : draft'[q] = draft[q]
    BY <1>0, <2>1 DEF ModerationTypes
  <2>4. draft'[r].outcome \in Routes
    BY <2>2, <2>3 DEF Prepared, Routes
  <2>5. call[r].op # "search"
    BY <1>0, <2>1 DEF RequestHolds
  <2> QED
    BY <2>1, <2>3, <2>4, <2>5, CreateAdvances
<1> QED
  BY <1>1, <1>2, <1>3, <1>4

\* The critical section of Create.
LEMMA CreateCommits ==
    ASSUME ModerationInv, SearchInv, NEW r \in Requests, Moderation!CommitRecord(r)
    PROVE  SearchInv'
<1>0. /\ ModerationTypes /\ SearchTypes /\ RequestHolds(r) /\ CallHolds(r) /\ pc[r] = "commit"
      /\ call[r].op = "create"
  BY DEF ModerationInv, SearchInv, Moderation!CommitRecord, RequestHolds
<1>1. ASSUME NEW code \in {"duplicate_content_id", "store_capacity_reached"},
             Moderation!Fail(r, code)
      PROVE  SearchInv'
  BY <1>0, <1>1, SearchFails DEF Moderation!Codes
<1>2. ASSUME ~Moderation!Fail(r, "duplicate_content_id"),
             ~Moderation!Fail(r, "store_capacity_reached")
      PROVE  SearchInv'
  <2> DEFINE id == call[r].id
  <2>1. /\ id \notin DOMAIN records
        /\ records' = [i \in DOMAIN records \union {id} |-> IF i = id THEN draft[r] ELSE records[i]]
        /\ Moderation!Return(r, "ok", <<>>, FALSE) /\ draft' = draft /\ snapshot' = snapshot
    BY <1>2 DEF Moderation!CommitRecord
  <2>2. /\ DOMAIN records' = DOMAIN records \union {id} /\ records'[id] = draft[r]
        /\ \A i \in DOMAIN records : records'[i] = records[i]
    BY <2>1
  <2>3. /\ StepOf(r) /\ pc'[r] = "respond" /\ call' = call
        /\ result'[r] = [code |-> "ok", hits |-> <<>>, truncated |-> FALSE]
        /\ UNCHANGED <<ended, outcome, base, collected>>
    BY <1>0, <2>1 DEF Moderation!Return, Moderation!Goto, ModerationTypes, StepOf, CallersKeep
  <2>4. result'[r].code = "ok" /\ result'[r].hits = <<>>
    BY <2>3
  <2>5. StoreStays /\ DOMAIN records' \subseteq IDs
    BY <1>0, <2>2 DEF StoreStays, SearchTypes, CallHolds
  <2>6. \A i \in DOMAIN records' : records'[i].outcome \in Routes
    BY <1>0, <2>2 DEF SearchTypes, CallHolds
  <2>7. CallHolds(r)'
    BY <1>0, <2>3, <2>4 DEF CallHolds, Moderation!Codes
  <2> QED
    BY <1>0, <2>1, <2>3, <2>5, <2>6, <2>7, OtherStep
<1> QED
  BY <1>1, <1>2

LEMMA GetReads ==
    ASSUME ModerationInv, SearchInv, NEW r \in Requests, Moderation!Get(r)
    PROVE  SearchInv'
<1>0. /\ ModerationTypes /\ SearchTypes /\ RequestHolds(r) /\ CallHolds(r) /\ pc[r] = "get"
      /\ call[r].op = "get"
  BY DEF ModerationInv, SearchInv, Moderation!Get, RequestHolds
<1>1. CASE Moderation!Fail(r, "record_not_found")
  BY <1>0, <1>1, SearchFails DEF Moderation!Codes
<1>2. CASE ~Moderation!Fail(r, "record_not_found")
  <2>1. /\ Moderation!Return(r, "ok", <<>>, FALSE) /\ UNCHANGED <<draft, snapshot, records>>
    BY <1>2 DEF Moderation!Get
  <2>2. /\ StepOf(r) /\ pc'[r] = "respond" /\ call' = call /\ StoreStays
        /\ result'[r] = [code |-> "ok", hits |-> <<>>, truncated |-> FALSE]
        /\ UNCHANGED <<ended, outcome, base, collected>>
    BY <1>0, <2>1 DEF Moderation!Return, Moderation!Goto, ModerationTypes, StepOf, CallersKeep,
                      StoreStays
  <2>3. result'[r].code = "ok" /\ result'[r].hits = <<>>
    BY <2>2
  <2>4. CallHolds(r)'
    BY <1>0, <2>2, <2>3 DEF CallHolds, Moderation!Codes
  <2> QED
    BY <1>0, <2>1, <2>2, <2>4, OtherStep DEF SearchTypes
<1> QED
  BY <1>1, <1>2

\* The first page: what matches now is what the client must be shown.
LEMMA SearchArrives ==
    ASSUME Moderation!ModerationAssumption, ModerationInv, SearchInv, NEW r \in Requests,
           NEW s \in Searches, Moderation!ArriveSearch(r, s)
    PROVE  SearchInv'
<1>0. /\ ModerationTypes /\ SearchTypes /\ CallHolds(r) /\ PagesHold(r)
  BY DEF ModerationInv, SearchInv
<1>1. PICK matched : matched = {i \in DOMAIN records : i > s.after /\ Moderation!Matches(records[i], s)}
  OBVIOUS
<1>2. /\ pc[r] = "idle"
      /\ pc' = [pc EXCEPT ![r] = "search"]
      /\ call' = [call EXCEPT ![r] = [op |-> "search", search |-> s]]
      /\ base' = [base EXCEPT ![r] = matched]
      /\ UNCHANGED <<ended, draft, snapshot, result, outcome, collected, records>>
  BY <1>1, Zenon DEF Moderation!ArriveSearch, Moderation!Goto
<1>3. StepOf(r) /\ StoreStays /\ ReadersKeep(r)
  BY <1>0, <1>2 DEF ModerationTypes, SearchTypes, StepOf, CallersKeep, StoreStays, ReadersKeep
<1>4. SearchTypes'
  BY <1>0, <1>1, <1>2 DEF SearchTypes
<1>5. /\ pc'[r] = "search" /\ base'[r] = matched /\ collected'[r] = <<>>
      /\ call'[r] = [op |-> "search", search |-> s]
  BY <1>0, <1>2 DEF ModerationTypes, SearchTypes, CallHolds, PagesHold
<1>6. call'[r].op = "search" /\ call'[r].search = s
  BY <1>5
<1>7. CallHolds(r)'
  BY <1>0, <1>2, <1>5, <1>6 DEF CallHolds, Moderation!ModerationAssumption
<1>8. Increasing(collected'[r]) /\ InSeq(collected'[r]) = {}
  BY <1>5 DEF Increasing, InSeq
<1>9. AreMatches(matched, s)'
  BY <1>1, <1>2 DEF AreMatches
<1>10. UpTo(collected'[r], matched, s.after)
  BY <1>1, <1>5, <1>8 DEF UpTo
<1>11. PagesHold(r)'
  BY <1>5, <1>6, <1>8, <1>9, <1>10 DEF PagesHold
<1> QED
  BY <1>3, <1>4, <1>7, <1>11, SearchStepOf

\* A search goes on with the page it has to find.
LEMMA SearchAdvances ==
    ASSUME ModerationInv, SearchInv, NEW r \in Requests,
           \/ Moderation!ValidateSearch(r) /\ ~Moderation!Fail(r, "invalid_request")
           \/ Moderation!TakeSnapshot(r)
    PROVE  SearchInv'
<1>0. /\ ModerationTypes /\ SearchTypes /\ RequestHolds(r) /\ CallHolds(r) /\ PagesHold(r)
  BY DEF ModerationInv, SearchInv
<1>1. ASSUME NEW label \in {"snapshot", "scan"}, NEW ids \in SUBSET IDs,
             pc[r] \in {"search", "snapshot"},
             pc' = [pc EXCEPT ![r] = label],
             snapshot' = [snapshot EXCEPT ![r] = ids],
             UNCHANGED <<call, ended, draft, result, outcome, base, collected, records>>,
             Moderation!LimitOf(call[r].search) \in Nat \ {0},
             label = "scan" => ids = DOMAIN records
      PROVE  SearchInv'
  <2>2. StepOf(r) /\ StoreStays /\ ReadersKeep(r)
    BY <1>0, <1>1 DEF ModerationTypes, SearchTypes, StepOf, CallersKeep, StoreStays, ReadersKeep
  <2>3. SearchTypes'
    BY <1>0, <1>1 DEF SearchTypes
  <2>4. pc'[r] = label /\ snapshot'[r] = ids
    BY <1>0, <1>1 DEF ModerationTypes, SearchTypes
  <2>5. CallHolds(r)'
    BY <1>0, <1>1, <2>4 DEF CallHolds
  <2>6. call[r].op = "search" /\ UpTo(collected[r], base[r], call[r].search.after)
    BY <1>0, <1>1 DEF RequestHolds, PagesHold
  <2>7. AreMatches(InSeq(collected[r]) \union base[r], call[r].search)
    BY <1>0, <2>6 DEF PagesHold
  <2>8. base[r] \subseteq DOMAIN records
    BY <2>7 DEF AreMatches
  <2>9. AreMatches(InSeq(collected[r]) \union base[r], call[r].search)'
    BY <1>1, <2>7 DEF AreMatches
  <2>10. PagesHold(r)'
    BY <1>0, <1>1, <2>4, <2>6, <2>8, <2>9 DEF PagesHold
  <2> QED
    BY <2>2, <2>3, <2>5, <2>10, SearchStepOf
<1>2. CASE Moderation!ValidateSearch(r) /\ ~Moderation!Fail(r, "invalid_request")
  <2>1. /\ pc[r] = "search" /\ Moderation!LimitOf(call[r].search) \in 1 .. MaximumResults
        /\ pc' = [pc EXCEPT ![r] = "snapshot"]
        /\ UNCHANGED <<call, ended, draft, snapshot, result, outcome, base, collected, records>>
    BY <1>2 DEF Moderation!ValidateSearch, Moderation!Continue, Moderation!Goto
  <2>2. snapshot[r] \in SUBSET IDs /\ snapshot' = [snapshot EXCEPT ![r] = snapshot[r]]
    BY <1>0, <2>1 DEF SearchTypes
  <2>3. Moderation!LimitOf(call[r].search) \in Nat \ {0}
    BY <2>1
  <2> QED
    BY <1>1, <2>1, <2>2, <2>3
<1>3. CASE Moderation!TakeSnapshot(r)
  <2>1. /\ pc[r] = "snapshot"
        /\ pc' = [pc EXCEPT ![r] = "scan"]
        /\ snapshot' = [snapshot EXCEPT ![r] = DOMAIN records]
        /\ UNCHANGED <<call, ended, draft, result, outcome, base, collected, records>>
    BY <1>3 DEF Moderation!TakeSnapshot, Moderation!Continue, Moderation!Goto
  <2>2. Moderation!LimitOf(call[r].search) \in Nat \ {0} /\ DOMAIN records \in SUBSET IDs
    BY <1>0, <2>1 DEF SearchTypes, PagesHold
  <2> QED
    BY <1>1, <2>1, <2>2
<1> QED
  BY <1>2, <1>3

\* The page that the scan returns continues what the client has been shown.
LEMMA SearchScans ==
    ASSUME Moderation!ModerationAssumption, ModerationInv, SearchInv, NEW r \in Requests,
           Moderation!Scan(r)
    PROVE  SearchInv'
<1>0. /\ ModerationTypes /\ SearchTypes /\ RequestHolds(r) /\ CallHolds(r) /\ PagesHold(r)
      /\ pc[r] = "scan" /\ call[r].op = "search"
  BY DEF ModerationInv, SearchInv, RequestHolds, Moderation!Scan
<1>1. PICK s : s = call[r].search
  OBVIOUS
<1>2. PICK found : found = {i \in snapshot[r] : i > s.after /\ Moderation!Matches(records[i], s)}
  OBVIOUS
<1>3. PICK hits : hits = Moderation!Sorted(found)
  OBVIOUS
<1>3a. PICK limit : limit = Moderation!LimitOf(s)
  OBVIOUS
<1>4. PICK page : page = SubSeq(hits, 1, IF Len(hits) > limit THEN limit ELSE Len(hits))
  OBVIOUS
<1>5. PICK more : more = (Len(hits) > limit)
  OBVIOUS
<1>6. /\ Moderation!Return(r, "ok", page, more)
      /\ snapshot' = [snapshot EXCEPT ![r] = {}]
      /\ UNCHANGED <<draft, records>>
  BY <1>1, <1>2, <1>3, <1>3a, <1>4, <1>5, Zenon DEF Moderation!Scan
<1>7. /\ pc' = [pc EXCEPT ![r] = "respond"]
      /\ result' = [result EXCEPT ![r] = [code |-> "ok", hits |-> page, truncated |-> more]]
      /\ UNCHANGED <<call, ended, outcome, base, collected>>
  BY <1>6, Zenon DEF Moderation!Return, Moderation!Goto
<1>8. /\ limit \in Nat \ {0} /\ IDs \subseteq Nat \ {0}
      /\ found \in SUBSET IDs /\ found \in SUBSET DOMAIN records
  BY <1>0, <1>1, <1>2, <1>3a DEF PagesHold, SearchTypes, Moderation!ModerationAssumption
<1>9. found \in SUBSET Nat /\ IsFiniteSet(found)
  BY <1>0, <1>8, FS_Subset DEF ModerationTypes
<1>10. /\ page \in Seq(found) /\ Increasing(page)
       /\ Len(hits) > limit =>
            page # <<>> /\ \A i \in found : i \in InSeq(page) \/ i > Final(page)
       /\ ~(Len(hits) > limit) => found \subseteq InSeq(page)
  <2>1. limit \in Nat \ {0}
    BY <1>8
  <2>2. page = FirstOf(hits, limit)
    BY <1>4, Zenon DEF FirstOf
  <2> QED
    BY <1>3, <1>9, <2>1, <2>2, PageIsFirst, Zenon
<1>11. InSeq(page) \subseteq found /\ page \in Seq(IDs)
  BY <1>8, <1>10 DEF InSeq
<1>12. UpTo(collected[r], base[r], s.after) /\ AreMatches(InSeq(collected[r]) \union base[r], s)
  BY <1>0, <1>1 DEF PagesHold
<1>13. \A i \in base[r] : i \in InSeq(collected[r]) \/ i \in found
  BY <1>0, <1>2, <1>12 DEF PagesHold, UpTo, AreMatches
<1>14. AreMatches(InSeq(page), s)
  BY <1>2, <1>8, <1>11 DEF AreMatches
<1>15. PageContinues(collected[r], base[r], s.after, page, more)
  <2>1. \A i \in InSeq(page) : i > s.after
    BY <1>2, <1>11
  <2>2. CASE Len(hits) > limit
    <3>1. more = TRUE
      BY <1>5, <2>2, Zenon
    <3>2. \A i \in base[r] : i \in InSeq(collected[r]) \/ i \in InSeq(page) \/ i > Final(page)
      BY <1>10, <1>13, <2>2
    <3> QED
      BY <1>10, <2>1, <2>2, <3>1, <3>2 DEF PageContinues
  <2>3. CASE ~(Len(hits) > limit)
    <3>1. more # TRUE
      BY <1>5, <2>3, Zenon
    <3>2. \A i \in base[r] : i \in InSeq(collected[r]) \/ i \in InSeq(page)
      BY <1>10, <1>13, <2>3
    <3> QED
      BY <1>10, <2>1, <3>1, <3>2 DEF PageContinues
  <2> QED
    BY <2>2, <2>3
<1>16. StepOf(r) /\ StoreStays /\ ReadersKeep(r)
  BY <1>0, <1>6, <1>7 DEF ModerationTypes, SearchTypes, StepOf, CallersKeep, StoreStays, ReadersKeep
<1>17. SearchTypes'
  BY <1>0, <1>6, <1>7 DEF SearchTypes
<1>18. pc'[r] = "respond" /\ result'[r] = [code |-> "ok", hits |-> page, truncated |-> more]
  BY <1>0, <1>7 DEF ModerationTypes
<1>19. result'[r].code = "ok" /\ result'[r].hits = page /\ result'[r].truncated = more
  BY <1>18
<1>20. CallHolds(r)'
  BY <1>0, <1>7, <1>11, <1>18, <1>19 DEF CallHolds, Moderation!Codes
<1>21. AreMatches(InSeq(page), s)' /\ AreMatches(InSeq(collected[r]) \union base[r], s)'
  <2>1. PICK S : S = InSeq(collected[r]) \union base[r]
    OBVIOUS
  <2>2. PICK P : P = InSeq(page)
    OBVIOUS
  <2>3. AreMatches(P, s)' /\ AreMatches(S, s)'
    BY <1>6, <1>12, <1>14, <2>1, <2>2 DEF AreMatches
  <2> QED
    BY <1>7, <2>1, <2>2, <2>3 DEF AreMatches
<1>22. PagesHold(r)'
  BY <1>0, <1>1, <1>7, <1>12, <1>15, <1>18, <1>19, <1>21 DEF PagesHold
<1> QED
  BY <1>16, <1>17, <1>20, <1>22, SearchStepOf

\* A search is answered with its page: it is appended to what the client has been shown.
LEMMA SearchAnswers ==
    ASSUME Moderation!ModerationAssumption, ModerationInv, SearchInv, NEW r \in Requests,
           Moderation!Respond(r), call[r].op = "search", Moderation!Answer(r) = "ok"
    PROVE  SearchInv'
<1>0. /\ ModerationTypes /\ SearchTypes /\ CallHolds(r) /\ PagesHold(r) /\ pc[r] = "respond"
  BY DEF ModerationInv, SearchInv, Moderation!Respond
<1>1. result[r].code = "ok"
  BY DEF Moderation!Answer
<1>2. PICK hits : hits = result[r].hits
  OBVIOUS
<1>3. PICK s : s = call[r].search
  OBVIOUS
<1>4. PICK shown : shown = collected[r]
  OBVIOUS
<1>5. /\ pc' = [pc EXCEPT ![r] = "answered"]
      /\ outcome' = [outcome EXCEPT ![r] = "ok"]
      /\ collected' = [collected EXCEPT ![r] = shown \o hits]
      /\ ended' = [ended EXCEPT ![r] = "no"]
      /\ UNCHANGED <<call, draft, snapshot, result, base, records>>
  BY <1>2, <1>4 DEF Moderation!Respond, Moderation!Goto
<1>6. /\ UpTo(shown, base[r], s.after) /\ Increasing(shown)
      /\ PageContinues(shown, base[r], s.after, hits, result[r].truncated)
      /\ AreMatches(InSeq(hits), s) /\ AreMatches(InSeq(shown) \union base[r], s)
  BY <1>0, <1>1, <1>2, <1>3, <1>4 DEF PagesHold
<1>7. /\ shown \in Seq(IDs) /\ hits \in Seq(IDs) /\ IDs \subseteq Nat /\ s.after \in Nat
  <2>0. shown \in Seq(IDs) /\ hits \in Seq(IDs)
    BY <1>0, <1>2, <1>4 DEF CallHolds, SearchTypes
  <2>1. s.after \in IDs \union {0}
    BY <1>0, <1>3 DEF CallHolds
  <2>2. IDs \subseteq Nat
    BY DEF Moderation!ModerationAssumption
  <2>3. PICK a : a = s.after
    OBVIOUS
  <2>4. a \in Nat
    <3>1. a \in IDs \/ a = 0
      BY <2>1, <2>3, Zenon
    <3>2. a \in IDs => a \in Nat
      BY <2>2, Zenon
    <3> QED
      BY <3>1, <3>2
  <2> QED
    BY <2>0, <2>2, <2>3, <2>4, Zenon
<1>8. PICK all : all = shown \o hits
  OBVIOUS
<1>9. /\ all \in Seq(IDs) /\ Increasing(all) /\ InSeq(all) = InSeq(shown) \union InSeq(hits)
      /\ hits # <<>> => all # <<>> /\ Final(all) = Final(hits)
  <2>1. PICK a : a = s.after
    OBVIOUS
  <2>2. a \in Nat /\ Increasing(shown) /\ Increasing(hits)
    BY <1>6, <1>7, <2>1 DEF PageContinues
  <2>3. (\A i \in InSeq(shown) : i <= a) /\ (\A i \in InSeq(hits) : i > a)
    BY <1>6, <2>1 DEF PageContinues, UpTo
  <2> QED
    BY <1>7, <1>8, <2>2, <2>3, PagesAppend, Zenon
<1>10. StepOf(r) /\ StoreStays /\ ReadersKeep(r)
  BY <1>0, <1>5 DEF ModerationTypes, SearchTypes, StepOf, CallersKeep, StoreStays, ReadersKeep
<1>11. SearchTypes'
  BY <1>0, <1>5, <1>8, <1>9 DEF SearchTypes, Answers, Moderation!Codes
<1>12. /\ pc'[r] = "answered" /\ outcome'[r] = "ok" /\ collected'[r] = all
       /\ call'[r] = call[r] /\ result'[r] = result[r] /\ base'[r] = base[r]
  BY <1>0, <1>5, <1>8 DEF ModerationTypes, SearchTypes
<1>13. CallHolds(r)'
  BY <1>0, <1>5, <1>12 DEF CallHolds
<1>14. AreMatches(InSeq(all) \union base[r], s)'
  BY <1>5, <1>6, <1>9 DEF AreMatches
<1>15. result[r].truncated = TRUE => hits # <<>> /\ all # <<>> /\ UpTo(all, base[r], Final(hits))
  <2> SUFFICES ASSUME result[r].truncated = TRUE
               PROVE  hits # <<>> /\ all # <<>> /\ UpTo(all, base[r], Final(hits))
    OBVIOUS
  <2>1. /\ hits # <<>> /\ all # <<>> /\ Final(all) = Final(hits)
        /\ \A i \in base[r] : i \in InSeq(shown) \/ i \in InSeq(hits) \/ i > Final(hits)
    BY <1>6, <1>9 DEF PageContinues
  <2>2. ASSUME NEW i \in InSeq(all) PROVE i <= Final(all)
    <3>1. /\ Len(all) \in Nat /\ DOMAIN all = 1 .. Len(all) /\ all # <<>>
          /\ \A k \in 1 .. Len(all) : all[k] \in IDs
      BY <1>9, <2>1
    <3>2. PICK k \in 1 .. Len(all) : i = all[k]
      BY <2>2, <3>1 DEF InSeq
    <3>3. Len(all) \in 1 .. Len(all)
      BY <3>1, <3>2
    <3>4. all[k] \in Nat /\ all[Len(all)] \in Nat
      BY <1>7, <3>1, <3>3
    <3>5. k = Len(all) \/ all[k] < all[Len(all)]
      <4>1. PICK n : n = Len(all)
        OBVIOUS
      <4>2. n \in Nat /\ k \in 1 .. n
        BY <3>1, <3>2, <4>1, Zenon
      <4>3. k = n \/ k < n
        BY <4>2
      <4>4. k \in DOMAIN all /\ n \in DOMAIN all
        BY <3>1, <3>2, <3>3, <4>1, Zenon
      <4> QED
        BY <1>9, <4>1, <4>3, <4>4, Zenon DEF Increasing
    <3> QED
      BY <3>2, <3>4, <3>5 DEF Final
  <2> QED
    BY <1>9, <2>1, <2>2 DEF UpTo
<1>16. result[r].truncated # TRUE => base[r] \subseteq InSeq(all)
  BY <1>6, <1>9 DEF PageContinues
<1>17. PagesHold(r)'
  BY <1>2, <1>3, <1>9, <1>12, <1>14, <1>15, <1>16 DEF PagesHold
<1> QED
  BY <1>10, <1>11, <1>13, <1>17, SearchStepOf

\* Any other answer shows nothing.
LEMMA OthersAreAnswered ==
    ASSUME ModerationInv, SearchInv, NEW r \in Requests, Moderation!Respond(r),
           ~(call[r].op = "search" /\ Moderation!Answer(r) = "ok")
    PROVE  SearchInv'
<1>0. /\ ModerationTypes /\ SearchTypes /\ CallHolds(r) /\ PagesHold(r) /\ pc[r] = "respond"
  BY DEF ModerationInv, SearchInv, Moderation!Respond
<1>1. PICK code : code = Moderation!Answer(r)
  OBVIOUS
<1>2. code \in Answers /\ (call[r].op = "search" => code # "ok")
  BY <1>0, <1>1 DEF Moderation!Answer, Answers, CallHolds
<1>3. /\ pc' = [pc EXCEPT ![r] = "answered"]
      /\ outcome' = [outcome EXCEPT ![r] = code]
      /\ result' = [result EXCEPT ![r] = [code |-> "none", hits |-> <<>>, truncated |-> FALSE]]
      /\ ended' = [ended EXCEPT ![r] = "no"]
      /\ UNCHANGED <<call, draft, snapshot, base, collected, records>>
  BY <1>1 DEF Moderation!Respond, Moderation!Goto, Moderation!NoResult
<1>4. StepOf(r) /\ StoreStays /\ ReadersKeep(r)
  BY <1>0, <1>3 DEF ModerationTypes, SearchTypes, StepOf, CallersKeep, StoreStays, ReadersKeep
<1>5. SearchTypes'
  BY <1>0, <1>2, <1>3 DEF SearchTypes
<1>6. /\ pc'[r] = "answered" /\ outcome'[r] = code
      /\ result'[r] = [code |-> "none", hits |-> <<>>, truncated |-> FALSE]
  BY <1>0, <1>3 DEF ModerationTypes, SearchTypes
<1>7. result'[r].code = "none" /\ result'[r].hits = <<>>
  BY <1>6
<1>8. CallHolds(r)'
  BY <1>0, <1>3, <1>6, <1>7 DEF CallHolds, Moderation!Codes
<1>9. AreMatches(InSeq(collected[r]) \union base[r], call[r].search)' <=>
        AreMatches(InSeq(collected[r]) \union base[r], call[r].search)
  BY <1>3 DEF AreMatches
<1>10. PagesHold(r)'
  BY <1>0, <1>2, <1>3, <1>6, <1>9 DEF PagesHold
<1> QED
  BY <1>4, <1>5, <1>8, <1>10, SearchStepOf

\* The client follows the cursor.
LEMMA SearchContinues ==
    ASSUME Moderation!ModerationAssumption, ModerationInv, SearchInv, NEW r \in Requests,
           Moderation!NextPage(r)
    PROVE  SearchInv'
<1>0. /\ ModerationTypes /\ SearchTypes /\ CallHolds(r) /\ PagesHold(r)
  BY DEF ModerationInv, SearchInv
<1>1. /\ pc[r] = "answered" /\ call[r].op = "search" /\ outcome[r] = "ok"
      /\ result[r].truncated = TRUE
  BY DEF Moderation!NextPage
<1>2. PICK last : last = Final(result[r].hits)
  OBVIOUS
<1>3. /\ pc' = [pc EXCEPT ![r] = "search"]
      /\ call' = [call EXCEPT ![r].search.after = last]
      /\ result' = [result EXCEPT ![r] = [code |-> "none", hits |-> <<>>, truncated |-> FALSE]]
      /\ outcome' = [outcome EXCEPT ![r] = "none"]
      /\ UNCHANGED <<ended, draft, snapshot, base, collected, records>>
  BY <1>2 DEF Moderation!NextPage, Moderation!Goto, Moderation!NoResult, Moderation!Last, Final
<1>4. UpTo(collected[r], base[r], last) /\ result[r].hits # <<>>
  BY <1>0, <1>1, <1>2 DEF PagesHold
<1>5. last \in IDs
  BY <1>0, <1>2, <1>4 DEF CallHolds, Final
<1>6. PICK s : s = [call[r].search EXCEPT !.after = last]
  OBVIOUS
<1>7. call[r] = [op |-> "search", search |-> call[r].search]
  BY <1>0, <1>1 DEF CallHolds
<1>8. /\ DOMAIN s = {"terms", "filter", "limit", "after"}
      /\ s.after = last /\ s.limit = call[r].search.limit
      /\ s.terms = call[r].search.terms /\ s.filter = call[r].search.filter
  BY <1>0, <1>1, <1>6 DEF CallHolds
<1>9. call'[r] = [op |-> "search", search |-> s]
  BY <1>0, <1>3, <1>6, <1>7 DEF ModerationTypes
<1>10. call'[r].op = "search" /\ call'[r].search = s
  BY <1>9
<1>11. StepOf(r) /\ StoreStays /\ ReadersKeep(r)
  BY <1>0, <1>3 DEF ModerationTypes, SearchTypes, StepOf, CallersKeep, StoreStays, ReadersKeep
<1>12. SearchTypes'
  BY <1>0, <1>3 DEF SearchTypes, Answers, Moderation!Codes
<1>13. /\ pc'[r] = "search"
       /\ result'[r] = [code |-> "none", hits |-> <<>>, truncated |-> FALSE]
  BY <1>0, <1>3 DEF ModerationTypes
<1>14. result'[r].code = "none" /\ result'[r].hits = <<>>
  BY <1>13
<1>15. CallHolds(r)'
  BY <1>0, <1>1, <1>5, <1>8, <1>9, <1>10, <1>13, <1>14 DEF CallHolds, Moderation!Codes
<1>16. AreMatches(InSeq(collected[r]) \union base[r], s)'
  <2>1. PICK S : S = InSeq(collected[r]) \union base[r]
    OBVIOUS
  <2>2. AreMatches(S, call[r].search)
    BY <1>0, <1>1, <2>1 DEF PagesHold
  <2>3. \A i \in S : i \in DOMAIN records /\ Moderation!Matches(records[i], s)
    BY <1>8, <2>2 DEF AreMatches, Moderation!Matches
  <2>4. AreMatches(S, s)'
    BY <1>3, <2>3 DEF AreMatches
  <2> QED
    BY <1>3, <2>1, <2>4 DEF AreMatches
<1>17. PagesHold(r)'
  BY <1>0, <1>3, <1>4, <1>8, <1>10, <1>13, <1>16 DEF PagesHold
<1> QED
  BY <1>11, <1>12, <1>15, <1>17, SearchStepOf

LEMMA ClientLeaves ==
    ASSUME ModerationInv, SearchInv, NEW r \in Requests, Moderation!Leave(r)
    PROVE  SearchInv'
<1>0. ModerationTypes /\ SearchTypes
  BY DEF ModerationInv, SearchInv
<1>1. /\ pc' = [pc EXCEPT ![r] = "idle"]
      /\ call' = [call EXCEPT ![r] = [op |-> "none"]]
      /\ draft' = [draft EXCEPT ![r] = Moderation!NoDraft]
      /\ result' = [result EXCEPT ![r] = [code |-> "none", hits |-> <<>>, truncated |-> FALSE]]
      /\ outcome' = [outcome EXCEPT ![r] = "none"]
      /\ base' = [base EXCEPT ![r] = {}]
      /\ collected' = [collected EXCEPT ![r] = <<>>]
      /\ UNCHANGED <<ended, snapshot, records>>
  BY DEF Moderation!Leave, Moderation!Goto, Moderation!NoCall, Moderation!NoResult
<1>2. StepOf(r) /\ StoreStays /\ ReadersKeep(r)
  BY <1>0, <1>1 DEF ModerationTypes, SearchTypes, StepOf, CallersKeep, StoreStays, ReadersKeep
<1>3. SearchTypes'
  BY <1>0, <1>1 DEF SearchTypes, Answers, Moderation!Codes
<1>4. /\ pc'[r] = "idle" /\ call'[r] = [op |-> "none"] /\ base'[r] = {} /\ collected'[r] = <<>>
      /\ result'[r] = [code |-> "none", hits |-> <<>>, truncated |-> FALSE]
  BY <1>0, <1>1 DEF ModerationTypes, SearchTypes
<1>5. result'[r].code = "none" /\ result'[r].hits = <<>>
  BY <1>4
<1>6. call'[r].op = "none"
  BY <1>4
<1>7. CallHolds(r)'
  BY <1>4, <1>5, <1>6 DEF CallHolds, Moderation!Codes
<1>8. Increasing(collected[r])'
  BY <1>4 DEF Increasing
<1>9. PagesHold(r)'
  BY <1>4, <1>6, <1>8 DEF PagesHold
<1> QED
  BY <1>2, <1>3, <1>7, <1>9, SearchStepOf

\* One step per action.
LEMMA SearchStep ==
    ASSUME Moderation!ModerationAssumption, ModerationInv, SearchInv,
           [Moderation!Next]_(Moderation!vars)
    PROVE  SearchInv'
<1>1. ASSUME NEW r \in Requests, NEW why \in {"deadline", "cancelled"}, Moderation!ContextEnds(r, why)
      PROVE  SearchInv'
  <2>0. ModerationTypes /\ SearchTypes /\ CallHolds(r) /\ PagesHold(r)
    BY DEF ModerationInv, SearchInv
  <2>1. /\ ended' = [ended EXCEPT ![r] = why]
        /\ UNCHANGED <<pc, call, draft, snapshot, result, outcome, base, collected, records>>
    BY <1>1 DEF Moderation!ContextEnds
  <2>2. SearchTypes' /\ StoreStays
    BY <2>0, <2>1 DEF SearchTypes, StoreStays
  <2>3. \A q \in Requests : CallHolds(q)' /\ PagesHold(q)'
    BY <2>1, <2>2, ReaderKeeps
  <2> QED
    BY <2>2, <2>3 DEF SearchInv
<1>2. CASE UNCHANGED Moderation!vars
  <2>1. UNCHANGED <<pc, call, ended, draft, snapshot, result, outcome, base, collected, records>>
    BY <1>2 DEF Moderation!vars, Moderation!requestVars
  <2>2. SearchTypes' /\ StoreStays
    BY <2>1 DEF SearchInv, SearchTypes, StoreStays
  <2>3. \A q \in Requests : CallHolds(q)' /\ PagesHold(q)'
    BY <2>1, <2>2, ReaderKeeps
  <2> QED
    BY <2>2, <2>3 DEF SearchInv
<1>3. ASSUME NEW r \in Requests, Moderation!CheckContext(r) \/ Moderation!WorkflowFails(r)
      PROVE  SearchInv'
  <2>1. /\ pc[r] \notin {"idle", "respond", "answered"}
        /\ Moderation!Fail(r, "context") \/ Moderation!Fail(r, "internal_error")
    BY <1>3 DEF Moderation!CheckContext, Moderation!WorkflowFails
  <2> QED
    BY <2>1, SearchFails DEF Moderation!Codes
<1>4. ASSUME NEW r \in Requests, Moderation!ValidateSearch(r) PROVE SearchInv'
  <2>1. CASE Moderation!Fail(r, "invalid_request")
    <3>1. pc[r] = "search"
      BY <1>4 DEF Moderation!ValidateSearch
    <3> QED
      BY <2>1, <3>1, SearchFails DEF Moderation!Codes
  <2> QED
    BY <1>4, <2>1, SearchAdvances
<1>5. ASSUME NEW r \in Requests, Moderation!Advance(r) PROVE SearchInv'
  BY <1>3, <1>4, <1>5, CreatePrepares, CreateCommits, GetReads, SearchAdvances, SearchScans,
     SearchAnswers, OthersAreAnswered, SearchContinues, ClientLeaves
  DEF Moderation!Advance
<1> QED
  BY <1>1, <1>2, <1>5, CreateArrives, SearchArrives DEF Moderation!Next

\* What the invariants say of the pages.
LEMMA SearchReports ==
    ASSUME Moderation!ModerationAssumption, ModerationInv, SearchInv
    PROVE  Moderation!PagesAreComplete
<1> SUFFICES ASSUME NEW r \in Requests
             PROVE  /\ Increasing(collected[r])
                    /\ \A i \in InSeq(collected[r]) :
                          /\ Moderation!Matches(records[i], call[r].search)
                          /\ Moderation!ReviewReasons(records[i].content) = {}
                    /\ collected[r] # <<>> =>
                          \A i \in base[r] : i <= Final(collected[r]) => i \in InSeq(collected[r])
                    /\ pc[r] = "answered" /\ call[r].op = "search" /\ outcome[r] = "ok"
                          /\ result[r].truncated # TRUE => base[r] \subseteq InSeq(collected[r])
  BY DEF Moderation!PagesAreComplete, Moderation!Shown, Moderation!Last, Increasing, InSeq, Final
<1>0. /\ ModerationTypes /\ RequestHolds(r) /\ SearchTypes /\ CallHolds(r) /\ PagesHold(r)
      /\ \A i \in DOMAIN records : Reviewed(records[i])
  BY DEF ModerationInv, SearchInv
<1>1. ASSUME NEW i \in InSeq(collected[r])
      PROVE  /\ Moderation!Matches(records[i], call[r].search)
             /\ Moderation!ReviewReasons(records[i].content) = {}
  <2>1. collected[r] # <<>>
    BY <1>1 DEF InSeq
  <2>2. i \in DOMAIN records /\ Moderation!Matches(records[i], call[r].search)
    BY <1>0, <2>1 DEF PagesHold, AreMatches
  <2>3. records[i].outcome # "manual-review"
    BY <2>2 DEF Moderation!Matches
  <2> QED
    BY <1>0, <2>2, <2>3 DEF Reviewed
<1>2. ASSUME collected[r] # <<>>, NEW i \in base[r], i <= Final(collected[r])
      PROVE  i \in InSeq(collected[r])
  <2>1. call[r].op = "search"
    BY <1>0, <1>2 DEF PagesHold
  <2>2. pc[r] \in {"search", "snapshot", "scan", "respond", "answered"}
    BY <1>0, <2>1 DEF RequestHolds, CallHolds, ModerationTypes
  <2>3. \/ \E cursor : UpTo(collected[r], base[r], cursor)
        \/ base[r] \subseteq InSeq(collected[r])
    BY <1>0, <2>1, <2>2 DEF PagesHold
  <2>4. i \in Nat /\ Final(collected[r]) \in Nat
    <3>1. PICK c : c = collected[r]
      OBVIOUS
    <3>2. c \in Seq(IDs) /\ c # <<>> /\ i \in IDs
      BY <1>0, <1>2, <3>1 DEF SearchTypes
    <3>3. c[Len(c)] \in IDs
      BY <3>2
    <3>4. IDs \subseteq Nat
      BY DEF Moderation!ModerationAssumption
    <3> QED
      BY <3>1, <3>2, <3>3, <3>4 DEF Final
  <2> QED
    BY <1>2, <2>3, <2>4 DEF UpTo
<1> QED
  BY <1>0, <1>1, <1>2 DEF PagesHold

LEMMA SearchTypesCorrect ==
    ASSUME ModerationInv, SearchInv
    PROVE  Moderation!TypeOK
BY SameCardinality
DEF ModerationInv, ModerationTypes, SearchInv, SearchTypes, CallHolds, Answers, Routes,
    Moderation!TypeOK

\* "Use next_after_content_id as the next exclusive cursor": a client of Search that follows
\* the cursor is shown every record that matched when it began, once and in order, and
\* nothing that waits for review, whatever other requests create between its pages.
THEOREM ModerationPagesAreComplete ==
    Moderation!ModerationAssumption /\ Moderation!Spec => []Moderation!PagesAreComplete
<1> SUFFICES ASSUME Moderation!ModerationAssumption
             PROVE  Moderation!Spec => []Moderation!PagesAreComplete
  OBVIOUS
<1>1. Moderation!Init => ModerationInv /\ SearchInv
  BY ModerationBegins, SearchBegins
<1>2. ModerationInv /\ SearchInv /\ [Moderation!Next]_(Moderation!vars)
        => ModerationInv' /\ SearchInv'
  BY ModerationStep, SearchStep
<1>3. ModerationInv /\ SearchInv => Moderation!PagesAreComplete
  BY SearchReports
<1> QED
  BY <1>1, <1>2, <1>3, PTL DEF Moderation!Spec

--------------------------------------------------------------------------------
\* The process around the order commands.

\* The places of main after the listener was closed or Serve has ended.
Stopping == {"drain", "waitServer", "join", "joining", "close"}
\* The places after the handlers were waited for.
AfterDrain == {"waitServer", "join", "joining", "close"}

--------------------------------------------------------------------------------
\* Named parts of the inductive invariant.

\* What the relay knows of a record it works on is true of the stream, which only gets
\* records of the outbox; a relay that does not run works on none.
RelayIsHonest ==
    /\ stream \subseteq DOMAIN outbox
    /\ \A e \in DOMAIN outbox : outbox[e].status = "published" => e \in stream
    /\ \A e \in DOMAIN sending : sending[e] = "accepted" => e \in stream

\* The server has stopped for good once RunLifecycle is behind Shutdown, and before that
\* nobody but Serve itself ends it.
ServerIsStopped ==
    /\ main = "select" => server # "closed"
    /\ main \in Stopping => server # "serving"

\* Behind the drain a handler may only be left over if the error says so.
HandlersAreDone == main \in AfterDrain /\ errors = {} => busy = {}

\* cancelRelay is called on the way into the join, behind the drain.
CancelIsLate == relayCancel => main \in {"join", "joining", "close"}

\* Which case of the select fired, and that the relay of the relay case is joined.
CauseIsKnown ==
    /\ main \in {"shutdown", "drain", "waitServer"} => cause \in {"signal", "relay"}
    /\ main \in {"down", "select"} => cause = "none"
    /\ cause = "relay" => relay = "reported"

\* An exit on its way without error has joined the relay.
RelayIsJoined == main = "close" /\ errors = {} => relay = "reported"

ExitsAreInOrder == \A x \in exits : x.clean => ~x.cut

LifeInv ==
    /\ ServerIsStopped
    /\ HandlersAreDone
    /\ CancelIsLate
    /\ CauseIsKnown
    /\ RelayIsJoined

ProcessInv ==
    /\ Process!TypeOK
    /\ RelayIsHonest
    /\ LifeInv
    /\ ExitsAreInOrder

--------------------------------------------------------------------------------
LEMMA ProcessBegins == Process!RuntimeAssumption /\ Process!Init => ProcessInv
BY DEF Process!RuntimeAssumption, Process!Init, Process!Started, ProcessInv, Process!TypeOK,
       RelayIsHonest, LifeInv, ServerIsStopped, HandlersAreDone, CancelIsLate, CauseIsKnown,
       RelayIsJoined, ExitsAreInOrder, Process!Nothing, Stopping, AfterDrain

\* One step per action.
LEMMA ProcessTypesStep ==
    ASSUME Process!RuntimeAssumption, Process!TypeOK, [Process!Next]_(Process!vars)
    PROVE  Process!TypeOK'
<1> USE DEF Process!TypeOK, Process!lifeVars, Process!serverVars, Process!relayVars,
            Process!tableVars
<1>1. ASSUME NEW h \in Handlers, Process!Request(h) PROVE Process!TypeOK'
  BY <1>1 DEF Process!Request
<1>2. ASSUME NEW h \in Handlers, Process!Respond(h) PROVE Process!TypeOK'
  <2>1. CASE UNCHANGED outbox
    BY <1>2, <2>1 DEF Process!Respond
  <2>2. ASSUME NEW e \in Events \ DOMAIN outbox,
               outbox' = [k \in DOMAIN outbox \union {e} |->
                            IF k = e THEN [status |-> "pending", attempts |-> 0] ELSE outbox[k]]
        PROVE  Process!TypeOK'
    <3>1. DOMAIN outbox' = DOMAIN outbox \union {e}
      BY <2>2
    <3>2. \A k \in DOMAIN outbox' :
             outbox'[k] \in [status : {"pending", "claimed", "published", "dead_letter"},
                             attempts : 0 .. MaxAttempts]
      BY <2>2 DEF Process!RuntimeAssumption
    <3>3. DOMAIN outbox' \subseteq Events /\ DOMAIN sending' \subseteq DOMAIN outbox'
      BY <1>2, <3>1 DEF Process!Respond
    <3> QED
      BY <1>2, <3>2, <3>3 DEF Process!Respond
  <2> QED
    BY <1>2, <2>1, <2>2 DEF Process!Respond
<1>3. ASSUME NEW e \in Events, Process!Claim(e) PROVE Process!TypeOK'
  <2>1. DOMAIN outbox' = DOMAIN outbox /\ DOMAIN sending' \subseteq DOMAIN outbox'
    BY <1>3 DEF Process!Claim
  <2>2. \A k \in DOMAIN outbox' :
           outbox'[k] \in [status : {"pending", "claimed", "published", "dead_letter"},
                           attempts : 0 .. MaxAttempts]
    BY <1>3 DEF Process!Claim, Process!RuntimeAssumption
  <2>3. \A k \in DOMAIN sending' : sending'[k] \in {"publish", "accepted", "failed"}
    BY <1>3 DEF Process!Claim
  <2> QED
    BY <1>3, <2>1, <2>2, <2>3 DEF Process!Claim
<1>4. ASSUME NEW e \in Events, Process!Publish(e) PROVE Process!TypeOK'
  BY <1>4 DEF Process!Publish
<1>5. ASSUME NEW e \in Events, Process!StoreResult(e) PROVE Process!TypeOK'
  BY <1>5 DEF Process!StoreResult
<1>6. CASE Process!Signal
  BY <1>6 DEF Process!Signal
<1>7. CASE Process!ServeFails
  BY <1>7 DEF Process!ServeFails
<1>8. CASE Process!RelayReturns
  BY <1>8 DEF Process!RelayReturns, Process!Nothing
<1>9. CASE Process!RelayReports
  BY <1>9, ZenonT(60) DEF Process!RelayReports
<1>10. CASE Process!SelectSignal
  BY <1>10 DEF Process!SelectSignal
<1>11. CASE Process!SelectRelay
  BY <1>11 DEF Process!SelectRelay
<1>12. CASE Process!SelectServer
  BY <1>12 DEF Process!SelectServer
<1>13. CASE Process!Shutdown
  BY <1>13 DEF Process!Shutdown
<1>14. CASE Process!Drained
  BY <1>14 DEF Process!Drained
<1>15. CASE Process!DrainFails
  BY <1>15 DEF Process!DrainFails
<1>16. CASE Process!WaitServer
  BY <1>16 DEF Process!WaitServer
<1>17. CASE Process!EnterJoin
  BY <1>17, ZenonT(60) DEF Process!EnterJoin, Process!RelayTimedOut
<1>18. CASE Process!JoinRelay
  BY <1>18, ZenonT(60) DEF Process!JoinRelay, Process!RelayTimedOut
<1>19. CASE Process!Close
  <2>1. \A closed \in BOOLEAN :
           [clean |-> errors = {} /\ closed, cut |-> busy # {} \/ relay = "running"]
               \in [clean : BOOLEAN, cut : BOOLEAN]
    BY Zenon
  <2>2. exits' \subseteq [clean : BOOLEAN, cut : BOOLEAN]
    BY <1>19, <2>1, Zenon DEF Process!Close
  <2> QED
    BY <1>19, <2>2 DEF Process!Close, Process!Gone, Process!Nothing
<1>20. CASE Process!DeadlinePasses
  BY <1>20 DEF Process!DeadlinePasses
<1>21. CASE Process!Kill
  BY <1>21 DEF Process!Kill, Process!Gone, Process!Nothing
<1>22. CASE Process!Restart
  BY <1>22 DEF Process!Restart
<1>23. CASE UNCHANGED Process!vars
  BY <1>23 DEF Process!vars
<1> QED
  BY <1>1, <1>2, <1>3, <1>4, <1>5, <1>6, <1>7, <1>8, <1>9, <1>10, <1>11, <1>12, <1>13,
     <1>14, <1>15, <1>16, <1>17, <1>18, <1>19, <1>20, <1>21, <1>22,
     <1>23 DEF Process!Next, Process!MainStep, Process!RelayStep

\* Publish puts a record into the stream before it is accepted; a lost relay forgets
\* what it knew.
LEMMA RelayStaysHonest ==
    ASSUME Process!RuntimeAssumption, Process!TypeOK, RelayIsHonest, [Process!Next]_(Process!vars)
    PROVE  RelayIsHonest'
<1> USE DEF Process!TypeOK, RelayIsHonest, Process!lifeVars, Process!serverVars, Process!relayVars,
            Process!tableVars
<1>1. ASSUME NEW h \in Handlers, Process!Request(h) PROVE RelayIsHonest'
  BY <1>1 DEF Process!Request
<1>2. ASSUME NEW h \in Handlers, Process!Respond(h) PROVE RelayIsHonest'
  <2>1. CASE UNCHANGED outbox
    BY <1>2, <2>1 DEF Process!Respond
  <2>2. ASSUME NEW e \in Events \ DOMAIN outbox,
               outbox' = [k \in DOMAIN outbox \union {e} |->
                            IF k = e THEN [status |-> "pending", attempts |-> 0] ELSE outbox[k]]
        PROVE  RelayIsHonest'
    <3>1. stream' = stream /\ sending' = sending
      BY <1>2 DEF Process!Respond
    <3>2. DOMAIN outbox' = DOMAIN outbox \union {e}
      BY <2>2
    <3>3. \A k \in DOMAIN outbox : outbox'[k] = outbox[k]
      BY <2>2
    <3>4. outbox'[e].status = "pending"
      BY <2>2
    <3> QED
      BY <3>1, <3>2, <3>3, <3>4
  <2> QED
    BY <1>2, <2>1, <2>2 DEF Process!Respond
<1>3. ASSUME NEW e \in Events, Process!Claim(e) PROVE RelayIsHonest'
  BY <1>3 DEF Process!Claim
<1>4. ASSUME NEW e \in Events, Process!Publish(e) PROVE RelayIsHonest'
  BY <1>4 DEF Process!Publish
<1>5. ASSUME NEW e \in Events, Process!StoreResult(e) PROVE RelayIsHonest'
  BY <1>5 DEF Process!StoreResult
<1>6. CASE Process!Signal
  BY <1>6 DEF Process!Signal
<1>7. CASE Process!ServeFails
  BY <1>7 DEF Process!ServeFails
<1>8. CASE Process!RelayReturns
  BY <1>8 DEF Process!RelayReturns, Process!Nothing
<1>9. CASE Process!RelayReports
  BY <1>9 DEF Process!RelayReports
<1>10. CASE Process!SelectSignal
  BY <1>10 DEF Process!SelectSignal
<1>11. CASE Process!SelectRelay
  BY <1>11 DEF Process!SelectRelay
<1>12. CASE Process!SelectServer
  BY <1>12 DEF Process!SelectServer
<1>13. CASE Process!Shutdown
  BY <1>13 DEF Process!Shutdown
<1>14. CASE Process!Drained
  BY <1>14 DEF Process!Drained
<1>15. CASE Process!DrainFails
  BY <1>15 DEF Process!DrainFails
<1>16. CASE Process!WaitServer
  BY <1>16 DEF Process!WaitServer
<1>17. CASE Process!EnterJoin
  BY <1>17 DEF Process!EnterJoin, Process!RelayTimedOut
<1>18. CASE Process!JoinRelay
  BY <1>18 DEF Process!JoinRelay, Process!RelayTimedOut
<1>19. CASE Process!Close
  BY <1>19 DEF Process!Close, Process!Gone, Process!Nothing
<1>20. CASE Process!DeadlinePasses
  BY <1>20 DEF Process!DeadlinePasses
<1>21. CASE Process!Kill
  BY <1>21 DEF Process!Kill, Process!Gone, Process!Nothing
<1>22. CASE Process!Restart
  BY <1>22 DEF Process!Restart
<1>23. CASE UNCHANGED Process!vars
  BY <1>23 DEF Process!vars
<1> QED
  BY <1>1, <1>2, <1>3, <1>4, <1>5, <1>6, <1>7, <1>8, <1>9, <1>10, <1>11, <1>12, <1>13,
     <1>14, <1>15, <1>16, <1>17, <1>18, <1>19, <1>20, <1>21, <1>22,
     <1>23 DEF Process!Next, Process!MainStep, Process!RelayStep

\* The order of RunLifecycle.
LEMMA LifeStep ==
    ASSUME Process!TypeOK, LifeInv, [Process!Next]_(Process!vars)
    PROVE  LifeInv'
<1> USE DEF Process!TypeOK, LifeInv, ServerIsStopped, HandlersAreDone, CancelIsLate, CauseIsKnown,
            RelayIsJoined, Stopping, AfterDrain, Process!lifeVars, Process!serverVars,
            Process!relayVars, Process!tableVars
<1>1. ASSUME NEW h \in Handlers, Process!Request(h) PROVE LifeInv'
  BY <1>1 DEF Process!Request
<1>2. ASSUME NEW h \in Handlers, Process!Respond(h) PROVE LifeInv'
  BY <1>2 DEF Process!Respond
<1>3. ASSUME NEW e \in Events, Process!Claim(e) PROVE LifeInv'
  BY <1>3 DEF Process!Claim
<1>4. ASSUME NEW e \in Events, Process!Publish(e) PROVE LifeInv'
  BY <1>4 DEF Process!Publish
<1>5. ASSUME NEW e \in Events, Process!StoreResult(e) PROVE LifeInv'
  BY <1>5 DEF Process!StoreResult
<1>6. CASE Process!Signal
  BY <1>6 DEF Process!Signal
<1>7. CASE Process!ServeFails
  BY <1>7 DEF Process!ServeFails
<1>8. CASE Process!RelayReturns
  BY <1>8 DEF Process!RelayReturns
<1>9. CASE Process!RelayReports
  BY <1>9 DEF Process!RelayReports
<1>10. CASE Process!SelectSignal
  BY <1>10 DEF Process!SelectSignal
<1>11. CASE Process!SelectRelay
  BY <1>11 DEF Process!SelectRelay
<1>12. CASE Process!SelectServer
  BY <1>12 DEF Process!SelectServer
<1>13. CASE Process!Shutdown
  BY <1>13 DEF Process!Shutdown
<1>14. CASE Process!Drained
  BY <1>14 DEF Process!Drained
<1>15. CASE Process!DrainFails
  BY <1>15 DEF Process!DrainFails
<1>16. CASE Process!WaitServer
  BY <1>16 DEF Process!WaitServer
<1>17. CASE Process!EnterJoin
  BY <1>17 DEF Process!EnterJoin, Process!RelayTimedOut
<1>18. CASE Process!JoinRelay
  BY <1>18 DEF Process!JoinRelay, Process!RelayTimedOut
<1>19. CASE Process!Close
  BY <1>19 DEF Process!Close, Process!Gone
<1>20. CASE Process!DeadlinePasses
  BY <1>20 DEF Process!DeadlinePasses
<1>21. CASE Process!Kill
  BY <1>21 DEF Process!Kill, Process!Gone
<1>22. CASE Process!Restart
  BY <1>22 DEF Process!Restart
<1>23. CASE UNCHANGED Process!vars
  BY <1>23 DEF Process!vars
<1> QED
  BY <1>1, <1>2, <1>3, <1>4, <1>5, <1>6, <1>7, <1>8, <1>9, <1>10, <1>11, <1>12, <1>13,
     <1>14, <1>15, <1>16, <1>17, <1>18, <1>19, <1>20, <1>21, <1>22,
     <1>23 DEF Process!Next, Process!MainStep, Process!RelayStep

\* A clean exit has drained the handlers and joined the relay.
LEMMA ExitStep ==
    ASSUME Process!TypeOK, LifeInv, ExitsAreInOrder, [Process!Next]_(Process!vars)
    PROVE  ExitsAreInOrder'
<1>1. CASE Process!Close
  <2>1. errors = {} => ~(busy # {} \/ relay = "running")
    BY <1>1 DEF Process!Close, LifeInv, HandlersAreDone, RelayIsJoined, AfterDrain
  <2>2. PICK closed \in BOOLEAN :
           exits' = {[clean |-> errors = {} /\ closed, cut |-> busy # {} \/ relay = "running"]}
    BY <1>1, Zenon DEF Process!Close
  <2> DEFINE last == [clean |-> errors = {} /\ closed, cut |-> busy # {} \/ relay = "running"]
  <2>3. last.clean => ~last.cut
    BY <2>1, Zenon
  <2> QED
    BY <2>2, <2>3, Zenon DEF ExitsAreInOrder
<1>2. CASE ~Process!Close
  <2>1. exits' = exits \/ exits' = {}
    BY <1>2 DEF Process!Next, Process!MainStep, Process!RelayStep, Process!Signal, Process!Request,
            Process!Respond, Process!ServeFails, Process!Claim, Process!Publish,
            Process!StoreResult, Process!RelayReturns, Process!RelayReports, Process!SelectSignal,
            Process!SelectRelay, Process!SelectServer, Process!Shutdown, Process!Drained,
            Process!DrainFails, Process!WaitServer, Process!EnterJoin, Process!JoinRelay,
            Process!RelayTimedOut, Process!DeadlinePasses, Process!Kill, Process!Restart,
            Process!vars
  <2> QED
    BY <2>1 DEF ExitsAreInOrder
<1> QED
  BY <1>1, <1>2

--------------------------------------------------------------------------------
\* The inductive invariant of the order process.
THEOREM RuntimeInvariant == Process!RuntimeAssumption /\ Process!Spec => []ProcessInv
<1> SUFFICES ASSUME Process!RuntimeAssumption PROVE Process!Spec => []ProcessInv
  OBVIOUS
<1>1. Process!Init => ProcessInv
  BY ProcessBegins
<1>2. ProcessInv /\ [Process!Next]_(Process!vars) => ProcessInv'
  BY ProcessTypesStep, RelayStaysHonest, LifeStep, ExitStep DEF ProcessInv
<1> QED
  BY <1>1, <1>2, PTL DEF Process!Spec

\* Every step of RunLifecycle, the relay and the handlers keeps the types of the process,
\* its outbox and its stream.
THEOREM RuntimeTypes == Process!RuntimeAssumption /\ Process!Spec => []Process!TypeOK
<1>1. ProcessInv => Process!TypeOK
  BY DEF ProcessInv
<1> QED
  BY <1>1, RuntimeInvariant, PTL

\* The relay of the sqloutbox library marks a record published only if it is in the
\* stream, and publishes nothing that no command committed, for any records, attempts,
\* ambiguous publish errors, kills and restarts.
THEOREM DeliveryIsAtLeastOnce == Process!RuntimeAssumption /\ Process!Spec => []Process!StreamIsCommitted
<1>1. ProcessInv => Process!StreamIsCommitted
  BY DEF ProcessInv, RelayIsHonest, Process!StreamIsCommitted
<1> QED
  BY <1>1, RuntimeInvariant, PTL

\* RunLifecycle returns nil only after every handler is drained and the relay is joined,
\* and cancels the relay under a busy handler only if it will return an error.
THEOREM ShutdownKeepsOrder == Process!RuntimeAssumption /\ Process!Spec => []Process!ShutdownInOrder
<1>1. ProcessInv => Process!ShutdownInOrder
  BY DEF ProcessInv, LifeInv, CancelIsLate, HandlersAreDone, AfterDrain, ExitsAreInOrder,
         Process!ShutdownInOrder
<1> QED
  BY <1>1, RuntimeInvariant, PTL

--------------------------------------------------------------------------------
\* The moderation server: what each place of RunServer knows.
ServerInv ==
    /\ Server!TypeOK
    /\ main = "select" => listener # "closed" /\ results = {} /\ cut = FALSE
    /\ main \in {"shutdown", "close", "join", "returned"} => listener # "running"
    /\ main \in {"shutdown", "close", "join"} => signalled = TRUE
    /\ main = "shutdown" => results = {} /\ cut = FALSE
    /\ main = "close" => "shutdown" \in results
    /\ main = "join" /\ results = {} => handlers = 0 /\ cut = FALSE
    /\ main = "returned" /\ results = {} =>
          signalled = TRUE /\ listener = "closed" /\ cut = FALSE

LEMMA ServerBegins == Server!LifecycleAssumption /\ Server!Init => ServerInv
<1> SUFFICES ASSUME Server!LifecycleAssumption, Server!Init PROVE ServerInv
  OBVIOUS
<1>1. handlers \in 0 .. MaxHandlers
  BY DEF Server!LifecycleAssumption, Server!Init
<1>2. signalled \in BOOLEAN /\ late \in BOOLEAN /\ cut \in BOOLEAN
  BY Zenon DEF Server!Init
<1> QED
  BY <1>1, <1>2 DEF Server!Init, ServerInv, Server!TypeOK

\* A handler that is still there when RunServer returns is cut.
LEMMA ServerReturns ==
    ASSUME ServerInv, NEW errs, Server!Return(errs)
    PROVE  cut' \in BOOLEAN /\ (cut = FALSE /\ handlers = 0 => cut' = FALSE)
<1>1. cut \in BOOLEAN /\ handlers \in Nat
  BY DEF ServerInv, Server!TypeOK
<1>2. handlers = 0 => ~(handlers > 0)
  BY <1>1
<1>3. cut' = (cut \/ handlers > 0)
  BY DEF Server!Return
<1> QED
  BY <1>1, <1>2, <1>3, Zenon

LEMMA ServerStep ==
    ASSUME Server!LifecycleAssumption, ServerInv, [Server!Next]_(Server!serverVars)
    PROVE  ServerInv'
<1> USE DEF ServerInv, Server!TypeOK, Server!LifecycleAssumption
<1>1. CASE Server!Signal
  BY <1>1 DEF Server!Signal
<1>2. CASE Server!Accept
  BY <1>2 DEF Server!Accept
<1>3. CASE Server!HandlerReturns
  BY <1>3 DEF Server!HandlerReturns
<1>4. CASE Server!ListenFails
  BY <1>4 DEF Server!ListenFails
<1>5. CASE Server!TimeoutPasses
  BY <1>5 DEF Server!TimeoutPasses
<1>6. CASE Server!SelectListen
  <2>1. Server!Return({"listen"})
    BY <1>6 DEF Server!SelectListen
  <2> QED
    BY <1>6, <2>1, ServerReturns DEF Server!SelectListen, Server!Return
<1>7. CASE Server!SelectSignal
  BY <1>7 DEF Server!SelectSignal
<1>8. CASE Server!Drained
  BY <1>8 DEF Server!Drained
<1>9. CASE Server!ShutdownFails
  BY <1>9 DEF Server!ShutdownFails
<1>10. CASE Server!Close
  <2>1. cut' \in BOOLEAN
    BY <1>10, Zenon DEF Server!Close
  <2> QED
    BY <1>10, <2>1 DEF Server!Close
<1>11. CASE Server!Join
  <2> DEFINE errs == results \union IF listener = "failed" THEN {"listen"} ELSE {}
  <2>1. Server!Return(errs)
    BY <1>11 DEF Server!Join
  <2>2. cut' \in BOOLEAN /\ (cut = FALSE /\ handlers = 0 => cut' = FALSE)
    BY <2>1, ServerReturns
  <2> QED
    BY <1>11, <2>1, <2>2 DEF Server!Join, Server!Return
<1>12. CASE UNCHANGED Server!serverVars
  BY <1>12 DEF Server!serverVars
<1> QED
  BY <1>1, <1>2, <1>3, <1>4, <1>5, <1>6, <1>7, <1>8, <1>9, <1>10, <1>11, <1>12
  DEF Server!Next, Server!Run

\* RunServer of the moderation server has joined its listener when it returns, and
\* returns nil only if it was told to stop, the listener did not fail and no request was
\* cut short, for any number of requests in flight.
THEOREM ServerReturnsClean == Server!LifecycleAssumption /\ Server!Spec => []Server!CleanReturn
<1> SUFFICES ASSUME Server!LifecycleAssumption PROVE Server!Spec => []Server!CleanReturn
  OBVIOUS
<1>1. Server!Init => ServerInv
  BY ServerBegins
<1>2. ServerInv /\ [Server!Next]_(Server!serverVars) => ServerInv'
  BY ServerStep
<1>3. ServerInv => Server!CleanReturn
  BY DEF ServerInv, Server!CleanReturn
<1> QED
  BY <1>1, <1>2, <1>3, PTL DEF Server!Spec

--------------------------------------------------------------------------------
\* The two programs with compensations.

Fulfillment == INSTANCE OrderFulfillment
State == Fulfillment!State

None == << >>
First == <<"inventory">>
Both == <<"inventory", "payment">>
BothReversed == <<"payment", "inventory">>

Undone == effects = {} /\ compensations = None
Reserved == effects = {"inventory"} /\ compensations = First
Authorized == effects = {"inventory", "payment"} /\ compensations = Both

\* A forward workflow that has stopped before the shipment.
Stopped == forward \in {"failed", "cancelled"} /\ (Undone \/ Reserved \/ Authorized)
Shipped ==
    /\ forward = "completed"
    /\ effects = {"inventory", "payment", "shipment"}
    /\ compensations = Both

\* While compensations are due, only their effects and those whose compensation has
\* failed are there.
Pending ==
    /\ forward \in {"failed", "cancelled"}
    /\ compensations \in {First, Both}
    /\ works \in {None, First, BothReversed}
    /\ effects \subseteq {"inventory", "payment"}
    /\ "payment" \in effects => works = BothReversed \/ call.voidFails
    /\ "inventory" \in effects => works # None \/ call.releaseFails

\* What is left when the run is over.
Ended ==
    \/ ~compensated /\ works = None /\ Shipped
    \/ ~compensated /\ works = None /\ forward \in {"failed", "cancelled"} /\ Undone
    \/ compensated /\ works = None /\ Pending

Running == works = None /\ ~compensated /\ outcome = 0

\* The inductive invariant: what each place in the code knows.
IInv ==
    /\ call \in Calls
    /\ cancelled \in BOOLEAN
    /\ compensated \in BOOLEAN
    /\ pc \in {"run", "reserve", "authorize", "ship", "execute", "compensate", "respond", "done"}
    /\ forward = "failed" => ~cancelled
    /\ pc \in {"run", "reserve"} => Running /\ forward = "none" /\ Undone
    /\ pc = "authorize" => Running /\ forward = "none" /\ Reserved
    /\ pc = "ship" => Running /\ forward = "none" /\ Authorized
    /\ pc = "execute" => Running /\ (Stopped \/ Shipped)
    /\ pc = "compensate" => compensated /\ outcome = 0 /\ Pending
    /\ pc = "respond" => outcome = 0 /\ Ended
    /\ pc = "done" =>
          \/ outcome = 400 /\ works = None /\ ~compensated /\ forward = "none" /\ Undone
          \/ outcome = StatusForReport /\ Ended

--------------------------------------------------------------------------------
\* reverseCompensations on the lists a run can have.
LEMMA ReversedLists ==
    /\ compensations = First => ReverseCompensations = First
    /\ compensations = Both => ReverseCompensations = BothReversed
<1>1. ASSUME compensations = First PROVE ReverseCompensations = First
  <2>1. Len(compensations) = 1 /\ compensations[1] = "inventory"
    BY <1>1 DEF First
  <2>2. ReverseCompensations = [i \in 1 .. 1 |-> "inventory"]
    BY <2>1 DEF ReverseCompensations
  <2>3. First = [i \in 1 .. 1 |-> "inventory"]
    BY DEF First
  <2> QED
    BY <2>2, <2>3
<1>2. ASSUME compensations = Both PROVE ReverseCompensations = BothReversed
  <2>1. Len(compensations) = 2 /\ compensations[1] = "inventory" /\ compensations[2] = "payment"
    BY <1>2 DEF Both
  <2>2. ReverseCompensations = [i \in 1 .. 2 |-> IF i = 1 THEN "payment" ELSE "inventory"]
    BY <2>1 DEF ReverseCompensations
  <2>3. BothReversed = [i \in 1 .. 2 |-> IF i = 1 THEN "payment" ELSE "inventory"]
    BY DEF BothReversed
  <2> QED
    BY <2>2, <2>3
<1> QED
  BY <1>1, <1>2

\* Taking the first compensation off the lists a run can have.
LEMMA Tails ==
    /\ None # First /\ None # BothReversed /\ First # BothReversed
    /\ Head(First) = "inventory" /\ Tail(First) = None
    /\ Head(BothReversed) = "payment" /\ Tail(BothReversed) = First
BY DEF None, First, BothReversed

\* Registering a compensation.
LEMMA Appends ==
    /\ Append(None, "inventory") = First
    /\ Append(First, "payment") = Both
    /\ None # First /\ None # Both /\ First # Both
<1>1. First = [i \in 1 .. 1 |-> "inventory"]
  BY DEF First
<1>2. Append(None, "inventory") = [i \in 1 .. 1 |-> "inventory"]
  BY DEF None
<1>3. Append(First, "payment") = [i \in 1 .. 2 |-> IF i = 1 THEN "inventory" ELSE "payment"]
  BY DEF First
<1>4. Both = [i \in 1 .. 2 |-> IF i = 1 THEN "inventory" ELSE "payment"]
  BY DEF Both
<1> QED
  BY <1>1, <1>2, <1>3, <1>4 DEF None, First, Both

LEMMA InitEstablishes == Init => IInv
BY DEF Init, IInv, Running, Undone, None

\* One step per action; a client that leaves changes nothing else.
LEMMA NextPreserves ==
    ASSUME LateCancel = FALSE, IInv, [Next]_vars
    PROVE  IInv'
<1> USE DEF Running, Undone, Reserved, Authorized, Stopped, Shipped, Ended, Pending
<1>1. CASE Run
  BY <1>1, Tails DEF Run, IInv
<1>2. CASE ReserveInventory
  BY <1>2, Appends DEF ReserveInventory, StopsAt, Performs, ForwardEnds, IInv
<1>3. CASE AuthorizePayment
  BY <1>3, Appends DEF AuthorizePayment, StopsAt, Performs, ForwardEnds, IInv
<1>4. CASE CreateShipment
  BY <1>4, Tails DEF CreateShipment, StopsAt, ForwardEnds, IInv
<1>5. CASE Execute
  <2>1. CASE pc' = "respond"
    BY <1>5, <2>1, Appends DEF Execute, IInv, None
  <2>2. CASE pc' = "compensate"
    <3>1. /\ compensated' /\ outcome' = 0 /\ effects' = effects /\ call' = call
          /\ forward' = forward /\ compensations' = compensations /\ cancelled' = cancelled
          /\ works' = ReverseCompensations
      BY <1>5, <2>2 DEF Execute, IInv
    <3>2. forward \in {"failed", "cancelled"} /\ (Reserved \/ Authorized)
      BY <1>5, <2>2 DEF Execute, IInv, None
    <3>3. CASE Reserved
      BY <2>2, <3>1, <3>2, <3>3, ReversedLists, Tails DEF IInv
    <3>4. CASE Authorized
      BY <2>2, <3>1, <3>2, <3>4, ReversedLists, Tails DEF IInv
    <3> QED
      BY <3>2, <3>3, <3>4
  <2> QED
    BY <1>5, <2>1, <2>2 DEF Execute
<1>6. CASE VoidPayment
  BY <1>6, Tails DEF VoidPayment, Compensates, IInv, None
<1>7. CASE ReleaseInventory
  BY <1>7, Tails DEF ReleaseInventory, Compensates, IInv, None
<1>8. CASE CompensationEnds
  BY <1>8, Tails DEF CompensationEnds, CleanupCancelled, IInv, None
<1>9. CASE Respond
  BY <1>9, Tails DEF Respond, StatusForReport, IInv
<1>10. CASE Cancel
  BY <1>10, Tails DEF Cancel, StatusForReport, IInv
<1>11. CASE UNCHANGED vars
  BY <1>11 DEF vars, StatusForReport, IInv
<1> QED
  BY <1>1, <1>2, <1>3, <1>4, <1>5, <1>6, <1>7, <1>8, <1>9, <1>10, <1>11 DEF Next, Step

\* A run whose client stays until the answer, or leaves before the forward workflow has
\* failed, ends with a shipment and all effects, or with only those effects whose own
\* compensation failed (execute, server.go:153).
THEOREM CompensationIsComplete ==
    ASSUME LateCancel = FALSE
    PROVE  Spec => []NothingLeftBehind
<1>1. Init => IInv
  BY InitEstablishes
<1>2. IInv /\ [Next]_vars => IInv'
  BY NextPreserves
<1>3. IInv => NothingLeftBehind
  BY Tails DEF IInv, NothingLeftBehind, Ended, Shipped, Undone, Pending, StatusForReport
<1> QED
  BY <1>1, <1>2, <1>3, PTL DEF Spec

--------------------------------------------------------------------------------
\* The stack of the saga for the lists a run can have, and its latest element.
LEMMA Stacks ==
    /\ Reversed(None) = None
    /\ Reversed(First) = First
    /\ Reversed(BothReversed) = Both
<1>1. Reversed(None) = None
  BY DEF Reversed, None
<1>2. Reversed(First) = First
  <2>1. Reversed(First) = [i \in 1 .. 1 |-> "inventory"]
    BY DEF Reversed, First
  <2>2. First = [i \in 1 .. 1 |-> "inventory"]
    BY DEF First
  <2> QED
    BY <2>1, <2>2
<1>3. Reversed(BothReversed) = Both
  <2>1. Reversed(BothReversed) = [i \in 1 .. 2 |-> IF i = 1 THEN "inventory" ELSE "payment"]
    BY DEF Reversed, BothReversed
  <2>2. Both = [i \in 1 .. 2 |-> IF i = 1 THEN "inventory" ELSE "payment"]
    BY DEF Both
  <2> QED
    BY <2>1, <2>2
<1> QED
  BY <1>1, <1>2, <1>3

LEMMA Popped ==
    /\ First[Len(First)] = "inventory" /\ SubSeq(First, 1, Len(First) - 1) = None
    /\ Both[Len(Both)] = "payment" /\ SubSeq(Both, 1, Len(Both) - 1) = First
<1>1. Len(First) = 1 /\ Len(Both) = 2 /\ First[1] = "inventory" /\ Both[2] = "payment"
  BY DEF First, Both
<1>2. SubSeq(First, 1, 0) = None
  BY DEF First, None
<1>3. SubSeq(Both, 1, 1) = First
  <2>1. SubSeq(Both, 1, 1) = [i \in 1 .. 1 |-> "inventory"]
    BY DEF Both
  <2>2. First = [i \in 1 .. 1 |-> "inventory"]
    BY DEF First
  <2> QED
    BY <2>1, <2>2
<1> QED
  BY <1>1, <1>2, <1>3

LEMMA FirstStateIsSagas == Init => Abstract!Init
BY DEF Init, Abstract!Init, Phase

\* One step per action: which step of the saga it is.
LEMMA StepsAreSagas ==
    ASSUME LateCancel = FALSE, IInv, IInv', [Next]_vars
    PROVE  [Abstract!Next]_(Abstract!vars)
<1> DEFINE Standing == effects \ {"shipment"}
           Stack == IF compensated THEN Reversed(works) ELSE compensations
           Created == "shipment" \in effects
<1>0. ASSUME Phase' = Phase, Standing' = Standing, Stack' = Stack, Created' = Created
      PROVE  UNCHANGED Abstract!vars
  BY <1>0 DEF Abstract!vars
<1>1. CASE Run
  <2>1. /\ Phase = "forward" /\ ~Created /\ Stack = None
        /\ Standing' = Standing /\ Stack' = Stack /\ Created' = Created
    BY <1>1 DEF Run, IInv, Running, Undone, Phase
  <2>2. CASE call.valid
    BY <1>0, <1>1, <2>1, <2>2 DEF Run, Phase
  <2>3. CASE ~call.valid
    <3>1. Phase' = "failed"
      BY <1>1, <2>3 DEF Run, IInv, Running, Phase
    <3> QED
      BY <2>1, <3>1 DEF Abstract!Next, Abstract!Fail, None
  <2> QED
    BY <2>2, <2>3
<1>2. CASE ReserveInventory
  <2>1. /\ Phase = "forward" /\ Phase' = "forward" /\ ~Created /\ ~Created'
        /\ ~compensated /\ ~compensated' /\ "inventory" \notin effects
    BY <1>2 DEF ReserveInventory, StopsAt, Performs, ForwardEnds, IInv, Running, Undone, Phase
  <2>2. CASE StopsAt("reserve", call.stock)
    BY <1>0, <2>1, <2>2 DEF StopsAt, ForwardEnds
  <2>3. CASE Performs("reserve", call.stock, "inventory", "authorize")
    <3>1. Standing' = Standing \union {"inventory"} /\ Stack' = Append(Stack, "inventory")
      BY <2>1, <2>3 DEF Performs
    <3> QED
      BY <2>1, <3>1 DEF Abstract!Next, Abstract!Perform
  <2> QED
    BY <1>2, <2>2, <2>3 DEF ReserveInventory
<1>3. CASE AuthorizePayment
  <2>1. /\ Phase = "forward" /\ Phase' = "forward" /\ ~Created /\ ~Created'
        /\ ~compensated /\ ~compensated' /\ "payment" \notin effects
    BY <1>3 DEF AuthorizePayment, StopsAt, Performs, ForwardEnds, IInv, Running, Reserved, Phase
  <2>2. CASE StopsAt("authorize", call.payment)
    BY <1>0, <2>1, <2>2 DEF StopsAt, ForwardEnds
  <2>3. CASE Performs("authorize", call.payment, "payment", "ship")
    <3>1. Standing' = Standing \union {"payment"} /\ Stack' = Append(Stack, "payment")
      BY <2>1, <2>3 DEF Performs
    <3> QED
      BY <2>1, <3>1 DEF Abstract!Next, Abstract!Perform
  <2> QED
    BY <1>3, <2>2, <2>3 DEF AuthorizePayment
<1>4. CASE CreateShipment
  <2>1. /\ Phase = "forward" /\ Phase' = "forward" /\ ~Created
        /\ Standing = {"inventory", "payment"} /\ Standing' = Standing /\ Stack' = Stack
    BY <1>4 DEF CreateShipment, StopsAt, ForwardEnds, IInv, Running, Authorized, Phase
  <2>2. CASE StopsAt("ship", call.provider)
    BY <1>0, <2>1, <2>2 DEF StopsAt, ForwardEnds
  <2>3. CASE Created'
    BY <2>1, <2>3 DEF Abstract!Next, Abstract!Ship
  <2> QED
    BY <1>4, <2>2, <2>3 DEF CreateShipment
<1>5. CASE Execute
  <2>1. /\ Phase = "forward" /\ ~compensated
        /\ Standing' = Standing /\ Created' = Created /\ compensations' = compensations
    BY <1>5 DEF Execute, IInv, Running, Phase
  <2>2. CASE forward = "completed"
    <3>1. Phase' = "completed" /\ Created /\ Stack' = Stack
      BY <1>5, <2>1, <2>2 DEF Execute, IInv, Stopped, Shipped, Phase
    <3> QED
      BY <2>1, <3>1 DEF Abstract!Next, Abstract!Complete
  <2>3. CASE forward # "completed" /\ compensations = None
    <3>1. Phase' = "failed" /\ ~Created /\ Stack' = Stack /\ Stack = None
      BY <1>5, <2>1, <2>3, Appends
      DEF Execute, IInv, Stopped, Shipped, Undone, Reserved, Authorized, Phase, None
    <3> QED
      BY <2>1, <3>1 DEF Abstract!Next, Abstract!Fail, None
  <2>4. CASE forward # "completed" /\ compensations # None
    <3>1. /\ Phase' = "compensating" /\ compensated' /\ works' = ReverseCompensations
          /\ ~Created /\ compensations \in {First, Both} /\ Stack = compensations
      BY <1>5, <2>1, <2>4
      DEF Execute, IInv, Stopped, Shipped, Undone, Reserved, Authorized, Phase, None
    <3>2. Stack' = Stack
      BY <3>1, ReversedLists, Stacks
    <3> QED
      BY <2>1, <2>4, <3>1, <3>2 DEF Abstract!Next, Abstract!GiveUp, None
  <2> QED
    BY <2>2, <2>3, <2>4
<1>6. CASE VoidPayment
  <2>1. works = BothReversed /\ works' = First
    BY <1>6, Tails DEF VoidPayment, Compensates, IInv, Pending, None
  <2>2. /\ Phase = "compensating" /\ Phase' = "compensating" /\ compensated /\ compensated'
        /\ Created' = Created /\ Standing' \in {Standing, Standing \ {"payment"}}
    BY <1>6 DEF VoidPayment, Compensates, IInv, Phase
  <2>3. Stack = Both /\ Stack' = First
    BY <2>1, <2>2, Stacks
  <2> QED
    BY <2>2, <2>3, Popped, Appends DEF Abstract!Next, Abstract!Undo, None
<1>7. CASE ReleaseInventory
  <2>1. works = First /\ works' = None
    BY <1>7, Tails DEF ReleaseInventory, Compensates, IInv, Pending, None
  <2>2. /\ Phase = "compensating" /\ Phase' = "compensating" /\ compensated /\ compensated'
        /\ Created' = Created /\ Standing' \in {Standing, Standing \ {"inventory"}}
    BY <1>7 DEF ReleaseInventory, Compensates, IInv, Phase
  <2>3. Stack = First /\ Stack' = None
    BY <2>1, <2>2, Stacks
  <2> QED
    BY <2>2, <2>3, Popped, Appends DEF Abstract!Next, Abstract!Undo, None
<1>8. CASE CompensationEnds
  <2>1. /\ Phase = "compensating" /\ Phase' = "compensated" /\ compensated /\ works = None
        /\ Standing' = Standing /\ Stack' = Stack /\ Created' = Created
    BY <1>8 DEF CompensationEnds, CleanupCancelled, IInv, Pending, Phase, None
  <2>2. Stack = None
    BY <2>1, Stacks
  <2> QED
    BY <2>1, <2>2 DEF Abstract!Next, Abstract!Finish, None
<1>9. CASE Respond
  BY <1>0, <1>9 DEF Respond, IInv, Phase
<1>10. CASE Cancel
  BY <1>0, <1>10 DEF Cancel, IInv, Phase
<1>11. CASE UNCHANGED vars
  BY <1>0, <1>11 DEF vars, IInv, Phase
<1> QED
  BY <1>1, <1>2, <1>3, <1>4, <1>5, <1>6, <1>7, <1>8, <1>9, <1>10, <1>11 DEF Next, Step

\* A run whose client does not leave between the failure and the answer implements the
\* saga: effects one after the other, the compensations of all of them once and in
\* reverse order, and no end before the last (execute, server.go:153).
THEOREM CompensationImplementsSaga ==
    ASSUME LateCancel = FALSE
    PROVE  Spec => Abstract!Spec
<1>1. Init => IInv
  BY InitEstablishes
<1>2. IInv /\ [Next]_vars => IInv'
  BY NextPreserves
<1>3. Init => Abstract!Init
  BY FirstStateIsSagas
<1>4. IInv /\ IInv' /\ [Next]_vars => [Abstract!Next]_(Abstract!vars)
  BY StepsAreSagas
<1> QED
  BY <1>1, <1>2, <1>3, <1>4, PTL DEF Spec, Abstract!Spec

\* The lists of compensations.
LEMMA ListTypes == {None, First, Both, BothReversed} \subseteq Seq({"inventory", "payment"})
BY DEF None, First, Both, BothReversed

LEMMA CompensationTyped == IInv => TypeOK
<1> SUFFICES ASSUME IInv PROVE TypeOK
  OBVIOUS
<1>1. compensations \in {None, First, Both} /\ works \in {None, First, BothReversed}
  BY DEF IInv, Running, Undone, Reserved, Authorized, Stopped, Shipped, Pending, Ended
<1>2. /\ effects \subseteq {"inventory", "payment", "shipment"}
      /\ forward \in {"none", "completed", "failed", "cancelled"}
  BY DEF IInv, Running, Undone, Reserved, Authorized, Stopped, Shipped, Pending, Ended
<1>3. outcome \in {0, 200, 400, 408, 409}
  BY DEF IInv, Running, Ended, Shipped, Pending, StatusForReport
<1>4. compensations \in Seq({"inventory", "payment"}) /\ works \in Seq({"inventory", "payment"})
  BY <1>1, ListTypes, Zenon
<1> QED
  BY <1>2, <1>3, <1>4, Zenon DEF IInv, TypeOK

--------------------------------------------------------------------------------
\* The order-fulfillment integration: what each place in its code knows.

OrderStopped ==
    /\ forward \in {"failed", "cancelled"}
    /\ \/ Undone /\ State \in {"draft", "submitted"}
       \/ Reserved /\ State = "submitted"
       \/ Authorized /\ State \in {"paid", "packed"}
OrderShipped == Shipped /\ State = "shipped"

\* While compensations are due, only their effects are there unless one has failed.
OrderPending ==
    /\ forward \in {"failed", "cancelled"}
    /\ compensated
    /\ outcome = 0
    /\ compensations \in {First, Both}
    /\ works \in {None, First, BothReversed}
    /\ effects \subseteq {"inventory", "payment"}
    /\ "payment" \in effects => works = BothReversed \/ partial
    /\ "inventory" \in effects => works # None \/ partial
    /\ State \in {"submitted", "paid", "packed"}

OrderEnded ==
    /\ works = None
    /\ \/ ~compensated /\ OrderShipped
       \/ /\ ~compensated /\ Undone
          /\ forward \in {"failed", "cancelled"}
          /\ State \in {"draft", "submitted"}
       \/ /\ compensated
          /\ forward \in {"failed", "cancelled"}
          /\ compensations \in {First, Both}
          /\ effects \subseteq {"inventory", "payment"}
          /\ effects = {} \/ partial
          /\ State = "cancelled"

OrderOutcome ==
    CASE forward = "cancelled" -> 408 [] forward = "completed" -> 200 [] forward = "failed" -> 409

FulfillmentTypes ==
    /\ call \in Fulfillment!Calls
    /\ cancelled \in BOOLEAN
    /\ compensated \in BOOLEAN
    /\ partial \in BOOLEAN
    /\ pc \in {"fulfill", "submit", "reserve", "authorize", "pack", "ship", "execute",
               "compensate", "cancelOrder", "respond", "done"}
    /\ history \in Seq(Fulfillment!OrderStates)
    /\ history # << >>

FulfillmentInv ==
    /\ FulfillmentTypes
    /\ pc \in {"fulfill", "submit"} => Running /\ forward = "none" /\ Undone /\ State = "draft"
    /\ pc = "reserve" => Running /\ forward = "none" /\ Undone /\ State = "submitted"
    /\ pc = "authorize" => Running /\ forward = "none" /\ Reserved /\ State = "submitted"
    /\ pc = "pack" => Running /\ forward = "none" /\ Authorized /\ State = "paid"
    /\ pc = "ship" => Running /\ forward = "none" /\ Authorized /\ State = "packed"
    /\ pc = "execute" => Running /\ (OrderStopped \/ OrderShipped)
    /\ pc = "compensate" => OrderPending
    /\ pc = "cancelOrder" => OrderPending /\ works = None
    /\ pc = "respond" => outcome = 0 /\ OrderEnded
    /\ pc = "done" =>
          \/ outcome = 400 /\ works = None /\ ~compensated /\ forward = "none" /\ Undone
          \/ outcome = OrderOutcome /\ OrderEnded

\* What the transitions of newOrderRun offer in the states a run passes through.
LEMMA OrderMoves ==
    /\ State = "draft" => Fulfillment!Targets("submit") = {"submitted"}
    /\ State = "submitted" => Fulfillment!Targets("pay") = {"paid"}
    /\ State = "paid" =>
          Fulfillment!Targets("pack") = {"packed"} /\ Fulfillment!Targets("ship") = {}
    /\ State = "packed" => Fulfillment!Targets("ship") = {"shipped"}
    /\ State \in {"submitted", "paid", "packed"} => Fulfillment!Targets("cancel") = {"cancelled"}
<1>0. ASSUME NEW event
      PROVE  Fulfillment!Targets(event) =
                 {to \in Fulfillment!OrderStates : <<event, State, to>> \in Fulfillment!Transitions}
  BY DEF State, Fulfillment!Targets
<1> HIDE DEF State
<1> USE DEF Fulfillment!Transitions, Fulfillment!OrderStates
<1>1. State = "draft" => Fulfillment!Targets("submit") = {"submitted"}
  BY <1>0
<1>2. State = "submitted" => Fulfillment!Targets("pay") = {"paid"}
  BY <1>0
<1>3. State = "paid" => Fulfillment!Targets("pack") = {"packed"}
  BY <1>0
<1>4. State = "paid" => Fulfillment!Targets("ship") = {}
  BY <1>0
<1>5. State = "packed" => Fulfillment!Targets("ship") = {"shipped"}
  BY <1>0
<1>6. State \in {"submitted", "paid", "packed"} => Fulfillment!Targets("cancel") = {"cancelled"}
  BY <1>0
<1> QED
  BY <1>1, <1>2, <1>3, <1>4, <1>5, <1>6

\* The machine is in the state it moved to last.
LEMMA OrderMoved ==
    ASSUME NEW to \in Fulfillment!OrderStates, FulfillmentTypes, history' = Append(history, to)
    PROVE  State' = to /\ history' \in Seq(Fulfillment!OrderStates) /\ history' # << >>
BY DEF State, Fulfillment!State, FulfillmentTypes

LEMMA OrderStays == history' = history => State' = State
BY DEF State, Fulfillment!State

LEMMA FulfillmentBegins == Fulfillment!Init => FulfillmentInv
<1> SUFFICES ASSUME Fulfillment!Init PROVE FulfillmentInv
  OBVIOUS
<1>1. State = "draft" /\ history \in Seq(Fulfillment!OrderStates) /\ history # << >>
  BY DEF Fulfillment!Init, State, Fulfillment!State, Fulfillment!OrderStates
<1> QED
  BY <1>1 DEF Fulfillment!Init, FulfillmentInv, FulfillmentTypes, Running, Undone, None

\* reverseCompensations of the order-fulfillment integration on the lists a run can have.
LEMMA OrderReversed ==
    /\ compensations = First =>
          [i \in DOMAIN compensations |-> compensations[Len(compensations) + 1 - i]] = First
    /\ compensations = Both =>
          [i \in DOMAIN compensations |-> compensations[Len(compensations) + 1 - i]] = BothReversed
<1>1. DOMAIN First = 1 .. Len(First) /\ DOMAIN Both = 1 .. Len(Both)
  BY DEF First, Both
<1> QED
  BY <1>1, ReversedLists DEF ReverseCompensations

\* A work that does not complete ends the forward runner and changes nothing.
LEMMA OrderStops ==
    ASSUME FulfillmentInv, NEW work \in {"submit", "reserve", "authorize", "pack", "ship"},
           NEW why \in {"failed", "cancelled"}, Fulfillment!StopsAt(work, why)
    PROVE  FulfillmentInv'
<1>1. State' = State
  BY OrderStays DEF Fulfillment!StopsAt
<1> QED
  BY <1>1 DEF FulfillmentInv, FulfillmentTypes, OrderStopped, Running, Undone, Reserved, Authorized,
              Fulfillment!StopsAt, Fulfillment!ForwardEnds

\* One step per action.
LEMMA FulfillmentStep ==
    ASSUME FulfillmentInv, [Fulfillment!Next]_(Fulfillment!vars)
    PROVE  FulfillmentInv'
<1> USE DEF FulfillmentInv, FulfillmentTypes
<1>1. CASE Fulfillment!Fulfill
  <2>1. State' = State
    BY <1>1, OrderStays DEF Fulfillment!Fulfill
  <2> QED
    BY <1>1, <2>1 DEF Fulfillment!Fulfill, Running, Undone
<1>2. CASE Fulfillment!SubmitOrder
  <2>1. ASSUME NEW why \in {"failed", "cancelled"}, Fulfillment!StopsAt("submit", why) PROVE FulfillmentInv'
    BY <2>1, OrderStops
  <2>2. ASSUME pc = "submit", Fulfillment!Transition("submit"), Fulfillment!GoOn("reserve"),
               UNCHANGED <<effects, compensations>>
        PROVE  FulfillmentInv'
    <3>1. history' = Append(history, "submitted")
      BY <2>2, OrderMoves DEF Fulfillment!Transition
    <3>2. State' = "submitted" /\ history' \in Seq(Fulfillment!OrderStates) /\ history' # << >>
      BY <3>1, OrderMoved DEF Fulfillment!OrderStates
    <3> QED
      BY <2>2, <3>2 DEF Fulfillment!GoOn, Running, Undone
  <2> QED
    BY <1>2, <2>1, <2>2 DEF Fulfillment!SubmitOrder
<1>3. CASE Fulfillment!ReserveInventory
  <2>1. ASSUME NEW why \in {"failed", "cancelled"}, Fulfillment!StopsAt("reserve", why) PROVE FulfillmentInv'
    BY <2>1, OrderStops
  <2>2. ASSUME pc = "reserve", Fulfillment!Performs("inventory"), Fulfillment!GoOn("authorize"),
               UNCHANGED history
        PROVE  FulfillmentInv'
    BY <2>2, OrderStays, Appends DEF Fulfillment!Performs, Fulfillment!GoOn, Running, Undone, Reserved
  <2> QED
    BY <1>3, <2>1, <2>2 DEF Fulfillment!ReserveInventory
<1>4. CASE Fulfillment!AuthorizePayment
  <2>1. ASSUME NEW why \in {"failed", "cancelled"}, Fulfillment!StopsAt("authorize", why) PROVE FulfillmentInv'
    BY <2>1, OrderStops
  <2>2. ASSUME pc = "authorize", Fulfillment!Transition("pay"), Fulfillment!Performs("payment"),
               Fulfillment!GoOn("pack")
        PROVE  FulfillmentInv'
    <3>1. history' = Append(history, "paid")
      BY <2>2, OrderMoves DEF Fulfillment!Transition
    <3>2. State' = "paid" /\ history' \in Seq(Fulfillment!OrderStates) /\ history' # << >>
      BY <3>1, OrderMoved DEF Fulfillment!OrderStates
    <3> QED
      BY <2>2, <3>2, Appends DEF Fulfillment!Performs, Fulfillment!GoOn, Running, Reserved, Authorized
  <2> QED
    BY <1>4, <2>1, <2>2 DEF Fulfillment!AuthorizePayment
<1>5. CASE Fulfillment!PackOrder
  <2>1. ASSUME NEW why \in {"failed", "cancelled"}, Fulfillment!StopsAt("pack", why) PROVE FulfillmentInv'
    BY <2>1, OrderStops
  <2>2. ASSUME pc = "pack", Fulfillment!Transition(Fulfillment!PackEvent), Fulfillment!GoOn("ship"),
               UNCHANGED <<effects, compensations>>
        PROVE  FulfillmentInv'
    <3>1. history' = Append(history, "packed")
      BY <2>2, OrderMoves DEF Fulfillment!Transition, Fulfillment!PackEvent
    <3>2. State' = "packed" /\ history' \in Seq(Fulfillment!OrderStates) /\ history' # << >>
      BY <3>1, OrderMoved DEF Fulfillment!OrderStates
    <3> QED
      BY <2>2, <3>2 DEF Fulfillment!GoOn, Running, Authorized
  <2> QED
    BY <1>5, <2>1, <2>2 DEF Fulfillment!PackOrder
<1>6. CASE Fulfillment!CreateShipment
  <2>1. ASSUME NEW why \in {"failed", "cancelled"}, Fulfillment!StopsAt("ship", why) PROVE FulfillmentInv'
    BY <2>1, OrderStops
  <2>2. ASSUME pc = "ship", Fulfillment!Transition("ship"), effects' = effects \union {"shipment"},
               Fulfillment!ForwardEnds("completed")
        PROVE  FulfillmentInv'
    <3>1. history' = Append(history, "shipped")
      BY <2>2, OrderMoves DEF Fulfillment!Transition
    <3>2. State' = "shipped" /\ history' \in Seq(Fulfillment!OrderStates) /\ history' # << >>
      BY <3>1, OrderMoved DEF Fulfillment!OrderStates
    <3> QED
      BY <2>2, <3>2 DEF Fulfillment!ForwardEnds, Running, Authorized, OrderShipped, Shipped
  <2> QED
    BY <1>6, <2>1, <2>2 DEF Fulfillment!CreateShipment
<1>7. CASE Fulfillment!Execute
  <2>1. State' = State
    BY <1>7, OrderStays DEF Fulfillment!Execute
  <2>2. CASE pc' = "respond"
    BY <1>7, <2>1, <2>2, Appends
    DEF Fulfillment!Execute, OrderStopped, OrderShipped, OrderEnded, Running, Undone, Reserved,
        Authorized, Shipped, None
  <2>3. CASE pc' = "compensate"
    <3>1. /\ forward \in {"failed", "cancelled"} /\ (Reserved \/ Authorized)
          /\ State \in {"submitted", "paid", "packed"} /\ outcome = 0
      BY <1>7, <2>3 DEF Fulfillment!Execute, OrderStopped, OrderShipped, Shipped, Undone, None,
         Running
    <3>2. works' \in {First, BothReversed} /\ (Authorized => works' = BothReversed)
      BY <1>7, <2>3, <3>1, OrderReversed DEF Fulfillment!Execute, Reserved, Authorized
    <3> QED
      BY <1>7, <2>1, <2>3, <3>1, <3>2, Tails
      DEF Fulfillment!Execute, OrderPending, Reserved, Authorized
  <2> QED
    BY <1>7, <2>2, <2>3 DEF Fulfillment!Execute
<1>8. CASE Fulfillment!VoidPayment
  <2>1. State' = State
    BY <1>8, OrderStays DEF Fulfillment!VoidPayment, Fulfillment!Compensates
  <2>2. partial' \in BOOLEAN /\ (partial \/ call.voidFails => partial')
    BY <1>8, Zenon DEF Fulfillment!VoidPayment, Fulfillment!Compensates, Fulfillment!Calls
  <2> QED
    BY <1>8, <2>1, <2>2, Tails DEF Fulfillment!VoidPayment, Fulfillment!Compensates, OrderPending, None
<1>9. CASE Fulfillment!ReleaseInventory
  <2>1. State' = State
    BY <1>9, OrderStays DEF Fulfillment!ReleaseInventory, Fulfillment!Compensates
  <2>2. partial' \in BOOLEAN /\ (partial \/ call.releaseFails => partial')
    BY <1>9, Zenon DEF Fulfillment!ReleaseInventory, Fulfillment!Compensates, Fulfillment!Calls
  <2> QED
    BY <1>9, <2>1, <2>2, Tails
    DEF Fulfillment!ReleaseInventory, Fulfillment!Compensates, OrderPending, None
<1>10. CASE Fulfillment!CompensationEnds
  <2>1. State' = State
    BY <1>10, OrderStays DEF Fulfillment!CompensationEnds
  <2> QED
    BY <1>10, <2>1 DEF Fulfillment!CompensationEnds, OrderPending, None
<1>11. CASE Fulfillment!CancelOrder
  <2>1. history' = Append(history, "cancelled")
    BY <1>11, OrderMoves DEF Fulfillment!CancelOrder, OrderPending, State
  <2>2. State' = "cancelled" /\ history' \in Seq(Fulfillment!OrderStates) /\ history' # << >>
    BY <2>1, OrderMoved DEF Fulfillment!OrderStates
  <2> QED
    BY <1>11, <2>2, Tails DEF Fulfillment!CancelOrder, OrderPending, OrderEnded
<1>12. CASE Fulfillment!Respond
  <2>1. State' = State
    BY <1>12, OrderStays DEF Fulfillment!Respond
  <2>2. outcome' = OrderOutcome'
    BY <1>12 DEF Fulfillment!Respond, Fulfillment!ReportStatus, OrderOutcome, OrderEnded,
       OrderShipped, Shipped
  <2> QED
    BY <1>12, <2>1, <2>2 DEF Fulfillment!Respond, OrderEnded, OrderShipped, Shipped, Undone
<1>13. CASE Fulfillment!Cancel
  <2>1. State' = State
    BY <1>13, OrderStays DEF Fulfillment!Cancel
  <2> QED
    BY <1>13, <2>1
    DEF Fulfillment!Cancel, OrderEnded, OrderPending, OrderStopped, OrderShipped, Shipped, Undone,
        Running, Reserved, Authorized, OrderOutcome
<1>14. CASE UNCHANGED Fulfillment!vars
  <2>1. State' = State
    BY <1>14, OrderStays DEF Fulfillment!vars
  <2> QED
    BY <1>14, <2>1
    DEF Fulfillment!vars, OrderEnded, OrderPending, OrderStopped, OrderShipped, Shipped, Undone,
        Running, Reserved, Authorized, OrderOutcome
<1> QED
  BY <1>1, <1>2, <1>3, <1>4, <1>5, <1>6, <1>7, <1>8, <1>9, <1>10, <1>11, <1>12, <1>13, <1>14
  DEF Fulfillment!Next, Fulfillment!Step

\* Where a run ends, its answer, its lifecycle and its effects agree.
LEMMA FulfillmentReports == FulfillmentInv => Fulfillment!LifecycleMatchesEffects
<1> SUFFICES ASSUME FulfillmentInv, pc = "done", outcome # 400
             PROVE  Fulfillment!LifecycleMatchesEffects
  BY DEF Fulfillment!LifecycleMatchesEffects
<1>1. outcome = OrderOutcome /\ OrderEnded
  BY DEF FulfillmentInv
<1>2. CASE ~compensated /\ OrderShipped
  BY <1>1, <1>2
  DEF OrderOutcome, OrderShipped, Shipped, State, Fulfillment!LifecycleMatchesEffects
<1>3. CASE ~compensated /\ ~OrderShipped
  BY <1>1, <1>3
  DEF OrderOutcome, OrderEnded, Undone, State, Fulfillment!LifecycleMatchesEffects
<1>4. CASE compensated
  BY <1>1, <1>4
  DEF OrderOutcome, OrderEnded, State, Fulfillment!LifecycleMatchesEffects
<1> QED
  BY <1>2, <1>3, <1>4

\* The answer of the order-fulfillment integration shows a lifecycle that agrees with its
\* effects: shipped with the shipment, cancelled after compensations, and before the
\* payment when nothing was performed (fulfill and execute, server.go).
THEOREM FulfillmentAnswersAgree == Fulfillment!Spec => []Fulfillment!LifecycleMatchesEffects
<1>1. Fulfillment!Init => FulfillmentInv
  BY FulfillmentBegins
<1>2. FulfillmentInv /\ [Fulfillment!Next]_(Fulfillment!vars) => FulfillmentInv'
  BY FulfillmentStep
<1>3. FulfillmentInv => Fulfillment!LifecycleMatchesEffects
  BY FulfillmentReports
<1> QED
  BY <1>1, <1>2, <1>3, PTL DEF Fulfillment!Spec

--------------------------------------------------------------------------------
LEMMA OrderStacks ==
    /\ Fulfillment!Reversed(None) = None
    /\ Fulfillment!Reversed(First) = First
    /\ Fulfillment!Reversed(BothReversed) = Both
<1>1. \A s : Fulfillment!Reversed(s) = Reversed(s)
  BY DEF Fulfillment!Reversed, Reversed
<1> QED
  BY <1>1, Stacks

LEMMA OrderFirstState == Fulfillment!Init => Fulfillment!Abstract!Init
BY DEF Fulfillment!Init, Fulfillment!Abstract!Init, Fulfillment!Phase

\* A work that does not complete is not visible to the saga.
LEMMA OrderStopIsHidden ==
    ASSUME FulfillmentInv, NEW work \in {"submit", "reserve", "authorize", "pack", "ship"}, NEW why,
           Fulfillment!StopsAt(work, why)
    PROVE  UNCHANGED Fulfillment!Abstract!vars
BY DEF FulfillmentInv, FulfillmentTypes, Running, Fulfillment!StopsAt, Fulfillment!ForwardEnds,
       Fulfillment!Phase, Fulfillment!Abstract!vars

\* One step per action: which step of the saga it is.
LEMMA OrderStepsAreSagas ==
    ASSUME FulfillmentInv, FulfillmentInv', [Fulfillment!Next]_(Fulfillment!vars)
    PROVE  [Fulfillment!Abstract!Next]_(Fulfillment!Abstract!vars)
<1> DEFINE Standing == effects \ {"shipment"}
           Stack == IF compensated THEN Fulfillment!Reversed(works) ELSE compensations
           Created == "shipment" \in effects
<1> USE DEF FulfillmentTypes
<1>0. ASSUME Fulfillment!Phase' = Fulfillment!Phase, Standing' = Standing, Stack' = Stack,
             Created' = Created
      PROVE  UNCHANGED Fulfillment!Abstract!vars
  BY <1>0 DEF Fulfillment!Abstract!vars
<1>1. CASE Fulfillment!Fulfill
  <2>1. /\ Fulfillment!Phase = "forward" /\ ~Created /\ Stack = None
        /\ Standing' = Standing /\ Stack' = Stack /\ Created' = Created
    BY <1>1 DEF Fulfillment!Fulfill, FulfillmentInv, Running, Undone, Fulfillment!Phase
  <2>2. CASE call.valid
    BY <1>0, <1>1, <2>1, <2>2 DEF Fulfillment!Fulfill, Fulfillment!Phase
  <2>3. CASE ~call.valid
    <3>1. Fulfillment!Phase' = "failed"
      BY <1>1, <2>3 DEF Fulfillment!Fulfill, FulfillmentInv, Running, Fulfillment!Phase
    <3> QED
      BY <2>1, <3>1 DEF Fulfillment!Abstract!Next, Fulfillment!Abstract!Fail, None
  <2> QED
    BY <2>2, <2>3
<1>2. CASE Fulfillment!SubmitOrder
  <2>1. ASSUME NEW why, Fulfillment!StopsAt("submit", why) PROVE UNCHANGED Fulfillment!Abstract!vars
    BY <2>1, OrderStopIsHidden
  <2>2. ASSUME pc = "submit", Fulfillment!GoOn("reserve"), UNCHANGED <<effects, compensations>>
        PROVE  UNCHANGED Fulfillment!Abstract!vars
    BY <1>0, <2>2 DEF Fulfillment!GoOn, Fulfillment!Phase
  <2> QED
    BY <1>2, <2>1, <2>2 DEF Fulfillment!SubmitOrder
<1>3. CASE Fulfillment!ReserveInventory
  <2>1. ASSUME NEW why, Fulfillment!StopsAt("reserve", why) PROVE UNCHANGED Fulfillment!Abstract!vars
    BY <2>1, OrderStopIsHidden
  <2>2. ASSUME pc = "reserve", Fulfillment!Performs("inventory"), Fulfillment!GoOn("authorize")
        PROVE  Fulfillment!Abstract!Perform("inventory")
    <3>1. /\ Fulfillment!Phase = "forward" /\ Fulfillment!Phase' = "forward" /\ ~Created
          /\ "inventory" \notin Standing /\ ~compensated /\ ~compensated'
      BY <2>2 DEF Fulfillment!GoOn, Fulfillment!Phase, FulfillmentInv, Running, Undone
    <3>2. /\ Standing' = Standing \union {"inventory"} /\ Stack' = Append(Stack, "inventory")
          /\ Created' = Created
      BY <2>2, <3>1 DEF Fulfillment!Performs
    <3> QED
      BY <3>1, <3>2 DEF Fulfillment!Abstract!Perform
  <2> QED
    BY <1>3, <2>1, <2>2 DEF Fulfillment!ReserveInventory, Fulfillment!Abstract!Next
<1>4. CASE Fulfillment!AuthorizePayment
  <2>1. ASSUME NEW why, Fulfillment!StopsAt("authorize", why) PROVE UNCHANGED Fulfillment!Abstract!vars
    BY <2>1, OrderStopIsHidden
  <2>2. ASSUME pc = "authorize", Fulfillment!Performs("payment"), Fulfillment!GoOn("pack")
        PROVE  Fulfillment!Abstract!Perform("payment")
    <3>1. /\ Fulfillment!Phase = "forward" /\ Fulfillment!Phase' = "forward" /\ ~Created
          /\ "payment" \notin Standing /\ ~compensated /\ ~compensated'
      BY <2>2 DEF Fulfillment!GoOn, Fulfillment!Phase, FulfillmentInv, Running, Reserved
    <3>2. /\ Standing' = Standing \union {"payment"} /\ Stack' = Append(Stack, "payment")
          /\ Created' = Created
      BY <2>2, <3>1 DEF Fulfillment!Performs
    <3> QED
      BY <3>1, <3>2 DEF Fulfillment!Abstract!Perform
  <2> QED
    BY <1>4, <2>1, <2>2 DEF Fulfillment!AuthorizePayment, Fulfillment!Abstract!Next
<1>5. CASE Fulfillment!PackOrder
  <2>1. ASSUME NEW why, Fulfillment!StopsAt("pack", why) PROVE UNCHANGED Fulfillment!Abstract!vars
    BY <2>1, OrderStopIsHidden
  <2>2. ASSUME pc = "pack", Fulfillment!GoOn("ship"), UNCHANGED <<effects, compensations>>
        PROVE  UNCHANGED Fulfillment!Abstract!vars
    BY <1>0, <2>2 DEF Fulfillment!GoOn, Fulfillment!Phase
  <2> QED
    BY <1>5, <2>1, <2>2 DEF Fulfillment!PackOrder
<1>6. CASE Fulfillment!CreateShipment
  <2>1. ASSUME NEW why, Fulfillment!StopsAt("ship", why) PROVE UNCHANGED Fulfillment!Abstract!vars
    BY <2>1, OrderStopIsHidden
  <2>2. ASSUME pc = "ship", effects' = effects \union {"shipment"}, Fulfillment!ForwardEnds("completed")
        PROVE  Fulfillment!Abstract!Ship
    <3>1. /\ Fulfillment!Phase = "forward" /\ Fulfillment!Phase' = "forward" /\ ~Created /\ Created'
          /\ Standing = {"inventory", "payment"} /\ Standing' = Standing /\ Stack' = Stack
      BY <2>2 DEF Fulfillment!ForwardEnds, Fulfillment!Phase, FulfillmentInv, Running, Authorized
    <3> QED
      BY <3>1 DEF Fulfillment!Abstract!Ship
  <2> QED
    BY <1>6, <2>1, <2>2 DEF Fulfillment!CreateShipment, Fulfillment!Abstract!Next
<1>7. CASE Fulfillment!Execute
  <2>1. /\ Fulfillment!Phase = "forward" /\ ~compensated
        /\ Standing' = Standing /\ Created' = Created /\ compensations' = compensations
    BY <1>7 DEF Fulfillment!Execute, FulfillmentInv, Running, Fulfillment!Phase
  <2>2. CASE forward = "completed"
    <3>1. Fulfillment!Phase' = "completed" /\ Created /\ Stack' = Stack
      BY <1>7, <2>1, <2>2
      DEF Fulfillment!Execute, FulfillmentInv, OrderStopped, OrderShipped, Shipped, Fulfillment!Phase
    <3> QED
      BY <2>1, <3>1 DEF Fulfillment!Abstract!Next, Fulfillment!Abstract!Complete
  <2>3. CASE forward # "completed" /\ compensations = None
    <3>1. Fulfillment!Phase' = "failed" /\ ~Created /\ Stack' = Stack /\ Stack = None
      BY <1>7, <2>1, <2>3, Appends
      DEF Fulfillment!Execute, FulfillmentInv, OrderStopped, OrderShipped, Shipped, Undone, Reserved,
          Authorized, Fulfillment!Phase, None
    <3> QED
      BY <2>1, <3>1 DEF Fulfillment!Abstract!Next, Fulfillment!Abstract!Fail, None
  <2>4. CASE forward # "completed" /\ compensations # None
    <3>1. /\ Fulfillment!Phase' = "compensating" /\ compensated'
          /\ ~Created /\ compensations \in {First, Both} /\ Stack = compensations
      BY <1>7, <2>1, <2>4
      DEF Fulfillment!Execute, FulfillmentInv, OrderStopped, OrderShipped, Shipped, Undone, Reserved,
          Authorized, Fulfillment!Phase, None
    <3>2. works' = IF compensations = First THEN First ELSE BothReversed
      BY <1>7, <2>4, <3>1, OrderReversed DEF Fulfillment!Execute, None
    <3>3. Stack' = Stack
      BY <3>1, <3>2, OrderStacks
    <3> QED
      BY <2>1, <2>4, <3>1, <3>3 DEF Fulfillment!Abstract!Next, Fulfillment!Abstract!GiveUp, None
  <2> QED
    BY <2>2, <2>3, <2>4
<1>8. CASE Fulfillment!VoidPayment
  <2>1. works = BothReversed /\ works' = First
    BY <1>8, Tails DEF Fulfillment!VoidPayment, Fulfillment!Compensates, FulfillmentInv, OrderPending, None
  <2>2. /\ Fulfillment!Phase = "compensating" /\ Fulfillment!Phase' = "compensating"
        /\ compensated /\ compensated'
        /\ Created' = Created /\ Standing' \in {Standing, Standing \ {"payment"}}
    BY <1>8
    DEF Fulfillment!VoidPayment, Fulfillment!Compensates, FulfillmentInv, OrderPending, Fulfillment!Phase
  <2>3. Stack = Both /\ Stack' = First
    BY <2>1, <2>2, OrderStacks
  <2> QED
    BY <2>2, <2>3, Popped, Appends DEF Fulfillment!Abstract!Next, Fulfillment!Abstract!Undo, None
<1>9. CASE Fulfillment!ReleaseInventory
  <2>1. works = First /\ works' = None
    BY <1>9, Tails
    DEF Fulfillment!ReleaseInventory, Fulfillment!Compensates, FulfillmentInv, OrderPending, None
  <2>2. /\ Fulfillment!Phase = "compensating" /\ Fulfillment!Phase' = "compensating"
        /\ compensated /\ compensated'
        /\ Created' = Created /\ Standing' \in {Standing, Standing \ {"inventory"}}
    BY <1>9
    DEF Fulfillment!ReleaseInventory, Fulfillment!Compensates, FulfillmentInv, OrderPending,
        Fulfillment!Phase
  <2>3. Stack = First /\ Stack' = None
    BY <2>1, <2>2, OrderStacks
  <2> QED
    BY <2>2, <2>3, Popped, Appends DEF Fulfillment!Abstract!Next, Fulfillment!Abstract!Undo, None
<1>10. CASE Fulfillment!CompensationEnds
  <2>1. /\ Fulfillment!Phase = "compensating" /\ Fulfillment!Phase' = "compensated"
        /\ compensated /\ works = None
        /\ Standing' = Standing /\ Stack' = Stack /\ Created' = Created
    BY <1>10 DEF Fulfillment!CompensationEnds, FulfillmentInv, OrderPending, Fulfillment!Phase, None
  <2>2. Stack = None
    BY <2>1, OrderStacks
  <2> QED
    BY <2>1, <2>2 DEF Fulfillment!Abstract!Next, Fulfillment!Abstract!Finish, None
<1>11. CASE Fulfillment!CancelOrder
  BY <1>0, <1>11 DEF Fulfillment!CancelOrder, FulfillmentInv, OrderPending, Fulfillment!Phase
<1>12. CASE Fulfillment!Respond
  BY <1>0, <1>12 DEF Fulfillment!Respond, FulfillmentInv, Fulfillment!Phase
<1>13. CASE Fulfillment!Cancel
  BY <1>0, <1>13 DEF Fulfillment!Cancel, FulfillmentInv, Fulfillment!Phase
<1>14. CASE UNCHANGED Fulfillment!vars
  BY <1>0, <1>14 DEF Fulfillment!vars, FulfillmentInv, Fulfillment!Phase
<1> QED
  BY <1>1, <1>2, <1>3, <1>4, <1>5, <1>6, <1>7, <1>8, <1>9, <1>10, <1>11, <1>12, <1>13, <1>14
  DEF Fulfillment!Next, Fulfillment!Step

\* A run of the order-fulfillment integration implements the saga, whenever its client
\* leaves: its compensations run under a context without cancellation (execute,
\* server.go).
THEOREM FulfillmentImplementsSaga == Fulfillment!Spec => Fulfillment!Abstract!Spec
<1>1. Fulfillment!Init => FulfillmentInv
  BY FulfillmentBegins
<1>2. FulfillmentInv /\ [Fulfillment!Next]_(Fulfillment!vars) => FulfillmentInv'
  BY FulfillmentStep
<1>3. Fulfillment!Init => Fulfillment!Abstract!Init
  BY OrderFirstState
<1>4. FulfillmentInv /\ FulfillmentInv' /\ [Fulfillment!Next]_(Fulfillment!vars)
         => [Fulfillment!Abstract!Next]_(Fulfillment!Abstract!vars)
  BY OrderStepsAreSagas
<1> QED
  BY <1>1, <1>2, <1>3, <1>4, PTL DEF Fulfillment!Spec, Fulfillment!Abstract!Spec


LEMMA FulfillmentTyped == FulfillmentInv => Fulfillment!TypeOK
<1> SUFFICES ASSUME FulfillmentInv PROVE Fulfillment!TypeOK
  OBVIOUS
<1>0. FulfillmentTypes
  BY DEF FulfillmentInv
<1>1. compensations \in {None, First, Both} /\ works \in {None, First, BothReversed}
  BY <1>0 DEF FulfillmentInv, FulfillmentTypes, Running, Undone, Reserved, Authorized, OrderStopped,
      OrderShipped, Shipped, OrderPending, OrderEnded
<1>2. /\ effects \subseteq {"inventory", "payment", "shipment"}
      /\ forward \in {"none", "completed", "failed", "cancelled"}
  BY <1>0 DEF FulfillmentInv, FulfillmentTypes, Running, Undone, Reserved, Authorized, OrderStopped,
      OrderShipped, Shipped, OrderPending, OrderEnded
<1>3. outcome \in {0, 200, 400, 408, 409}
  BY <1>0 DEF FulfillmentInv, FulfillmentTypes, Running, OrderEnded, OrderShipped, Shipped,
      OrderPending, OrderOutcome
<1>4. compensations \in Seq({"inventory", "payment"}) /\ works \in Seq({"inventory", "payment"})
  BY <1>1, ListTypes, Zenon
<1> QED
  BY <1>0, <1>2, <1>3, <1>4, Zenon DEF FulfillmentTypes, Fulfillment!TypeOK

================================================================================
