----------------------------- MODULE OrderLifecycle -----------------------------
(***************************************************************************)
(* The API of examples/order-lifecycle-state-api: concurrent requests move *)
(* one order through a state machine or ask whether they could.  The       *)
(* machine of the state library looks a transition up, runs its guard and  *)
(* moves only if the state is still the same.  The snapshot in a response  *)
(* reads the machine twice more, after the move.                           *)
(***************************************************************************)
EXTENDS Naturals

CONSTANT Requests   \* concurrent HTTP requests

VARIABLES
    pc,        \* request -> where it stands
    call,      \* request -> [op, event]
    expired,   \* request -> its context is done
    seen,      \* request -> the machine's state when it looked the transition up
    view,      \* request -> the states in which its snapshot was read, [state, events]
    outcome,   \* request -> [code, current]
    total,     \* is TotalCents positive?
    machine    \* the machine's state

requestVars == <<pc, call, expired, seen, view, outcome>>
vars == <<requestVars, total, machine>>

OrderStates == {"draft", "submitted", "paid", "packed", "shipped", "cancelled"}
OrderEvents == {"submit", "pay", "pack", "ship", "cancel"}
NoCall == [op |-> "none", event |-> "none"]
NoView == [state |-> "none", events |-> "none"]
NoOutcome == [code |-> "none", current |-> "none"]
Codes == {"none", "ok", "unavailable", "unknown_event", "request_timeout", "final_state",
          "invalid_transition", "guard_rejected", "concurrent_transition"}

TypeOK ==
    /\ pc \in [Requests -> {"idle", "lookup", "commit", "state", "events", "done"}]
    /\ expired \in [Requests -> BOOLEAN]
    /\ seen \in [Requests -> OrderStates \union {"none"}]
    /\ \A r \in Requests :
          /\ view[r].state \in OrderStates \union {"none"}
          /\ view[r].events \in OrderStates \union {"none"}
          /\ outcome[r].code \in Codes
          /\ outcome[r].current \in OrderStates \union {"none"}
    /\ total \in BOOLEAN
    /\ machine \in OrderStates

\* newMachine, [event, from, to].
Transitions ==
    {<<"submit", "draft", "submitted">>, <<"pay", "submitted", "paid">>,
     <<"pack", "paid", "packed">>, <<"ship", "packed", "shipped">>,
     <<"cancel", "draft", "cancelled">>, <<"cancel", "submitted", "cancelled">>,
     <<"cancel", "paid", "cancelled">>}

FinalStates == {"shipped", "cancelled"}
Targets(event, from) == {to \in OrderStates : <<event, from, to>> \in Transitions}

Init ==
    /\ pc = [r \in Requests |-> "idle"]
    /\ call = [r \in Requests |-> NoCall]
    /\ expired = [r \in Requests |-> FALSE]
    /\ seen = [r \in Requests |-> "none"]
    /\ view = [r \in Requests |-> NoView]
    /\ outcome = [r \in Requests |-> NoOutcome]
    /\ total \in BOOLEAN
    /\ machine = "draft"

Goto(r, label) == pc' = [pc EXCEPT ![r] = label]

Answer(r, code, label) ==
    /\ outcome' = [outcome EXCEPT ![r].code = code]
    /\ Goto(r, label)

\* A request arrives; parseEvent refuses an unknown event.
Start(r, op, event) ==
    /\ pc[r] = "idle"
    /\ call' = [call EXCEPT ![r] = [op |-> op, event |-> event]]
    /\ IF event \in OrderEvents THEN Goto(r, "lookup") /\ UNCHANGED outcome
                                ELSE Answer(r, "unknown_event", "done")
    /\ UNCHANGED <<expired, seen, view, total, machine>>

Expire(r) ==
    /\ pc[r] = "lookup"
    /\ ~expired[r]
    /\ expired' = [expired EXCEPT ![r] = TRUE]
    /\ UNCHANGED <<pc, call, seen, view, outcome, total, machine>>

\* positiveTotalGuard.
GuardRejects(event) == event = "pay" /\ ~total

\* machine.Transition and machine.CanTransition up to the guard.
Lookup(r) ==
    LET event == call[r].event
        known == Targets(event, machine) # {}
        asks == call[r].op = "can"
    IN
    /\ pc[r] = "lookup"
    /\ seen' = [seen EXCEPT ![r] = machine]
    /\ \/ expired[r] /\ Answer(r, "request_timeout", "done")
       \/ /\ ~expired[r] /\ ~known /\ asks
          /\ Answer(r, "unavailable", "state")
       \/ /\ ~expired[r] /\ ~known /\ ~asks
          /\ Answer(r, IF machine \in FinalStates THEN "final_state" ELSE "invalid_transition",
                    "done")
       \/ ~expired[r] /\ known /\ GuardRejects(event) /\ Answer(r, "guard_rejected", "done")
       \/ ~expired[r] /\ known /\ ~GuardRejects(event) /\ asks /\ Answer(r, "ok", "state")
       \/ /\ ~expired[r] /\ known /\ ~GuardRejects(event) /\ ~asks
          /\ Goto(r, "commit")
          /\ UNCHANGED outcome
    /\ UNCHANGED <<call, expired, view, total, machine>>

\* machine.Transition moves, or reports that another request was faster.
Commit(r) ==
    /\ pc[r] = "commit"
    /\ IF machine = seen[r]
       THEN \E to \in Targets(call[r].event, seen[r]) :
               /\ machine' = to
               /\ outcome' = [outcome EXCEPT ![r] = [code |-> "ok", current |-> to]]
               /\ Goto(r, "state")
       ELSE /\ Answer(r, "concurrent_transition", "done")
            /\ UNCHANGED machine
    /\ UNCHANGED <<call, expired, seen, view, total>>

\* snapshot: State and AllowedEvents are two reads of the machine.
SnapshotState(r) ==
    /\ pc[r] = "state"
    /\ view' = [view EXCEPT ![r].state = machine]
    /\ Goto(r, "events")
    /\ UNCHANGED <<call, expired, seen, outcome, total, machine>>

SnapshotEvents(r) ==
    /\ pc[r] = "events"
    /\ view' = [view EXCEPT ![r].events = machine]
    /\ Goto(r, "done")
    /\ UNCHANGED <<call, expired, seen, outcome, total, machine>>

\* The client sends its next request.
Again(r) ==
    /\ pc[r] = "done"
    /\ Goto(r, "idle")
    /\ call' = [call EXCEPT ![r] = NoCall]
    /\ expired' = [expired EXCEPT ![r] = FALSE]
    /\ seen' = [seen EXCEPT ![r] = "none"]
    /\ view' = [view EXCEPT ![r] = NoView]
    /\ outcome' = [outcome EXCEPT ![r] = NoOutcome]
    /\ UNCHANGED <<total, machine>>

Next ==
    \E r \in Requests :
        \/ \E op \in {"transition", "can"}, event \in OrderEvents \union {"other"} :
              Start(r, op, event)
        \/ Expire(r)
        \/ Lookup(r)
        \/ Commit(r)
        \/ SnapshotState(r)
        \/ SnapshotEvents(r)
        \/ Again(r)

Spec == Init /\ [][Next]_vars

--------------------------------------------------------------------------------
\* The states an order can still reach.
Rank(s) ==
    CASE s = "draft" -> 0 [] s = "submitted" -> 1 [] s = "paid" -> 2 [] s = "packed" -> 3
      [] OTHER -> 4
Reaches(s, t) == s = t \/ (s \notin FinalStates /\ Rank(s) < Rank(t))

\* "a concurrent request loses the state-change race" (README): of two requests that
\* both say they moved the order, one moved it from a state behind the other's, and
\* the order is never behind a move that was reported.
MovesAreExclusive ==
    \A r \in Requests :
        outcome[r].code = "ok" /\ call[r].op = "transition" =>
            /\ Reaches(outcome[r].current, machine)
            /\ \A s \in Requests \ {r} :
                  outcome[s].code = "ok" /\ call[s].op = "transition" => seen[r] # seen[s]

\* A response shows a state at or behind the one the request acted on, and the events of
\* that state or of a later one.
SnapshotsFollow ==
    \A r \in Requests :
        pc[r] = "done" /\ view[r].state # "none" =>
            /\ Reaches(IF outcome[r].current # "none" THEN outcome[r].current ELSE seen[r],
                       view[r].state)
            /\ Reaches(view[r].state, view[r].events)
            /\ Reaches(view[r].events, machine)

================================================================================
