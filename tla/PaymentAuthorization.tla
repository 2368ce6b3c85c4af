-------------------------- MODULE PaymentAuthorization --------------------------
(***************************************************************************)
(* The API of examples/payment-authorization-state: concurrent requests    *)
(* move one payment through a state machine, each under an idempotency     *)
(* key.  The lookup of the key, the transition and the stored response are *)
(* one critical section; canTransition asks the machine without it and     *)
(* takes the mutex only for its snapshot.                                  *)
(***************************************************************************)
EXTENDS Naturals

CONSTANTS
    Requests,  \* concurrent HTTP requests
    Keys       \* idempotency keys clients use

VARIABLES
    pc,        \* request -> where it stands
    call,      \* request -> [op, event, key]
    expired,   \* request -> its context is done
    seen,      \* request -> the state canTransition asked about
    outcome,   \* request -> [code, event, previous, current, replay]
    known,     \* request -> ghost: the entries when it arrived
    entries,   \* idempotencyStore.entries
    amount,    \* is AmountCents positive?
    machine    \* the machine's state

requestVars == <<pc, call, expired, seen, outcome, known>>
vars == <<requestVars, entries, amount, machine>>

PaymentStates == {"requested", "authorized", "captured", "failed", "cancelled"}
PaymentEvents == {"authorize", "capture", "fail", "cancel"}
NoCall == [op |-> "none", event |-> "none", key |-> "none"]
NoEntry == [event |-> "none", previous |-> "none", current |-> "none"]
NoOutcome == [code |-> "none", entry |-> NoEntry, replay |-> FALSE]
Entries ==
    [event : PaymentEvents, previous : PaymentStates, current : PaymentStates] \union {NoEntry}
Snapshots == {[NoEntry EXCEPT !.current = state] : state \in PaymentStates}
Codes == {"none", "ok", "unavailable", "invalid_request", "unknown_event", "request_timeout",
          "final_state", "invalid_transition", "guard_rejected", "idempotency_conflict"}

TypeOK ==
    /\ pc \in [Requests -> {"idle", "locked", "can", "snapshot", "done"}]
    /\ expired \in [Requests -> BOOLEAN]
    /\ seen \in [Requests -> PaymentStates \union {"none"}]
    /\ \A r \in Requests :
          outcome[r] \in [code : Codes, entry : Entries \union Snapshots, replay : BOOLEAN]
    /\ known \in [Requests -> [Keys -> Entries]]
    /\ entries \in [Keys -> Entries]
    /\ amount \in BOOLEAN
    /\ machine \in PaymentStates

\* newMachine, [event, from, to].
Transitions ==
    {<<"authorize", "requested", "authorized">>, <<"capture", "authorized", "captured">>,
     <<"fail", "requested", "failed">>, <<"fail", "authorized", "failed">>,
     <<"cancel", "requested", "cancelled">>, <<"cancel", "authorized", "cancelled">>}

FinalStates == {"captured", "failed", "cancelled"}
Targets(event) == {to \in PaymentStates : <<event, machine, to>> \in Transitions}

\* positiveAmountGuard.
GuardRejects(event) == event = "authorize" /\ ~amount

Init ==
    /\ pc = [r \in Requests |-> "idle"]
    /\ call = [r \in Requests |-> NoCall]
    /\ expired = [r \in Requests |-> FALSE]
    /\ seen = [r \in Requests |-> "none"]
    /\ outcome = [r \in Requests |-> NoOutcome]
    /\ entries = [k \in Keys |-> NoEntry]
    /\ known = [r \in Requests |-> entries]
    /\ amount \in BOOLEAN
    /\ machine = "requested"

Goto(r, label) == pc' = [pc EXCEPT ![r] = label]

Answer(r, code, entry, replay) ==
    outcome' = [outcome EXCEPT ![r] = [code |-> code, entry |-> entry, replay |-> replay]]
Refuse(r, code) == Answer(r, code, NoEntry, FALSE) /\ UNCHANGED <<entries, machine>>

\* A request arrives; parseTransitionRequest and parseEvent refuse an unknown event.
Start(r, op, event, key) ==
    /\ pc[r] = "idle"
    /\ call' = [call EXCEPT ![r] = [op |-> op, event |-> event, key |-> key]]
    /\ known' = [known EXCEPT ![r] = entries]
    /\ IF event \in PaymentEvents
       THEN Goto(r, IF op = "can" THEN "can" ELSE "locked") /\ UNCHANGED outcome
       ELSE /\ Goto(r, "done")
            /\ Answer(r, IF op = "can" THEN "unknown_event" ELSE "invalid_request", NoEntry, FALSE)
    /\ UNCHANGED <<expired, seen, entries, amount, machine>>

Expire(r) ==
    /\ pc[r] \in {"locked", "can"}
    /\ ~expired[r]
    /\ expired' = [expired EXCEPT ![r] = TRUE]
    /\ UNCHANGED <<pc, call, seen, outcome, known, entries, amount, machine>>

\* What machine.Transition says against the event, "none" if it moves.
Objection(r, event) ==
    CASE expired[r] -> "request_timeout"
      [] ~expired[r] /\ Targets(event) = {} ->
            IF machine \in FinalStates THEN "final_state" ELSE "invalid_transition"
      [] ~expired[r] /\ Targets(event) # {} /\ GuardRejects(event) -> "guard_rejected"
      [] OTHER -> "none"

\* idempotencyStore.replay.
Replay(r, entry) ==
    IF entry.event = call[r].event
    THEN Answer(r, "ok", entry, TRUE) /\ UNCHANGED <<entries, machine>>
    ELSE Refuse(r, "idempotency_conflict")

\* The machine moves and idempotencyStore.store keeps the response.
Move(r) ==
    \E to \in Targets(call[r].event) :
        LET entry == [event |-> call[r].event, previous |-> machine, current |-> to]
        IN  /\ Answer(r, "ok", entry, FALSE)
            /\ machine' = to
            /\ entries' = [entries EXCEPT ![call[r].key] = entry]

\* transitionWithIdempotency holds the mutex throughout.
TransitionWithIdempotency(r) ==
    LET entry == entries[call[r].key]
        objection == Objection(r, call[r].event)
    IN
    /\ pc[r] = "locked"
    /\ \/ entry # NoEntry /\ Replay(r, entry)
       \/ entry = NoEntry /\ objection # "none" /\ Refuse(r, objection)
       \/ entry = NoEntry /\ objection = "none" /\ Move(r)
    /\ Goto(r, "done")
    /\ UNCHANGED <<call, expired, seen, known, amount>>

\* canTransition asks the machine; an unknown event of the state is no error.
CanTransition(r) ==
    LET objection == Objection(r, call[r].event)
    IN
    /\ pc[r] = "can"
    /\ IF objection \in {"request_timeout", "guard_rejected"}
       THEN Refuse(r, objection) /\ Goto(r, "done")
       ELSE Refuse(r, IF objection = "none" THEN "ok" ELSE "unavailable") /\ Goto(r, "snapshot")
    /\ seen' = [seen EXCEPT ![r] = machine]
    /\ UNCHANGED <<call, expired, known, amount>>

\* snapshot under the mutex, for the response of canTransition.
Snapshot(r) ==
    /\ pc[r] = "snapshot"
    /\ Answer(r, outcome[r].code, [NoEntry EXCEPT !.current = machine], FALSE)
    /\ Goto(r, "done")
    /\ UNCHANGED <<call, expired, seen, known, entries, amount, machine>>

\* The client sends its next request.
Again(r) ==
    /\ pc[r] = "done"
    /\ Goto(r, "idle")
    /\ call' = [call EXCEPT ![r] = NoCall]
    /\ expired' = [expired EXCEPT ![r] = FALSE]
    /\ seen' = [seen EXCEPT ![r] = "none"]
    /\ outcome' = [outcome EXCEPT ![r] = NoOutcome]
    /\ known' = [known EXCEPT ![r] = [k \in Keys |-> NoEntry]]
    /\ UNCHANGED <<entries, amount, machine>>

Next ==
    \E r \in Requests :
        \/ \E event \in PaymentEvents \union {"other"}, key \in Keys :
              Start(r, "transition", event, key)
        \/ \E event \in PaymentEvents \union {"other"} : Start(r, "can", event, "none")
        \/ Expire(r)
        \/ TransitionWithIdempotency(r)
        \/ CanTransition(r)
        \/ Snapshot(r)
        \/ Again(r)

Spec == Init /\ [][Next]_vars

--------------------------------------------------------------------------------
\* "Returns the stored transition response" (README): a retry of a command that had
\* succeeded before the retry arrived is answered with the first answer, whatever has
\* happened to the payment and to the retry's deadline since, and a key that has
\* succeeded with another event is refused.
RetriesAreReplayed ==
    \A r \in Requests :
        pc[r] = "done" /\ call[r].op = "transition" /\ call[r].event \in PaymentEvents =>
            LET before == known[r][call[r].key]
            IN  before # NoEntry =>
                    IF before.event = call[r].event
                    THEN outcome[r] = [code |-> "ok", entry |-> before, replay |-> TRUE]
                    ELSE outcome[r].code = "idempotency_conflict"

\* The stored responses are the moves of the payment: they lead from "requested" to the
\* present state, one key for each, and no two start in the same state.
EntriesAreMoves ==
    LET kept == {k \in Keys : entries[k] # NoEntry}
    IN  /\ \A k \in kept : <<entries[k].event, entries[k].previous, entries[k].current>>
                              \in Transitions
        /\ \A k, l \in kept : entries[k].previous = entries[l].previous => k = l
        /\ machine # "requested" => \E k \in kept : entries[k].current = machine

================================================================================
