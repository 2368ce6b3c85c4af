-------------------------------- MODULE SqsQueue --------------------------------
(***************************************************************************)
(* An SQS standard queue as the workers of examples/sqs-floci-worker and   *)
(* examples/s3-sqs-dynamodb-document-workflow use it: a received message   *)
(* is hidden until it is deleted, made visible or its visibility timeout   *)
(* passes, and every delivery carries a receipt handle of its own.  The    *)
(* service is external; a call may fail before or after it took effect.    *)
(***************************************************************************)
EXTENDS Naturals, FiniteSets

CONSTANTS
    Messages,   \* message slots, a bound on what is ever sent
    NoBody,     \* the body of a slot that is not in use
    Workers,    \* concurrent callers of ReceiveMessage
    MaxFaults   \* bound on failing calls, crashes and passed visibility timeouts

VARIABLES
    queue,    \* message -> [state, body]
    held,     \* worker -> [message, current]: its delivery, message "none" without one, and
              \* whether its receipt handle is the one of the latest delivery
    faults    \* how many calls have failed so far

queueVars == <<queue, held, faults>>

Unsent == [state |-> "unsent", body |-> NoBody]
NoDelivery == [message |-> "none", current |-> FALSE]

QueueTypeOK ==
    /\ \A m \in Messages : queue[m].state \in {"unsent", "visible", "inflight", "deleted"}
    /\ \A w \in Workers : /\ held[w].message \in Messages \union {"none"}
                          /\ held[w].current \in BOOLEAN
    /\ faults \in 0 .. MaxFaults

QueueInit ==
    /\ queue = [m \in Messages |-> Unsent]
    /\ held = [w \in Workers |-> NoDelivery]
    /\ faults = 0

Sent(m) == queue[m].state # "unsent"
Fault == faults < MaxFaults /\ faults' = faults + 1
SetState(m, state) == queue' = [queue EXCEPT ![m].state = state]

SendMessage(body) ==
    LET free == {m \in Messages : ~Sent(m)} IN
    /\ free # {}
    /\ queue' = [queue EXCEPT ![CHOOSE m \in free : TRUE] =
                     [state |-> "visible", body |-> body]]

\* A delivery replaces the receipt handle of every earlier one.
ReceiveMessage(w, m) ==
    /\ queue[m].state = "visible"
    /\ SetState(m, "inflight")
    /\ held' = [v \in Workers |->
                   IF v = w THEN [message |-> m, current |-> TRUE]
                   ELSE [held[v] EXCEPT !.current = @ /\ held[v].message # m]]

\* A handle that a newer delivery has replaced may or may not delete the message.
DeleteMessage(w) ==
    \/ SetState(held[w].message, "deleted")
    \/ ~held[w].current /\ UNCHANGED queue

ChangeMessageVisibility(w) ==
    LET m == held[w].message IN
    IF held[w].current /\ queue[m].state = "inflight"
    THEN SetState(m, "visible")
    ELSE UNCHANGED queue

Release(w) == held' = [held EXCEPT ![w] = NoDelivery]

\* The visibility timeout of a delivery passes while a worker is still busy with it or
\* after it gave up.  Only the former counts as a fault.
VisibilityTimeout(m) ==
    /\ queue[m].state = "inflight"
    /\ IF \E w \in Workers : held[w] = [message |-> m, current |-> TRUE]
       THEN Fault
       ELSE UNCHANGED faults
    /\ SetState(m, "visible")
    /\ UNCHANGED held

================================================================================
