------------------------------- MODULE TaskQueue -------------------------------
(***************************************************************************)
(* The fulfillment task queue of examples/sqs-floci-worker: Enqueue sends  *)
(* a task and PollOnce receives one, calls the handler and acknowledges    *)
(* the message only after the handler has succeeded.  Several workers poll *)
(* the queue at the same time.                                             *)
(***************************************************************************)
EXTENDS SqsQueue

CONSTANTS
    Tasks,     \* bodies that validateTask accepts
    BadTasks   \* bodies that decodeTask refuses: empty, no JSON or a field missing

VARIABLES
    pc,       \* worker -> where its PollOnce stands
    effects   \* message -> how often the handler has done its work for it

vars == <<queueVars, pc, effects>>

TaskAssumption == Tasks \intersect BadTasks = {} /\ MaxFaults \in Nat

TypeOK ==
    /\ QueueTypeOK
    /\ pc \in [Workers -> {"idle", "decode", "handle", "ack", "retry"}]
    /\ effects \in [Messages -> Nat]

Init ==
    /\ QueueInit
    /\ pc = [w \in Workers |-> "idle"]
    /\ effects = [m \in Messages |-> 0]

Goto(w, label) == pc' = [pc EXCEPT ![w] = label]
Handled(m) == effects' = [effects EXCEPT ![m] = @ + 1]

\* Enqueue of a task that validateTask accepts, or a message of another producer.
Enqueue(task) ==
    /\ SendMessage(task)
    /\ UNCHANGED <<held, faults, pc, effects>>

\* SendMessage fails after the message was sent: the caller enqueues the task again.
EnqueueFails(task) ==
    /\ Fault
    /\ SendMessage(task)
    /\ UNCHANGED <<held, pc, effects>>

\* PollOnce receives one message; without a visible one it returns ErrNoMessages.
Receive(w, m) ==
    /\ pc[w] = "idle"
    /\ ReceiveMessage(w, m)
    /\ Goto(w, "decode")
    /\ UNCHANGED <<faults, effects>>

decodeTask(w) ==
    /\ pc[w] = "decode"
    /\ Goto(w, IF queue[held[w].message].body \in Tasks THEN "handle" ELSE "retry")
    /\ UNCHANGED <<queueVars, effects>>

Handle(w) ==
    /\ pc[w] = "handle"
    /\ Handled(held[w].message)
    /\ Goto(w, "ack")
    /\ UNCHANGED queueVars

\* The handler returns an error, before or after its work was done.
HandlerFails(w) ==
    /\ pc[w] = "handle"
    /\ Fault
    /\ UNCHANGED effects \/ Handled(held[w].message)
    /\ Goto(w, "retry")
    /\ UNCHANGED <<queue, held>>

Ack(w) ==
    /\ pc[w] = "ack"
    /\ DeleteMessage(w)
    /\ Release(w)
    /\ Goto(w, "idle")
    /\ UNCHANGED <<faults, effects>>

RetrySoon(w) ==
    /\ pc[w] = "retry"
    /\ ChangeMessageVisibility(w)
    /\ Release(w)
    /\ Goto(w, "idle")
    /\ UNCHANGED <<faults, effects>>

\* ack or retrySoon fails, perhaps after the call took effect, or the worker dies.
GiveUp(w) ==
    /\ pc[w] # "idle"
    /\ Fault
    /\ \/ UNCHANGED queue
       \/ pc[w] = "ack" /\ DeleteMessage(w)
       \/ pc[w] = "retry" /\ ChangeMessageVisibility(w)
    /\ Release(w)
    /\ Goto(w, "idle")
    /\ UNCHANGED effects

Timeout(m) == VisibilityTimeout(m) /\ UNCHANGED <<pc, effects>>

PollStep(w) == decodeTask(w) \/ Handle(w) \/ Ack(w) \/ RetrySoon(w)

Next ==
    \/ \E t \in Tasks \union BadTasks : Enqueue(t)
    \/ \E t \in Tasks : EnqueueFails(t)
    \/ \E w \in Workers, m \in Messages : Receive(w, m)
    \/ \E w \in Workers : PollStep(w) \/ HandlerFails(w) \/ GiveUp(w)
    \/ \E m \in Messages : Timeout(m)

Spec == Init /\ [][Next]_vars

--------------------------------------------------------------------------------
Busy(m) == {w \in Workers : held[w].message = m /\ pc[w] = "ack"}

\* PollOnce acknowledges only after the handler: a deleted message was worked on, and
\* work is done again only after a failed call, a dead worker or a visibility timeout
\* that passed too early.
WorkedBeforeAck ==
    \A m \in Messages :
        /\ queue[m].state = "deleted" => effects[m] > 0 /\ queue[m].body \in Tasks
        /\ effects[m] <= 1 + faults
        /\ Busy(m) # {} => effects[m] >= Cardinality(Busy(m))

\* PollOnce: every task is worked on and acknowledged in the end, also beside a message
\* that can never be decoded.
Waiting(m) == Sent(m) /\ queue[m].body \in Tasks
Done(m) == Waiting(m) /\ queue[m].state = "deleted"

================================================================================
