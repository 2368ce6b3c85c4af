------------------------------ MODULE TicketWorker ------------------------------
(***************************************************************************)
(* Run of the retry / dead-letter batch worker                             *)
(* (examples/retry-dead-letter-batch-worker): no checkpoint, a retry       *)
(* policy for transient tickets, a skip budget for permanent ones, a sink  *)
(* that rejects duplicate tickets.  Runs may share sink and dead letters.  *)
(***************************************************************************)
EXTENDS BatchStep

CONSTANTS
    Queues,       \* values of Options.Tickets: [id, scenario : position -> ...]; Open does
                  \* not reject repeated ids, an unknown scenario counts as "permanent"
    MaxAttempts,  \* Options.MaxAttempts
    MaxSkips,     \* Options.MaxSkips
    MaxRuns       \* bound: runs over the same stores

IDsOf(q) == {q.id[i] : i \in Records}
IDs == UNION {IDsOf(q) : q \in Queues}

TicketAssumption ==
    /\ ~Checkpointed
    /\ Queues \subseteq [id : [Records -> IDs],
                        scenario : [Records -> {"success", "transient_once", "permanent",
                                                "no_target"}]]
    /\ MaxAttempts \in Nat \ {0}
    /\ MaxSkips \in Nat
    /\ MaxRuns \in Nat

VARIABLES
    queue,      \* Options.Tickets of this run
    processed,  \* ProcessedSink.tickets: id -> Attempts
    dead,       \* DeadLetterStore: id -> Attempts of the first letter
    attempts,   \* TicketProcessor.attempts: id -> number of Process calls of this run
    retries,    \* attempts the library spent on the ticket it is working on
    skips,      \* report.SkipCount
    writes,     \* report.WriteCount
    status,     \* Result.Status of the last run
    runs        \* how many runs were started

ticketVars == <<queue, processed, dead, attempts, retries, skips, writes, status, runs>>
vars == <<stepVars, ticketVars>>

Errors == {"none", "cancelled", "transient", "permanent", "duplicate"}
ID == queue.id[Current]
Scenario == queue.scenario[Current]

Init ==
    /\ StepInit({NoCheckpoint})
    /\ queue \in Queues
    /\ processed = [id \in {} |-> 0]
    /\ dead = [id \in {} |-> 0]
    /\ attempts = [id \in IDs |-> 0]
    /\ retries = 0
    /\ skips = 0
    /\ writes = 0
    /\ status = "none"
    /\ runs = 0

\* Run up to job.Run: fresh reader, processor and writer over the given stores.
StartRun(ctxDone, tickets) ==
    /\ runs < MaxRuns
    /\ queue' = tickets
    /\ runs' = runs + 1
    /\ StepBegin(ctxDone)
    /\ attempts' = [id \in IDs |-> 0]
    /\ skips' = 0
    /\ writes' = 0
    /\ UNCHANGED <<processed, dead, retries, status>>

Cancel ==
    /\ CancelContext
    /\ UNCHANGED ticketVars

NoticeCancel ==
    /\ \E label \in {"open", "read", "process", "write"} : AbortIfCancelled(label)
    /\ UNCHANGED ticketVars

\* TicketReader.Open and TicketWriter.Open.
Open ==
    /\ Restore(0)
    /\ UNCHANGED ticketVars

\* TicketReader.Read.
Read ==
    /\ ReadRecord \/ ReadEnd
    /\ retries' = 0
    /\ UNCHANGED <<queue, processed, dead, attempts, skips, writes, status, runs>>

\* TicketProcessor.nextAttempt.
NextAttempt ==
    /\ attempts' = [attempts EXCEPT ![ID] = @ + 1]
    /\ retries' = retries + 1

\* TicketProcessor.Process succeeds.
ProcessAccepts ==
    /\ Processing
    /\ \/ Scenario = "success"
       \/ Scenario = "transient_once" /\ attempts[ID] > 0
    /\ Accept
    /\ NextAttempt
    /\ UNCHANGED <<queue, processed, dead, skips, writes, status, runs>>

\* TicketProcessor.Process is throttled; RetryErrors(MaxAttempts) repeats it.
ProcessThrottled ==
    /\ Processing
    /\ Scenario = "transient_once"
    /\ attempts[ID] = 0
    /\ NextAttempt
    /\ IF retries + 1 < MaxAttempts THEN RetryRecord ELSE FailRecord("transient")
    /\ UNCHANGED <<queue, processed, dead, skips, writes, status, runs>>

\* DeadLetterStore.Record keeps the first letter of a ticket.
Record(id, n) ==
    dead' = IF id \in DOMAIN dead THEN dead
            ELSE [k \in DOMAIN dead \union {id} |-> IF k = id THEN n ELSE dead[k]]

\* Mutant: the letter is written only for tickets that are skipped.
ProcessRecordsSkipped ==
    /\ Processing
    /\ Scenario \in {"permanent", "no_target"}
    /\ NextAttempt
    /\ IF skips < MaxSkips
       THEN SkipRecord /\ skips' = skips + 1 /\ Record(ID, attempts[ID] + 1)
       ELSE FailRecord("permanent") /\ UNCHANGED <<skips, dead>>
    /\ UNCHANGED <<queue, processed, writes, status, runs>>

\* TicketProcessor.Process writes a dead letter; SkipErrors(MaxSkips) drops the
\* ticket while the budget lasts, then the run fails.
ProcessDeadLetters ==
    /\ Processing
    /\ Scenario \in {"permanent", "no_target"}
    /\ NextAttempt
    /\ Record(ID, attempts[ID] + 1)
    /\ IF skips < MaxSkips
       THEN SkipRecord /\ skips' = skips + 1
       ELSE FailRecord("permanent") /\ UNCHANGED skips
    /\ UNCHANGED <<queue, processed, writes, status, runs>>

\* ProcessedSink.Put of a ticket that is not stored yet.
Put(i) ==
    processed' = [k \in DOMAIN processed \union {queue.id[i]} |->
                    IF k = queue.id[i] THEN attempts[k] ELSE processed[k]]

\* TicketWriter.Write for one ticket: Put rejects an id that is already stored.
Write ==
    /\ \E i \in chunk :
        IF queue.id[i] \in DOMAIN processed
        THEN FailWrite(i, "duplicate") /\ UNCHANGED <<processed, writes>>
        ELSE WroteRecord(i) /\ Put(i) /\ writes' = writes + 1
    /\ UNCHANGED <<queue, dead, attempts, retries, skips, status, runs>>

Close ==
    /\ CloseStep
    /\ UNCHANGED ticketVars

\* Run after job.Run.
FinishRun ==
    /\ pc = "finish"
    /\ status' = StatusOf(err)
    /\ Goto("idle")
    /\ UNCHANGED <<cursor, eof, chunk, ckpt, cancelled, err>>
    /\ UNCHANGED <<queue, processed, dead, attempts, retries, skips, writes, runs>>

RunStep ==
    \/ NoticeCancel
    \/ Open
    \/ Read
    \/ ProcessAccepts
    \/ ProcessThrottled
    \/ ProcessDeadLetters
    \/ Write
    \/ Close
    \/ FinishRun

Next ==
    \/ \E ctxDone \in BOOLEAN, tickets \in Queues : StartRun(ctxDone, tickets)
    \/ Cancel
    \/ RunStep

Spec == Init /\ [][Next]_vars

\* A run in flight keeps executing; nobody has to start or cancel one.
FairSpec == Spec /\ WF_vars(RunStep)

--------------------------------------------------------------------------------
TypeOK ==
    /\ StepTypeOK(Errors)
    /\ queue \in Queues
    /\ DOMAIN processed \subseteq IDs
    /\ DOMAIN dead \subseteq IDs
    /\ attempts \in [IDs -> Nat]
    /\ retries \in Nat
    /\ skips \in 0 .. MaxSkips
    /\ writes \in Nat
    /\ status \in {"none", "completed", "cancelled", "failed"}
    /\ runs \in 0 .. MaxRuns

\* Between runs no ticket of the last queue has been lost: after a completed run every
\* ticket was processed or has a dead letter, and the ticket that exhausts the skip
\* budget and fails the run has one too.
NoTicketIsLost ==
    pc = "idle" =>
        /\ status = "completed" => IDsOf(queue) \subseteq DOMAIN processed \union DOMAIN dead
        /\ err = "permanent" => ID \in DOMAIN dead

\* Every write a run reports stands for a stored ticket of its own, also when the
\* queue repeats an id: Put refuses the repeat instead of counting it again.
WritesAreStored == writes <= Cardinality(DOMAIN processed)

\* A run always ends, whatever mixture of retries, skips and cancellations it meets.
RunsEnd == pc # "idle" ~> pc = "idle"

================================================================================
