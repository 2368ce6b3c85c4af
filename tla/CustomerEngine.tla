----------------------------- MODULE CustomerEngine -----------------------------
(***************************************************************************)
(* RunBatch of the customer migration example                              *)
(* (examples/customer-migration-batch-integration): repeated runs of one   *)
(* batch job over the stores that outlive a run: the checkpoint, the sink  *)
(* of migrated customers and the dead letters.  A run may be cancelled at  *)
(* any moment and may have the writer crash after a number of new writes.  *)
(***************************************************************************)
EXTENDS BatchStep

CONSTANTS
    Scenario,       \* defaultRecords: the scenario of every source record
    MaxAttempts,    \* batch.RetryErrors
    MaxSkips,       \* batch.SkipErrors
    CrashChoices,   \* the crash_after_new_writes values operators send
    StartCheckpoints, \* checkpoints a caller-supplied store may already hold
    MayCancel,      \* are runs cancelled?
    MidCancel,      \* also while a saved checkpoint is ahead of the pending chunk?
    MaxDisruptions  \* bound: how many runs crash on request or are cancelled

ASSUME EngineAssumption ==
    /\ Checkpointed
    /\ Scenario \in [Records -> {"success", "transient_once", "permanent"}]
    /\ MaxAttempts \in Nat \ {0, 1}
    /\ MaxSkips \in Nat
    /\ CrashChoices \subseteq Nat
    /\ StartCheckpoints \subseteq Int
    /\ MayCancel \in BOOLEAN
    /\ MidCancel \in BOOLEAN
    /\ MaxDisruptions \in Nat

VARIABLES
    sink,        \* CustomerSink.byID: records migrated so far
    dead,        \* DeadLetterStore.byID: record -> Attempts of its letter
    attempt,     \* customerProcessor.attempts of the current record
    skips,       \* records skipped in this run
    crashAfter,  \* RunOptions.CrashAfterNewWrites of this run
    rollback,    \* the checkpoint snapshot RunBatch takes before the run
    replayed,    \* customerWriter: records it accepted as duplicates in this run
    response,    \* the RunResponse of the last finished run
    disruptions  \* how many disruptions have been spent

engineVars == <<sink, dead, attempt, skips, crashAfter, rollback, replayed,
                response, disruptions>>
vars == <<stepVars, engineVars>>

Errors == {"none", "cancelled", "writer_crash", "transient", "permanent",
           "invalid_checkpoint"}

NoResponse == [status |-> "none", code |-> "none", phase |-> "none", checkpoint |-> NoCheckpoint]

\* errorCodeFor: the public error code of report.Err ("none" for the empty string).
ErrorCodeFor(e) ==
    CASE e = "none"               -> "none"
      [] e = "cancelled"          -> "request_cancelled"
      [] e = "writer_crash"       -> "writer_crash"
      [] e = "transient"          -> "transient_customer_exhausted"
      [] e = "permanent"          -> "permanent_customer"
      [] e = "invalid_checkpoint" -> "invalid_checkpoint"

\* failedPhaseFor: the phase the public response blames.
FailedPhaseFor(e) ==
    CASE e = "none"                     -> "none"
      [] e = "writer_crash"             -> "writer"
      [] e \in {"transient", "permanent"} -> "processor"
      [] e = "cancelled"                -> "context"
      [] OTHER                          -> "batch"

\* buildRunResponse and baseResponse: the projection of the finished run.
BuildRunResponse(e, checkpoint) ==
    [status |-> StatusOf(e), code |-> ErrorCodeFor(e),
     phase |-> FailedPhaseFor(e), checkpoint |-> checkpoint]

\* NewStores and Stores.normalize: the stores start empty, except that a caller
\* may hand in a checkpoint store that already holds a value.
Init ==
    /\ StepInit(StartCheckpoints)
    /\ sink = {}
    /\ dead = [i \in {} |-> 0]
    /\ attempt = 0
    /\ skips = 0
    /\ crashAfter = 0
    /\ rollback = NoCheckpoint
    /\ replayed = {}
    /\ response = NoResponse
    /\ disruptions = 0

\* validateCrashAfter: values outside 0..N are rejected before the run starts.
ValidCrashAfter(value) == value >= 0 /\ value <= N

\* RunBatch up to job.Run: options are validated, the checkpoint is
\* remembered, reader, processor and writer are fresh.
StartRun(crash) ==
    /\ ValidCrashAfter(crash)
    /\ crash > 0 => disruptions < MaxDisruptions
    /\ disruptions' = IF crash > 0 THEN disruptions + 1 ELSE disruptions
    /\ StepBegin(FALSE)
    /\ crashAfter' = crash
    /\ rollback' = ckpt
    /\ attempt' = 0
    /\ skips' = 0
    /\ replayed' = {}
    /\ UNCHANGED <<sink, dead, response>>

\* Accepted records that wait for their write although the checkpoint which was
\* saved after a skipped record already lies behind them.
Exposed == {i \in chunk : i < ckpt}

\* CancelActiveRun, or the HTTP client going away, cancels the run context.  The
\* code lets this happen at any moment; MidCancel sets apart the moments
\* at which a record is exposed.
Cancel ==
    /\ MayCancel
    /\ MidCancel \/ Exposed = {}
    /\ disruptions < MaxDisruptions
    /\ disruptions' = disruptions + 1
    /\ CancelContext
    /\ UNCHANGED <<sink, dead, attempt, skips, crashAfter, rollback, replayed, response>>

\* A cancelled context is noticed by Open, Load, Restore, Read, Process, Write,
\* Checkpoint and Save alike.
NoticeCancel ==
    /\ \E label \in {"open", "read", "process", "write", "save"} : AbortIfCancelled(label)
    /\ UNCHANGED engineVars

\* customerReader.Restore: the cursor moves to the stored checkpoint, which must
\* lie inside the source.
RestoreReader ==
    /\ pc = "open"
    /\ ~cancelled
    /\ IF ckpt = NoCheckpoint THEN Restore(0)
       ELSE IF ckpt \in 0 .. N THEN Restore(ckpt)
       ELSE Abort("invalid_checkpoint")
    /\ UNCHANGED engineVars

\* Mutant: the length of the source is not checked.
ReadPastEnd ==
    /\ pc = "read"
    /\ ~cancelled
    /\ cursor' = cursor + 1
    /\ attempt' = 0
    /\ Goto("process")
    /\ UNCHANGED <<eof, chunk, ckpt, cancelled, err>>
    /\ UNCHANGED <<sink, dead, skips, crashAfter, rollback, replayed, response, disruptions>>

\* customerReader.Read.
Read ==
    /\ \/ ReadRecord /\ attempt' = 0
       \/ ReadEnd /\ UNCHANGED attempt
    /\ UNCHANGED <<sink, dead, skips, crashAfter, rollback, replayed, response, disruptions>>

\* customerProcessor.Process returns a migrated customer.
ProcessAccepts ==
    /\ Processing
    /\ \/ Scenario[Current] = "success"
       \/ Scenario[Current] = "transient_once" /\ attempt >= 1
    /\ Accept
    /\ attempt' = attempt + 1
    /\ UNCHANGED <<sink, dead, skips, crashAfter, rollback, replayed, response, disruptions>>

\* customerProcessor.Process fails transiently; RetryErrors(MaxAttempts) repeats it.
ProcessFailsOnce ==
    /\ Processing
    /\ Scenario[Current] = "transient_once"
    /\ attempt = 0
    /\ IF attempt + 1 < MaxAttempts THEN RetryRecord ELSE FailRecord("transient")
    /\ attempt' = attempt + 1
    /\ UNCHANGED <<sink, dead, skips, crashAfter, rollback, replayed, response, disruptions>>

\* DeadLetterStore.Record keeps the first letter of a customer.
RecordDeadLetter(i, n) ==
    dead' = IF i \in DOMAIN dead THEN dead
            ELSE [j \in DOMAIN dead \union {i} |-> IF j = i THEN n ELSE dead[j]]

\* customerProcessor.Process records a dead letter; SkipErrors(MaxSkips) drops
\* the record as long as the skip budget lasts.
ProcessDeadLetters ==
    /\ Processing
    /\ Scenario[Current] = "permanent"
    /\ RecordDeadLetter(Current, attempt + 1)
    /\ attempt' = attempt + 1
    /\ IF skips < MaxSkips
       THEN SkipRecord /\ skips' = skips + 1
       ELSE FailRecord("permanent") /\ UNCHANGED skips
    /\ UNCHANGED <<sink, crashAfter, rollback, replayed, response, disruptions>>

\* CustomerSink.Put: a customer that is already stored stays as it is.
Put(i) == sink' = sink \union {i}

\* Mutant: a customer that is already in the sink is an error.
WriteRejectsDuplicate ==
    /\ \E i \in chunk :
        /\ Put(i)
        /\ IF i \in sink THEN FailWrite(i, "writer_crash") ELSE WroteRecord(i)
    /\ UNCHANGED <<dead, attempt, skips, crashAfter, rollback, replayed, response, disruptions>>

\* customerWriter.Write for one customer: Put is idempotent, and the injected
\* crash fires after a new write once the sink holds crashAfter customers.
WriteCustomer ==
    /\ \E i \in chunk :
        /\ Put(i)
        /\ replayed' = IF i \in sink THEN replayed \union {i} ELSE replayed
        /\ IF i \notin sink /\ crashAfter > 0 /\ Cardinality(sink') >= crashAfter
           THEN FailWrite(i, "writer_crash")
           ELSE WroteRecord(i)
    /\ UNCHANGED <<dead, attempt, skips, crashAfter, rollback, response, disruptions>>

\* Mutant: the checkpoint points behind the record that is read next.
SaveOnePastNext ==
    /\ SaveCheckpoint(IF cursor < N THEN cursor + 1 ELSE cursor)
    /\ UNCHANGED engineVars

\* customerReader.Checkpoint and RecordingCheckpointStore.Save.
Save ==
    /\ SaveCheckpoint(cursor)
    /\ UNCHANGED engineVars

Close ==
    /\ CloseStep
    /\ UNCHANGED engineVars

\* Mutants: the reader position or the start of the source becomes the checkpoint
\* after a writer crash.
RolledBackToCursor == IF err # "writer_crash" THEN ckpt ELSE cursor
RolledBackToStart == IF err # "writer_crash" THEN ckpt ELSE 0

\* The checkpoint RunBatch leaves behind: a writer crash restores the snapshot,
\* or writes DefaultChunkSize when there was none.
RolledBack ==
    IF err # "writer_crash" THEN ckpt
    ELSE IF rollback # NoCheckpoint THEN rollback
    ELSE ChunkSize

\* Mutant: the response is built before the rollback.
FinishRespondsFirst ==
    /\ pc = "finish"
    /\ ckpt' = RolledBack
    /\ response' = BuildRunResponse(err, ckpt)
    /\ Goto("idle")
    /\ UNCHANGED <<cursor, eof, chunk, cancelled, err>>
    /\ UNCHANGED <<sink, dead, attempt, skips, crashAfter, rollback, replayed, disruptions>>

\* RunBatch after job.Run: checkpoint rollback and response.
FinishRun ==
    /\ pc = "finish"
    /\ ckpt' = RolledBack
    /\ response' = BuildRunResponse(err, RolledBack)
    /\ Goto("idle")
    /\ UNCHANGED <<cursor, eof, chunk, cancelled, err>>
    /\ UNCHANGED <<sink, dead, attempt, skips, crashAfter, rollback, replayed, disruptions>>

RunStep ==
    \/ NoticeCancel
    \/ RestoreReader
    \/ Read
    \/ ProcessAccepts
    \/ ProcessFailsOnce
    \/ ProcessDeadLetters
    \/ WriteCustomer
    \/ Save
    \/ Close
    \/ FinishRun

Next ==
    \/ \E crash \in CrashChoices : StartRun(crash)
    \/ Cancel
    \/ RunStep

Spec == Init /\ [][Next]_vars

\* The scheduler keeps ticking (a run without injected crash is always started
\* again) and a run in flight keeps executing.
Fairness == WF_vars(StartRun(0)) /\ WF_vars(RunStep)

FairSpec == Spec /\ Fairness

--------------------------------------------------------------------------------
Settled == sink \union DOMAIN dead

TypeOK ==
    /\ StepTypeOK(Errors)
    /\ sink \subseteq Records
    /\ DOMAIN dead \subseteq Records
    /\ \A i \in DOMAIN dead : dead[i] \in Nat
    /\ attempt \in Nat
    /\ skips \in Nat
    /\ crashAfter \in Nat
    /\ rollback \in Int
    /\ replayed \subseteq Records
    /\ disruptions \in Nat
    /\ response \in [status : {"none", "completed", "cancelled", "failed"},
                     code : {"none", "request_cancelled", "writer_crash",
                             "transient_customer_exhausted", "permanent_customer",
                             "invalid_checkpoint"},
                     phase : {"none", "writer", "processor", "context", "batch"},
                     checkpoint : Int]

\* Between runs no record before the stored checkpoint is forgotten: it has been
\* migrated or dead-lettered, so a restart from the checkpoint loses nothing.  The
\* step saves after a skipped record, ahead of the records that still wait in the
\* chunk, and RunBatch picks the checkpoint that is kept after a writer crash.  In
\* chunks of two the one record that waits is the first one written, so it is there
\* when the crash comes; in larger chunks only the rollback keeps this true.
SafeCheckpoint ==
    (pc = "idle" /\ ckpt <= N) => \A i \in Records : i < ckpt => i \in Settled

\* A run that reports batch.StatusCompleted leaves every source customer either
\* migrated or dead-lettered, whatever crashes and cancellations preceded it.
CompletedMeansSettled ==
    response.status = "completed" => Records \subseteq Settled

\* Between runs the public response agrees with the stores: it names the checkpoint
\* a restart will use, rollback included, and has an error code exactly when the
\* run did not complete.
ResponseMatchesStore ==
    (pc = "idle" /\ response.status # "none") =>
        /\ response.checkpoint = ckpt
        /\ (response.status = "completed") <=> (response.code = "none")

\* The stored checkpoint never falls behind the one the running batch started from.
CheckpointNeverRegresses ==
    [][ckpt' >= ckpt \/ (pc = "finish" /\ ckpt' >= rollback)]_vars

\* However the bounded number of crashes and cancellations falls, the scheduled
\* restarts eventually settle every customer, unless the store that was handed in
\* holds a checkpoint outside the source: Restore rejects that for ever.
EventuallySettled == <>(Records \subseteq Settled \/ ckpt > N)

================================================================================
