---------------------------- MODULE AccountMigration ----------------------------
(***************************************************************************)
(* RunMigration of the account migration example                           *)
(* (examples/account-migration-checkpoint-restart): restarts over a shared *)
(* checkpoint store and a target store that rejects duplicate accounts.    *)
(***************************************************************************)
EXTENDS BatchStep, Sequences

CONSTANTS
    BlankChoices,     \* which accounts have a blank field in RunOptions.Accounts
    CrashChoices,     \* values of RunOptions.CrashOnAccount
    NoCrash,          \* RunOptions.CrashOnAccount = ""
    StartCheckpoints, \* what a caller-supplied checkpoint store may hold
    MaxCancels        \* bound: how many runs are cancelled

\* A stored value that is not a MigrationCheckpoint.
Malformed == -2

AccountAssumption ==
    /\ Checkpointed
    /\ BlankChoices \subseteq SUBSET Records
    /\ CrashChoices \subseteq Records \union {NoCrash}
    /\ NoCrash \notin Records
    /\ StartCheckpoints \subseteq Int
    /\ MaxCancels \in Nat

VARIABLES
    order,    \* TargetAccountStore.order: accounts in first-write order
    crashOn,  \* NewAccountProcessor's crashOnAccount
    blank,    \* the accounts of this run that have a blank field
    result,   \* MigrationRun of the last finished run, status "error" for an error
    cancels   \* how many cancellations have been spent

accountVars == <<order, crashOn, blank, result, cancels>>
vars == <<stepVars, accountVars>>

Errors == {"none", "cancelled", "blank", "crash", "duplicate", "invalid_checkpoint"}
NoResult == [status |-> "none", checkpoint |-> NoCheckpoint]

Targets == {order[k] : k \in 1 .. Len(order)}

Init ==
    /\ StepInit(StartCheckpoints)
    /\ order = <<>>
    /\ crashOn = NoCrash
    /\ blank = {}
    /\ result = NoResult
    /\ cancels = 0

\* RunMigration up to job.Run: defaults are filled in, reader and writer are fresh.
StartRun(crash, blanks) ==
    /\ StepBegin(FALSE)
    /\ crashOn' = crash
    /\ blank' = blanks
    /\ UNCHANGED <<order, result, cancels>>

Cancel ==
    /\ cancels < MaxCancels
    /\ cancels' = cancels + 1
    /\ CancelContext
    /\ UNCHANGED <<order, crashOn, blank, result>>

NoticeCancel ==
    /\ \E label \in {"open", "read", "process", "write", "save"} : AbortIfCancelled(label)
    /\ UNCHANGED accountVars

\* Mutant: the checkpoint is taken for the last record read.
RestoreShifted ==
    /\ Restore(IF ckpt = NoCheckpoint THEN 0 ELSE ckpt + 1)
    /\ UNCHANGED accountVars

\* MigrationReader.Restore and asMigrationCheckpoint.
RestoreReader ==
    /\ pc = "open"
    /\ ~cancelled
    /\ IF ckpt = NoCheckpoint THEN Restore(0)
       ELSE IF ckpt \in 0 .. N THEN Restore(ckpt)
       ELSE Abort("invalid_checkpoint")
    /\ UNCHANGED accountVars

\* MigrationReader.Read.
Read ==
    /\ ReadRecord \/ ReadEnd
    /\ UNCHANGED accountVars

\* The processor: a blank field comes before the injected crash; there is neither a
\* retry nor a skip policy.
Process ==
    /\ Processing
    /\ IF Current \in blank THEN FailRecord("blank")
       ELSE IF crashOn = Current THEN FailRecord("crash")
       ELSE Accept
    /\ UNCHANGED accountVars

\* Mutant: a duplicate account is accepted silently.
WriteIdempotent ==
    /\ \E i \in chunk :
        /\ WroteRecord(i)
        /\ order' = IF i \in Targets THEN order ELSE Append(order, i)
    /\ UNCHANGED <<crashOn, blank, result, cancels>>

\* TargetAccountWriter.Write for one account, and TargetAccountStore.Put.
Write ==
    /\ \E i \in chunk :
        IF i \in Targets
        THEN FailWrite(i, "duplicate") /\ UNCHANGED order
        ELSE WroteRecord(i) /\ order' = Append(order, i)
    /\ UNCHANGED <<crashOn, blank, result, cancels>>

\* MigrationReader.Checkpoint and RecordingCheckpointStore.Save.
Save ==
    /\ SaveCheckpoint(cursor)
    /\ UNCHANGED accountVars

Close ==
    /\ CloseStep
    /\ UNCHANGED accountVars

\* RunMigration after job.Run: loadMigrationCheckpoint turns a malformed stored
\* value into an error unless the report already is a failure; whether a cancelled
\* report counts as one is the library's business.
FinishRun ==
    /\ pc = "finish"
    /\ LET run(c) == [status |-> StatusOf(err), checkpoint |-> c]
           failed == [status |-> "error", checkpoint |-> NoCheckpoint]
       IN result' \in IF ckpt # Malformed THEN {run(ckpt)}
                      ELSE IF StatusOf(err) = "failed" THEN {run(NoCheckpoint)}
                      ELSE {run(NoCheckpoint), failed}
    /\ Goto("idle")
    /\ UNCHANGED <<cursor, eof, chunk, ckpt, cancelled, err>>
    /\ UNCHANGED <<order, crashOn, blank, cancels>>

RunStep ==
    \/ NoticeCancel
    \/ RestoreReader
    \/ Read
    \/ Process
    \/ Write
    \/ Save
    \/ Close
    \/ FinishRun

Next ==
    \/ \E crash \in CrashChoices, blanks \in BlankChoices : StartRun(crash, blanks)
    \/ Cancel
    \/ RunStep

Spec == Init /\ [][Next]_vars

\* Runs of a clean source without an injected crash keep being started, and a run
\* in flight executes.
FairSpec == Spec /\ SF_vars(StartRun(NoCrash, {})) /\ WF_vars(RunStep)

--------------------------------------------------------------------------------
TypeOK ==
    /\ StepTypeOK(Errors)
    /\ order \in Seq(Records)
    /\ crashOn \in Records \union {NoCrash}
    /\ blank \subseteq Records
    /\ result \in [status : {"none", "error", "completed", "cancelled", "failed"},
                   checkpoint : Int]
    /\ cancels \in Nat

\* The index the checkpoint stands for.
Resume == IF ckpt = NoCheckpoint THEN 0 ELSE ckpt

\* The store holds accounts that the checkpoint does not cover yet.
Torn == Len(order) > Resume

\* Between runs checkpoint and target store agree unless a run was cancelled: a
\* processor crash leaves nothing half done.
TornOnlyByCancel == (pc = "idle" /\ cancels = 0 /\ Resume \in 0 .. N) => ~Torn

\* The target store is always a prefix of the source in source order, it runs ahead
\* of the checkpoint by at most one chunk (Write commits account by account, Save
\* follows the whole chunk), and only a cancellation leaves it ahead between runs.
CommittedPrefix ==
    /\ \A k \in 1 .. Len(order) : order[k] = k - 1
    /\ Resume \in 0 .. N => Len(order) \in Resume .. (Resume + ChunkSize)
    /\ TornOnlyByCancel

\* A run that reports completion leaves every account in the target store, and the
\* checkpoint it reports is the one the next run restores.
CompletedMeansMigrated ==
    pc = "idle" =>
        /\ result.status = "completed" => Len(order) = N /\ Resume = N
        /\ result.status \in {"completed", "failed"} /\ ckpt # Malformed
              => result.checkpoint = ckpt

\* Put rejects duplicates, so a chunk torn by a cancellation is never repaired: once
\* a finished run leaves the store ahead of the checkpoint, no later run gets past
\* the torn chunk and the checkpoint never catches up.
TornBlocksProgress == [](pc = "idle" /\ Torn => []Torn)

\* The restarts finish the migration however often the processor crashed before,
\* unless a run is cancelled or the store held a foreign checkpoint to begin with.
Migrated == Len(order) = N \/ cancels > 0 \/ Resume \notin 0 .. N

================================================================================
