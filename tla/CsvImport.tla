-------------------------------- MODULE CsvImport --------------------------------
(***************************************************************************)
(* RunImport of the CSV import example                                     *)
(* (examples/chunked-csv-import-checkpoint): restarts over a checkpoint    *)
(* store and a sink that keeps the first row of every customer id.         *)
(***************************************************************************)
EXTENDS BatchStep

CONSTANTS
    CustomerID,     \* row -> customer id; a file may repeat an id
    BlankChoices,   \* which rows have a blank field when a run opens the file
    CrashChoices,   \* values of RunOptions.CrashAfterNewCommits
    MaxDisruptions  \* bound: crashed, cancelled or unreadable runs

CsvAssumption ==
    /\ Checkpointed
    /\ CustomerID \in [Records -> {CustomerID[i] : i \in Records}]
    /\ BlankChoices \subseteq SUBSET Records
    /\ CrashChoices \subseteq Nat
    /\ MaxDisruptions \in Nat

VARIABLES
    customers,      \* CustomerSink.customers: id -> the row that was stored
    duplicateSkips, \* CustomerSink.duplicateSkips
    writeAttempts,  \* CustomerSink.writeAttempts
    blank,          \* rows of this run's file that have a blank field
    crashAfter,     \* CustomerWriter.crashAfterNewCommits
    status,         \* report.Status of the last finished run
    disruptions     \* how many disruptions have been spent

csvVars == <<customers, duplicateSkips, writeAttempts, blank, crashAfter, status, disruptions>>
vars == <<stepVars, csvVars>>

IDs == {CustomerID[i] : i \in Records}
Errors == {"none", "cancelled", "crash", "invalid_csv", "invalid_customer"}
NewCommits == Cardinality(DOMAIN customers)

Init ==
    /\ StepInit({NoCheckpoint})
    /\ customers = [id \in {} |-> 0]
    /\ duplicateSkips = 0
    /\ writeAttempts = 0
    /\ blank = {}
    /\ crashAfter = 0
    /\ status = "none"
    /\ disruptions = 0

Disrupt ==
    /\ disruptions < MaxDisruptions
    /\ disruptions' = disruptions + 1

\* RunImport up to job.Run.
StartRun(crash, blanks) ==
    /\ IF crash > 0 \/ blanks # {} THEN Disrupt ELSE UNCHANGED disruptions
    /\ StepBegin(FALSE)
    /\ crashAfter' = crash
    /\ blank' = blanks
    /\ UNCHANGED <<customers, duplicateSkips, writeAttempts, status>>

Cancel ==
    /\ Disrupt
    /\ CancelContext
    /\ UNCHANGED <<customers, duplicateSkips, writeAttempts, blank, crashAfter, status>>

NoticeCancel ==
    /\ \E label \in {"open", "read", "process", "write", "save"} : AbortIfCancelled(label)
    /\ UNCHANGED csvVars

\* CSVReader.Open fails: the file is missing, unreadable or malformed.
OpenFails ==
    /\ pc = "open"
    /\ ~cancelled
    /\ Disrupt
    /\ Abort("invalid_csv")
    /\ UNCHANGED <<customers, duplicateSkips, writeAttempts, blank, crashAfter, status>>

\* CSVReader.Restore and asCheckpoint.
RestoreReader ==
    /\ pc = "open"
    /\ ~cancelled
    /\ IF ckpt = NoCheckpoint THEN Restore(0)
       ELSE IF ckpt \in 0 .. N THEN Restore(ckpt)
       ELSE Abort("invalid_csv")
    /\ UNCHANGED csvVars

\* CSVReader.Read.
Read ==
    /\ ReadRecord \/ ReadEnd
    /\ UNCHANGED csvVars

\* CustomerProcessor: a blank field fails the run, there is no skip policy.
Process ==
    /\ Processing
    /\ IF Current \in blank THEN FailRecord("invalid_customer") ELSE Accept
    /\ UNCHANGED csvVars

\* Mutant: a later row of the same id replaces the first.
PutReplaces(i) ==
    /\ writeAttempts' = writeAttempts + 1
    /\ duplicateSkips' = duplicateSkips + (IF CustomerID[i] \in DOMAIN customers THEN 1 ELSE 0)
    /\ customers' = [id \in DOMAIN customers \union {CustomerID[i]} |->
                        IF id = CustomerID[i] THEN i ELSE customers[id]]

\* CustomerSink.put: the first row of an id is kept.
Put(i) ==
    /\ writeAttempts' = writeAttempts + 1
    /\ IF CustomerID[i] \in DOMAIN customers
       THEN /\ duplicateSkips' = duplicateSkips + 1
            /\ UNCHANGED customers
       ELSE /\ customers' = [id \in DOMAIN customers \union {CustomerID[i]} |->
                                IF id = CustomerID[i] THEN i ELSE customers[id]]
            /\ UNCHANGED duplicateSkips

\* CustomerWriter.Write for one customer: the injected crash fires on a new commit
\* once the sink has reached the requested number of commits.
Write ==
    /\ \E i \in chunk :
        /\ Put(i)
        /\ IF /\ CustomerID[i] \notin DOMAIN customers
              /\ crashAfter > 0
              /\ NewCommits + 1 >= crashAfter
           THEN FailWrite(i, "crash") ELSE WroteRecord(i)
    /\ UNCHANGED <<blank, crashAfter, status, disruptions>>

\* CSVReader.Checkpoint and the memory checkpoint store.
Save ==
    /\ SaveCheckpoint(cursor)
    /\ UNCHANGED csvVars

Close ==
    /\ CloseStep
    /\ UNCHANGED csvVars

\* RunImport after job.Run: projectReport.
FinishRun ==
    /\ pc = "finish"
    /\ status' = StatusOf(err)
    /\ Goto("idle")
    /\ UNCHANGED <<cursor, eof, chunk, ckpt, cancelled, err>>
    /\ UNCHANGED <<customers, duplicateSkips, writeAttempts, blank, crashAfter, disruptions>>

RunStep ==
    \/ NoticeCancel
    \/ OpenFails
    \/ RestoreReader
    \/ Read
    \/ Process
    \/ Write
    \/ Save
    \/ Close
    \/ FinishRun

Next ==
    \/ \E crash \in CrashChoices, blanks \in BlankChoices : StartRun(crash, blanks)
    \/ Cancel
    \/ RunStep

Spec == Init /\ [][Next]_vars

\* The import of a well-formed file is started again, and a run executes.
FairSpec == Spec /\ WF_vars(StartRun(0, {})) /\ WF_vars(RunStep)

--------------------------------------------------------------------------------
TypeOK ==
    /\ StepTypeOK(Errors)
    /\ DOMAIN customers \subseteq IDs
    /\ \A id \in DOMAIN customers : customers[id] \in Records
    /\ duplicateSkips \in Nat
    /\ writeAttempts \in Nat
    /\ blank \subseteq Records
    /\ crashAfter \in Nat
    /\ status \in {"none", "completed", "cancelled", "failed"}
    /\ disruptions \in Nat

\* Every row before the stored checkpoint has its customer in the sink, the sink is
\* ahead of the checkpoint by at most the chunk that is being written, and after a
\* run that reports completion every customer of the file is there.
NothingLostBehindCheckpoint ==
    /\ status = "completed" => DOMAIN customers = IDs
    /\ \A i \in Records : i < ckpt => CustomerID[i] \in DOMAIN customers
    /\ \A id \in DOMAIN customers :
            customers[id] < (IF ckpt = NoCheckpoint THEN 0 ELSE ckpt) + ChunkSize

\* However chunks are replayed, the row stored for a customer is the first row of
\* that customer in the file, and the sink's counters add up across runs: a write
\* attempt either committed a new customer or was counted as a duplicate.
FirstRowWins ==
    /\ \A id \in DOMAIN customers :
            \A i \in Records : CustomerID[i] = id => customers[id] <= i
    /\ writeAttempts = NewCommits + duplicateSkips

\* Restarts import the whole file after any bounded number of crashes, cancellations
\* and unreadable files.
Imported == DOMAIN customers = IDs

================================================================================
