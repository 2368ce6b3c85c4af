------------------------------ MODULE BatchProofs ------------------------------
(***************************************************************************)
(* Proofs about the programs that must come to an end, each for every      *)
(* value of its constants.                                                 *)
(*                                                                         *)
(* The restartable customer migration, for every source, chunk size, retry *)
(* and skip budget and for both readings of the library's saves: the       *)
(* checkpoint a restart resumes from never covers a customer that was      *)
(* neither migrated nor dead-lettered, and a completed run has settled     *)
(* every customer, unless a step drops an exposed record or a first run    *)
(* crashes inside its first chunk.  The runs CustomerEngineCancelMid and   *)
(* CustomerEngineCrashFirst show that each of the two steps loses a        *)
(* customer; the theorems show that nothing else does.                     *)
(*                                                                         *)
(* The account migration, the CSV import and the ticket worker over the    *)
(* same batch.Step; the two SQS workers; the order transaction; and the    *)
(* graph analysis.                                                         *)
(***************************************************************************)
EXTENDS CustomerEngine, Sequences, FiniteSetTheorems, WellFoundedInduction, TLAPS

CONSTANTS
    CrashAccounts, BlankAccounts, NoCrash, MaxCancels, \* of the account migration
    CustomerID, BlankChoices,                       \* of the CSV import
    Queues, MaxRuns,                                \* of the ticket worker
    Messages, Workers,                              \* of the two SQS workers
    NoBody, MaxFaults, Uploads, Foreign,            \* of the document workflow
    NoTask, TaskFaults, Tasks, BadTasks,            \* of the task queue
    Requests, Products, Stock, UnitPrice, Placements, \* of the order placement
    Processes, Leftovers, Users, Kind, FixtureEdges   \* of the graph analysis

VARIABLES
    order, crashOn, result, cancels, blank,
    customers, duplicateSkips, writeAttempts, status,
    queue, processed, attempts, retries, writes, runs,
    stage, mailbox, held, faults,
    upload, objects, read, table, effects,
    signalled, stale, loaded, report, client, output, exit, fixture, store,
    want, locked, expired, outcome, stock, placed

Account == INSTANCE AccountMigration WITH
    CrashChoices <- CrashAccounts, BlankChoices <- BlankAccounts
Csv == INSTANCE CsvImport
Ticket == INSTANCE TicketWorker WITH Checkpointed <- FALSE
Document == INSTANCE DocumentWorkflow WITH pc <- stage, queue <- mailbox
Task == INSTANCE TaskQueue WITH
    pc <- stage, queue <- mailbox, NoBody <- NoTask, MaxFaults <- TaskFaults
Cluster == INSTANCE AbuseCluster WITH pc <- stage, cancelled <- signalled
Placing == INSTANCE OrderPlacement WITH pc <- stage

--------------------------------------------------------------------------------
\* The customer migration.

\* The checkpoint store that is handed in claims no record: it is empty or corrupt.
HonestStart == \A c \in StartCheckpoints : c <= 0 \/ c > N

\* A run ends by a cancellation or by an exhausted budget, not by a writer crash,
\* while a record is exposed: RunBatch keeps the checkpoint that lies behind it.
DropsExposed == pc' = "finish" /\ err' # "writer_crash" /\ Exposed # {}

\* The writer crashes in a run that started without a checkpoint while the first
\* chunk is not settled, and RunBatch is about to save DefaultChunkSize.
CrashesInFirstChunk ==
    /\ pc = "write"
    /\ pc' = "finish" /\ err' = "writer_crash"
    /\ rollback = NoCheckpoint
    /\ \E i \in Records : i < ChunkSize /\ i \notin Settled'

\* The two ways of losing a record, of which findings 1 and 2 are instances.
Loses == DropsExposed \/ CrashesInFirstChunk

Permanent == {i \in Records : Scenario[i] = "permanent"}

\* A setting without such steps: an injected crash leaves the first chunk written,
\* and where checkpoints are saved ahead of the chunk (the documented step) the skip
\* budget covers the source and nobody cancels while a record is exposed.
SafeSetting ==
    /\ HonestStart
    /\ \A c \in CrashChoices : c = 0 \/ c >= ChunkSize
    /\ SaveAfterSkip = "always" => ~MidCancel /\ Cardinality(Permanent) <= MaxSkips

--------------------------------------------------------------------------------
\* Named parts of the inductive invariant.

\* TypeOK is not inductive by itself: the processor works on the record before the
\* cursor, so the cursor must have moved.
TypeInv == TypeOK /\ (pc = "process" => cursor > 0)

SettledBelow(n) == \A i \in Records : i < n => i \in Settled

\* The record that was read and is with the processor.
Held == IF pc = "process" THEN {cursor - 1} ELSE {}

\* Every record that was read is settled, accepted or with the processor.
ReadIsAccounted ==
    pc \in {"read", "process", "write", "save", "close"} =>
        \A i \in Records : i < cursor => i \in Settled \union chunk \union Held

ChunkIsRead == \A i \in chunk : i < cursor

\* Only permanently failing records are dead-lettered, only the others written.
OutcomeByScenario ==
    /\ \A i \in chunk \union sink : Scenario[i] # "permanent"
    /\ \A i \in DOMAIN dead : Scenario[i] = "permanent"

\* Customers are written in source order.
WrittenInOrder == \A i \in sink : SettledBelow(i)

\* A checkpoint covers settled records and records that wait in the chunk; a crash
\* has dropped the chunk, and the rollback that follows covers settled records only.
CheckpointsCovered ==
    /\ ckpt <= N /\ ~(pc = "finish" /\ err = "writer_crash") =>
            \A i \in Records : i < ckpt => i \in Settled \union chunk
    /\ rollback <= N => SettledBelow(rollback)

StepShape ==
    /\ pc = "open" => ~eof /\ chunk = {}
    /\ pc = "process" => ~eof
    /\ eof /\ pc # "open" => cursor = N
    /\ pc \in {"idle", "close", "finish"} => chunk = {}
    /\ pc = "save" /\ eof => chunk = {}
    /\ pc = "close" => cursor = N
    /\ pc \notin {"idle", "finish"} => err = "none"

CompletionIsTrue ==
    /\ pc = "finish" /\ err = "none" => Records \subseteq Settled
    /\ response.status = "completed" => Records \subseteq Settled

CrashLeavesFirstChunk ==
    pc = "finish" /\ err = "writer_crash" /\ rollback = NoCheckpoint => SettledBelow(ChunkSize)

IInv ==
    /\ TypeInv
    /\ ReadIsAccounted
    /\ ChunkIsRead
    /\ OutcomeByScenario
    /\ WrittenInOrder
    /\ CheckpointsCovered
    /\ StepShape
    /\ CompletionIsTrue
    /\ CrashLeavesFirstChunk

--------------------------------------------------------------------------------
\* The assumptions on the constants, taken apart.
LEMMA Constants ==
    /\ N \in Nat
    /\ ChunkSize \in Nat \ {0}
    /\ Checkpointed = TRUE
    /\ MaxAttempts \in Nat
    /\ CrashChoices \subseteq Nat
    /\ StartCheckpoints \subseteq Int
  BY StepAssumption, EngineAssumption DEF StepAssumption, EngineAssumption

\* buildRunResponse is total on the errors a run can end with.
LEMMA ResponseType ==
    ASSUME NEW e \in Errors, NEW c \in Int
    PROVE  BuildRunResponse(e, c) \in
             [status : {"none", "completed", "cancelled", "failed"},
              code : {"none", "request_cancelled", "writer_crash",
                      "transient_customer_exhausted", "permanent_customer",
                      "invalid_checkpoint"},
              phase : {"none", "writer", "processor", "context", "batch"},
              checkpoint : Int]
<1>1. StatusOf(e) \in {"completed", "cancelled", "failed"}
  BY DEF StatusOf, Errors
<1>2. ErrorCodeFor(e) \in {"none", "request_cancelled", "writer_crash",
                           "transient_customer_exhausted", "permanent_customer",
                           "invalid_checkpoint"}
  BY DEF ErrorCodeFor, Errors
<1>3. FailedPhaseFor(e) \in {"none", "writer", "processor", "context", "batch"}
  BY DEF FailedPhaseFor, Errors
<1> QED
  BY <1>1, <1>2, <1>3 DEF BuildRunResponse

LEMMA TypeInit == Init => TypeInv
<1> SUFFICES ASSUME Init PROVE TypeInv
  OBVIOUS
<1> USE Constants
<1>1. eof \in BOOLEAN /\ cancelled \in BOOLEAN
  BY Zenon DEF Init, StepInit
<1>2. StepTypeOK(Errors) /\ pc = "idle"
  BY <1>1 DEF Init, StepInit, StepTypeOK, Errors
<1>3. DOMAIN dead = {} /\ \A i \in DOMAIN dead : dead[i] \in Nat
  BY DEF Init
<1> QED
  BY <1>2, <1>3 DEF Init, TypeInv, TypeOK, NoResponse, NoCheckpoint

LEMMA TypeStep == TypeInv /\ [Next]_vars => TypeInv'
<1> SUFFICES ASSUME TypeInv, [Next]_vars PROVE TypeInv'
  OBVIOUS
<1> USE Constants DEF TypeInv, TypeOK, StepTypeOK, Errors, Goto, engineVars
<1>1. ASSUME NEW crash \in CrashChoices, StartRun(crash) PROVE TypeInv'
  <2>1. eof' \in BOOLEAN /\ cancelled' \in BOOLEAN
    BY <1>1, Zenon DEF StartRun, StepBegin
  <2> QED
    BY <1>1, <2>1 DEF StartRun, StepBegin
<1>2. CASE Cancel
  <2>1. cancelled' \in BOOLEAN
    BY <1>2, Zenon DEF Cancel, CancelContext
  <2> QED
    BY <1>2, <2>1 DEF Cancel, CancelContext
<1>3. CASE NoticeCancel
  <2>1. PICK label \in {"open", "read", "process", "write", "save"} : AbortIfCancelled(label)
    BY <1>3 DEF NoticeCancel
  <2> QED
    BY <1>3, <2>1 DEF NoticeCancel, AbortIfCancelled, Abort
<1>4. CASE RestoreReader
  BY <1>4 DEF RestoreReader, Restore, Abort
<1>5. CASE Read
  <2>1. eof' \in BOOLEAN
    BY <1>5, Zenon DEF Read, ReadRecord, ReadEnd
  <2> QED
    BY <1>5, <2>1 DEF Read, ReadRecord, ReadEnd
<1>6. CASE ProcessAccepts
  <2>1. Current \in Records
    BY <1>6 DEF ProcessAccepts, Processing, Current, Records
  <2>2. chunk' \subseteq Records /\ pc' \in {"read", "write"}
    BY <1>6, <2>1 DEF ProcessAccepts, Accept
  <2> QED
    BY <1>6, <2>2 DEF ProcessAccepts, Accept
<1>7. CASE ProcessFailsOnce
  BY <1>7 DEF ProcessFailsOnce, RetryRecord, FailRecord, Abort, Processing, stepVars
<1>8. CASE ProcessDeadLetters
  <2>1. Current \in Records
    BY <1>8 DEF ProcessDeadLetters, Processing, Current, Records
  <2>2. DOMAIN dead' \subseteq Records /\ \A i \in DOMAIN dead' : dead'[i] \in Nat
    BY <1>8, <2>1 DEF ProcessDeadLetters, RecordDeadLetter
  <2> QED
    BY <1>8, <2>2 DEF ProcessDeadLetters, SkipRecord, FailRecord, Abort
<1>9. CASE WriteCustomer
  <2>1. PICK i \in chunk :
          /\ sink' = sink \union {i}
          /\ replayed' = IF i \in sink THEN replayed \union {i} ELSE replayed
          /\ FailWrite(i, "writer_crash") \/ WroteRecord(i)
    BY <1>9 DEF WriteCustomer, Put
  <2>2. sink' \subseteq Records /\ replayed' \subseteq Records
    BY <2>1
  <2>3. StepTypeOK(Errors)' /\ pc' # "process"
    BY <2>1 DEF FailWrite, WroteRecord, Abort
  <2> QED
    BY <1>9, <2>2, <2>3 DEF WriteCustomer
<1>10. CASE Save
  BY <1>10 DEF Save, SaveCheckpoint
<1>11. CASE Close
  BY <1>11 DEF Close, CloseStep
<1>12. CASE FinishRun
  <2>1. RolledBack \in Int
    BY DEF RolledBack
  <2> QED
    BY <1>12, <2>1, ResponseType DEF FinishRun
<1>13. CASE UNCHANGED vars
  BY <1>13 DEF vars, stepVars
<1> QED
  BY <1>1, <1>2, <1>3, <1>4, <1>5, <1>6, <1>7, <1>8, <1>9, <1>10, <1>11, <1>12, <1>13
     DEF Next, RunStep

\* Every step of RunBatch and of the library loop keeps the types: in particular the
\* reader's cursor never leaves the source, whatever checkpoint is restored, and
\* only records of the source are ever written or dead-lettered.
THEOREM TypeCorrect == Spec => []TypeOK
<1>1. TypeInv => TypeOK
  BY DEF TypeInv
<1> QED
  BY TypeInit, TypeStep, <1>1, PTL DEF Spec

--------------------------------------------------------------------------------
LEMMA SafeInit == ASSUME HonestStart PROVE Init => IInv
<1> SUFFICES ASSUME Init PROVE IInv
  OBVIOUS
<1> USE Constants
<1>1. TypeInv
  BY TypeInit
<1>2. pc = "idle" /\ chunk = {} /\ sink = {} /\ DOMAIN dead = {} /\ crashAfter = 0
       /\ response.status = "none" /\ rollback = -1 /\ ckpt \in StartCheckpoints
  BY DEF Init, StepInit, NoResponse, NoCheckpoint
<1>3. ~eof
  BY Zenon DEF Init, StepInit
<1>4. CheckpointsCovered
  BY <1>2 DEF HonestStart, CheckpointsCovered, SettledBelow, Records
<1> QED
  BY <1>1, <1>2, <1>3, <1>4 DEF IInv, ReadIsAccounted, ChunkIsRead, OutcomeByScenario,
     WrittenInOrder, StepShape, CompletionIsTrue, CrashLeavesFirstChunk

\* Steps that leave the stores, the checkpoints and the response alone: what remains
\* is the shape of the step loop and the records it has in hand.
LEMMA StoresUntouched ==
    ASSUME IInv,
           UNCHANGED <<sink, dead, ckpt, rollback, crashAfter, response>>
    PROVE  /\ Settled' = Settled
           /\ WrittenInOrder'
           /\ pc \notin {"idle", "finish"} /\ chunk \subseteq chunk' => CheckpointsCovered'
           /\ response.status' = "completed" => (Records \subseteq Settled)'
  BY DEF IInv, StepShape, Settled, WrittenInOrder, CheckpointsCovered, SettledBelow,
     CompletionIsTrue

LEMMA SafeStart ==
    ASSUME IInv, NEW crash \in CrashChoices, StartRun(crash), TypeInv'
    PROVE  IInv'
<1> USE Constants
<1>1. UNCHANGED <<sink, dead, ckpt, response>> /\ pc = "idle" /\ pc' = "open" /\ chunk' = {}
      /\ rollback' = ckpt /\ crashAfter' = crash /\ err' = "none"
  BY DEF StartRun, StepBegin, Goto
<1>2. ~eof'
  BY Zenon DEF StartRun, StepBegin
<1>3. Settled' = Settled
  BY <1>1 DEF Settled
<1> QED
  BY <1>1, <1>2, <1>3 DEF IInv, ReadIsAccounted, ChunkIsRead, OutcomeByScenario,
     WrittenInOrder, CheckpointsCovered, SettledBelow, StepShape, CompletionIsTrue,
     CrashLeavesFirstChunk

\* The steps after which the run is over (an error, a cancelled context) drop the chunk,
\* which holds no exposed record.
LEMMA SafeAbort ==
    ASSUME IInv, TypeInv', NEW e, e \notin {"none", "writer_crash"}, Abort(e), ~DropsExposed,
           pc \notin {"idle", "finish"},
           UNCHANGED <<sink, dead, rollback, crashAfter, response>>
    PROVE  IInv'
<1>1. UNCHANGED <<ckpt, cursor, eof>> /\ pc' = "finish" /\ chunk' = {} /\ err' = e
  BY DEF Abort, Goto
<1>2. Exposed = {}
  BY <1>1 DEF DropsExposed
<1>3. CheckpointsCovered'
  BY <1>1, <1>2, StoresUntouched DEF IInv, CheckpointsCovered, SettledBelow, Exposed
<1> QED
  BY <1>1, <1>3, StoresUntouched DEF IInv, ReadIsAccounted, ChunkIsRead, OutcomeByScenario,
     StepShape, CompletionIsTrue, CrashLeavesFirstChunk, Settled

LEMMA SafeCancel == ASSUME IInv, Cancel, TypeInv' PROVE IInv'
<1>1. UNCHANGED <<pc, cursor, eof, chunk, ckpt, err>>
      /\ UNCHANGED <<sink, dead, rollback, crashAfter, response>>
  BY DEF Cancel, CancelContext
<1> QED
  BY <1>1 DEF IInv, ReadIsAccounted, ChunkIsRead, OutcomeByScenario, WrittenInOrder,
     CheckpointsCovered, SettledBelow, StepShape, CompletionIsTrue, CrashLeavesFirstChunk,
     Settled, Held

LEMMA SafeNotice == ASSUME IInv, NoticeCancel, ~DropsExposed, TypeInv' PROVE IInv'
<1>1. Abort("cancelled") /\ pc \notin {"idle", "finish"}
      /\ UNCHANGED <<sink, dead, rollback, crashAfter, response>>
  BY DEF NoticeCancel, AbortIfCancelled, engineVars
<1> QED
  BY <1>1, SafeAbort

LEMMA SafeRestore == ASSUME IInv, RestoreReader, ~DropsExposed, TypeInv' PROVE IInv'
<1> USE Constants
<1>1. UNCHANGED <<sink, dead, rollback, crashAfter, response>> /\ pc = "open"
  BY DEF RestoreReader, engineVars
<1>2. CASE Abort("invalid_checkpoint")
  BY <1>1, <1>2, SafeAbort
<1>3. CASE ~Abort("invalid_checkpoint")
  <2>1. /\ pc = "open" /\ pc' = "read"
        /\ UNCHANGED <<eof, chunk, ckpt, err>>
        /\ IF ckpt = -1 THEN cursor' = 0 ELSE cursor' = ckpt /\ ckpt <= N
    BY <1>3 DEF RestoreReader, Restore, Goto, NoCheckpoint
  <2>2. ~eof /\ ~eof'
    BY <2>1, Zenon DEF IInv, StepShape
  <2>3. \A i \in Records : i < cursor' => i \in Settled
    BY <2>1 DEF IInv, StepShape, CheckpointsCovered, SettledBelow, Records
  <2> QED
    BY <1>1, <2>1, <2>2, <2>3, StoresUntouched DEF IInv, ReadIsAccounted, ChunkIsRead,
       OutcomeByScenario, StepShape, CompletionIsTrue, CrashLeavesFirstChunk
<1> QED
  BY <1>2, <1>3

LEMMA SafeRead == ASSUME IInv, Read, TypeInv' PROVE IInv'
<1> USE Constants
<1>1. UNCHANGED <<sink, dead, rollback, crashAfter, response>>
  BY DEF Read
<1>2. CASE ReadRecord
  <2>1. /\ pc = "read" /\ pc' = "process" /\ cursor < N /\ cursor' = cursor + 1
        /\ UNCHANGED <<eof, chunk, ckpt, err>> /\ err' = "none"
    BY <1>2 DEF ReadRecord, Goto, IInv, StepShape
  <2>2. ~eof'
    BY <2>1 DEF IInv, StepShape
  <2>3. ReadIsAccounted'
    BY <1>1, <2>1, StoresUntouched
       DEF IInv, TypeInv, TypeOK, StepTypeOK, ReadIsAccounted, Held, Records
  <2>4. ChunkIsRead'
    BY <2>1 DEF IInv, TypeInv, TypeOK, StepTypeOK, ChunkIsRead, Records
  <2> QED
    BY <1>1, <2>1, <2>2, <2>3, <2>4, StoresUntouched DEF IInv, OutcomeByScenario, StepShape,
       CompletionIsTrue, CrashLeavesFirstChunk
<1>3. CASE ReadEnd
  <2>1. /\ pc = "read" /\ cursor >= N
        /\ pc' \in {"close", "write"} /\ (pc' = "close" => chunk = {})
        /\ UNCHANGED <<cursor, chunk, ckpt, err>> /\ err' = "none"
    BY <1>3 DEF ReadEnd, Goto, IInv, StepShape
  <2>2. cursor = N
    BY <2>1 DEF IInv, TypeInv, TypeOK, StepTypeOK
  <2>3. ReadIsAccounted' /\ ChunkIsRead'
    BY <1>1, <2>1, StoresUntouched DEF IInv, ReadIsAccounted, ChunkIsRead, Held
  <2> QED
    BY <1>1, <2>1, <2>2, <2>3, StoresUntouched DEF IInv, OutcomeByScenario, StepShape,
       CompletionIsTrue, CrashLeavesFirstChunk
<1> QED
  BY <1>2, <1>3 DEF Read

LEMMA SafeAccept == ASSUME IInv, ProcessAccepts, TypeInv' PROVE IInv'
<1> USE Constants
<1>1. UNCHANGED <<sink, dead, rollback, crashAfter, response>>
  BY DEF ProcessAccepts
<1>2. /\ pc = "process" /\ pc' \in {"write", "read"} /\ chunk' = chunk \union {cursor - 1}
      /\ UNCHANGED <<cursor, eof, ckpt, err>> /\ err' = "none"
      /\ Scenario[cursor - 1] # "permanent"
  BY DEF ProcessAccepts, Accept, Processing, Current, Goto, IInv, StepShape
<1>3. ~eof'
  BY <1>2 DEF IInv, StepShape
<1>4. ReadIsAccounted'
  BY <1>1, <1>2, StoresUntouched DEF IInv, ReadIsAccounted, Held
<1>5. ChunkIsRead'
  BY <1>2 DEF IInv, TypeInv, TypeOK, StepTypeOK, ChunkIsRead
<1>6. OutcomeByScenario'
  BY <1>1, <1>2 DEF IInv, OutcomeByScenario
<1> QED
  BY <1>1, <1>2, <1>3, <1>4, <1>5, <1>6, StoresUntouched DEF IInv, StepShape,
     CompletionIsTrue, CrashLeavesFirstChunk

LEMMA SafeFailsOnce == ASSUME IInv, ProcessFailsOnce, ~DropsExposed, TypeInv' PROVE IInv'
<1>1. UNCHANGED <<sink, dead, rollback, crashAfter, response>> /\ pc = "process"
  BY DEF ProcessFailsOnce, Processing
<1>2. CASE Abort("transient")
  BY <1>1, <1>2, SafeAbort
<1>3. CASE UNCHANGED stepVars
  BY <1>1, <1>3 DEF stepVars, IInv, ReadIsAccounted, ChunkIsRead, OutcomeByScenario,
     WrittenInOrder, CheckpointsCovered, SettledBelow, StepShape, CompletionIsTrue,
     CrashLeavesFirstChunk, Settled, Held
<1> QED
  BY <1>2, <1>3 DEF ProcessFailsOnce, RetryRecord, FailRecord

\* Settled records stay settled, so what is known about a prefix stays known.
LEMMA SettledGrows ==
    ASSUME IInv, Settled \subseteq Settled', UNCHANGED <<ckpt, rollback, response>>,
           pc \notin {"idle", "finish"},
           \/ pc' = "finish" /\ err' = "writer_crash"
           \/ \A i \in chunk : i < ckpt => i \in (Settled \union chunk)'
    PROVE  /\ \A n \in Int : SettledBelow(n) => SettledBelow(n)'
           /\ CheckpointsCovered'
           /\ response.status' = "completed" => (Records \subseteq Settled)'
  BY DEF IInv, TypeInv, TypeOK, StepTypeOK, SettledBelow, CheckpointsCovered, CompletionIsTrue

LEMMA SafeDeadLetter ==
    ASSUME IInv, ProcessDeadLetters, ~DropsExposed, TypeInv' PROVE IInv'
<1> USE Constants
<1>1. UNCHANGED <<sink, rollback, crashAfter, response, ckpt, cursor, eof>>
  BY DEF ProcessDeadLetters, SkipRecord, FailRecord, Abort
<1>2. /\ pc = "process" /\ Scenario[cursor - 1] = "permanent"
      /\ DOMAIN dead' = DOMAIN dead \union {cursor - 1}
  BY DEF ProcessDeadLetters, Processing, Current, RecordDeadLetter
<1>3. Settled' = Settled \union {cursor - 1}
  BY <1>1, <1>2 DEF Settled
<1>4. ~eof /\ ~eof'
  BY <1>1, <1>2 DEF IInv, StepShape
<1>5. WrittenInOrder' /\ CheckpointsCovered'
      /\ (response.status' = "completed" => (Records \subseteq Settled)')
  <2>1. \A i \in chunk : i < ckpt => i \in (Settled \union chunk)'
    <3>1. CASE Abort("permanent")
      BY <3>1 DEF Abort, Goto, DropsExposed, Exposed
    <3>2. CASE SkipRecord
      BY <3>2 DEF SkipRecord
    <3> QED
      BY <3>1, <3>2 DEF ProcessDeadLetters, FailRecord
  <2>3. CheckpointsCovered' /\ (response.status' = "completed" => (Records \subseteq Settled)')
    BY <1>1, <1>2, <1>3, <2>1, SettledGrows
  <2>2. WrittenInOrder'
    BY <1>1, <1>3 DEF IInv, WrittenInOrder, SettledBelow
  <2> QED
    BY <2>2, <2>3
<1>6. CASE Abort("permanent")
  <2>1. pc' = "finish" /\ chunk' = {} /\ err' = "permanent"
    BY <1>6 DEF Abort, Goto
  <2> QED
    BY <1>1, <1>2, <1>4, <1>5, <2>1 DEF IInv, ReadIsAccounted, ChunkIsRead, OutcomeByScenario,
       StepShape, CompletionIsTrue, CrashLeavesFirstChunk
<1>7. CASE SkipRecord
  <2>1. /\ pc' \in {"save", "read"}
        /\ UNCHANGED <<chunk, err>> /\ err' = "none"
    BY <1>7, <1>2 DEF SkipRecord, Goto, IInv, StepShape
  <2>2. ReadIsAccounted'
    BY <1>1, <1>2, <1>3, <2>1 DEF IInv, ReadIsAccounted, Held
  <2>3. ChunkIsRead' /\ OutcomeByScenario'
    BY <1>1, <1>2, <2>1 DEF IInv, ChunkIsRead, OutcomeByScenario
  <2> QED
    BY <1>1, <1>2, <1>4, <1>5, <2>1, <2>2, <2>3 DEF IInv, StepShape, CompletionIsTrue,
       CrashLeavesFirstChunk
<1> QED
  BY <1>6, <1>7 DEF ProcessDeadLetters, FailRecord

\* Everything below the first record of the chunk is settled.
LEMMA FirstOfChunkSettled ==
    ASSUME IInv, pc = "write", NEW i \in chunk, FirstOfChunk(i)
    PROVE  SettledBelow(i) /\ i \in Records
  BY DEF IInv, TypeInv, TypeOK, StepTypeOK, ReadIsAccounted, ChunkIsRead, Held, FirstOfChunk,
     SettledBelow, Records

\* The crash fires on a new customer once the sink holds crashAfter customers.  Since
\* customers are written in source order, that customer is the last one written, so
\* the sink fits below it and the first chunk must be settled.
LEMMA CrashSettlesFirstChunk ==
    ASSUME IInv, pc = "write", NEW i \in chunk, FirstOfChunk(i), i \notin sink,
           sink' = sink \union {i}, UNCHANGED dead,
           crashAfter >= ChunkSize, Cardinality(sink') >= crashAfter
    PROVE  SettledBelow(ChunkSize)'
<1> USE Constants
<1>1. SettledBelow(i) /\ i \in Records
  BY FirstOfChunkSettled
<1>2. i \notin Settled
  BY DEF IInv, OutcomeByScenario, Settled
<1>3. \A a \in sink : a \in Records /\ a <= i
  BY <1>1, <1>2 DEF IInv, TypeInv, TypeOK, WrittenInOrder, SettledBelow, Records
<1>4. sink' \subseteq 0 .. i
  BY <1>1, <1>3 DEF Records
<1>5. IsFiniteSet(0 .. i) /\ Cardinality(0 .. i) = i + 1
  BY <1>1, FS_Interval DEF Records
<1>6. Cardinality(sink') <= i + 1 /\ Cardinality(sink') \in Nat
  BY <1>4, <1>5, FS_Subset, FS_CardinalityType
<1>7. i + 1 >= ChunkSize
  BY <1>1, <1>6 DEF IInv, TypeInv, TypeOK, Records
<1> QED
  BY <1>1, <1>7 DEF SettledBelow, Settled, Records

LEMMA SafeWrite == ASSUME IInv, WriteCustomer, ~CrashesInFirstChunk, TypeInv' PROVE IInv'
<1> USE Constants
<1>1. PICK i \in chunk :
        /\ sink' = sink \union {i}
        /\ IF i \notin sink /\ crashAfter > 0 /\ Cardinality(sink') >= crashAfter
           THEN FailWrite(i, "writer_crash") ELSE WroteRecord(i)
  BY DEF WriteCustomer, Put
<1>2. UNCHANGED <<dead, rollback, crashAfter, response>>
  BY DEF WriteCustomer
<1>3. pc = "write" /\ FirstOfChunk(i) /\ UNCHANGED <<cursor, eof, ckpt>>
  BY <1>1 DEF FailWrite, WroteRecord, Abort
<1>4. SettledBelow(i) /\ i \in Records
  BY <1>3, FirstOfChunkSettled
<1>5. Settled' = Settled \union {i}
  BY <1>1, <1>2 DEF Settled
<1>6. CheckpointsCovered' /\ (response.status' = "completed" => (Records \subseteq Settled)')
  <2>1. \/ pc' = "finish" /\ err' = "writer_crash"
        \/ \A j \in chunk : j < ckpt => j \in (Settled \union chunk)'
    BY <1>1, <1>5 DEF FailWrite, WroteRecord, Abort, Goto
  <2> QED
    BY <1>2, <1>3, <1>5, <2>1, SettledGrows
<1>7. WrittenInOrder'
  BY <1>1, <1>4, <1>5 DEF IInv, WrittenInOrder, SettledBelow
<1>8. chunk' \subseteq chunk /\ OutcomeByScenario'
  BY <1>1, <1>2 DEF IInv, OutcomeByScenario, FailWrite, WroteRecord, Abort
<1>9. ChunkIsRead'
  BY <1>3, <1>8 DEF IInv, ChunkIsRead
<1>10. CASE FailWrite(i, "writer_crash") /\ i \notin sink /\ crashAfter > 0
            /\ Cardinality(sink') >= crashAfter
  <2>1. pc' = "finish" /\ err' = "writer_crash" /\ chunk' = {}
    BY <1>10 DEF FailWrite, Abort, Goto
  <2>2. rollback' = NoCheckpoint => SettledBelow(ChunkSize)'
    BY <1>2, <1>3, <2>1 DEF CrashesInFirstChunk, SettledBelow
  <2> QED
    BY <1>2, <1>3, <1>6, <1>7, <1>8, <1>9, <2>1, <2>2 DEF IInv, ReadIsAccounted, StepShape,
       CompletionIsTrue, CrashLeavesFirstChunk
<1>11. CASE WroteRecord(i)
  <2>1. /\ chunk' = chunk \ {i} /\ pc' \in {"write", "save"}
        /\ (pc' = "save" => chunk' = {}) /\ err' = "none"
    BY <1>3, <1>11 DEF WroteRecord, Goto, IInv, StepShape
  <2>2. ReadIsAccounted'
    BY <1>3, <1>5, <2>1 DEF IInv, ReadIsAccounted, Held
  <2> QED
    BY <1>2, <1>3, <1>6, <1>7, <1>8, <1>9, <2>1, <2>2 DEF IInv, StepShape, CompletionIsTrue,
       CrashLeavesFirstChunk
<1> QED
  BY <1>1, <1>10, <1>11

LEMMA SafeSave == ASSUME IInv, Save, TypeInv' PROVE IInv'
<1> USE Constants
<1>1. UNCHANGED <<sink, dead, rollback, crashAfter, response, cursor, eof, chunk, err>>
      /\ pc = "save" /\ ckpt' = cursor /\ pc' = (IF eof THEN "close" ELSE "read")
  BY DEF Save, SaveCheckpoint, Goto, engineVars
<1>2. /\ eof => chunk = {}
      /\ err = "none"
      /\ \A i \in Records : i < cursor => i \in Settled \union chunk
  BY <1>1 DEF IInv, StepShape, ReadIsAccounted, Held
<1>3. Settled' = Settled
  BY <1>1 DEF Settled
<1>4. CheckpointsCovered'
  BY <1>1, <1>2, <1>3 DEF IInv, CheckpointsCovered, SettledBelow
<1>5. ReadIsAccounted'
  BY <1>1, <1>3 DEF IInv, ReadIsAccounted, Held
<1> QED
  BY <1>1, <1>2, <1>3, <1>4, <1>5 DEF IInv, ChunkIsRead, OutcomeByScenario, WrittenInOrder,
     SettledBelow, StepShape, CompletionIsTrue, CrashLeavesFirstChunk

LEMMA SafeClose == ASSUME IInv, Close, TypeInv' PROVE IInv'
<1> USE Constants
<1>1. UNCHANGED <<sink, dead, rollback, crashAfter, response, cursor, eof, chunk, ckpt>>
      /\ pc = "close" /\ pc' = "finish" /\ err' \in {"none", "cancelled"}
  BY DEF Close, CloseStep, Goto, engineVars
<1>2. Records \subseteq Settled
  BY <1>1 DEF IInv, StepShape, ReadIsAccounted, Held, Records
<1> QED
  BY <1>1, <1>2, StoresUntouched DEF IInv, ReadIsAccounted, ChunkIsRead, OutcomeByScenario,
     StepShape, CompletionIsTrue, CrashLeavesFirstChunk

LEMMA SafeFinish == ASSUME IInv, FinishRun, TypeInv' PROVE IInv'
<1> USE Constants
<1>1. UNCHANGED <<sink, dead, rollback, crashAfter, cursor, eof, chunk, err>>
      /\ pc = "finish" /\ pc' = "idle" /\ ckpt' = RolledBack
      /\ response' = BuildRunResponse(err, RolledBack)
  BY DEF FinishRun, Goto
<1>2. Settled' = Settled
  BY <1>1 DEF Settled
<1>3. CheckpointsCovered'
  BY <1>1, <1>2 DEF IInv, CheckpointsCovered, SettledBelow, RolledBack, NoCheckpoint,
     CrashLeavesFirstChunk
<1>4. response'.status = "completed" => err = "none"
  BY <1>1 DEF BuildRunResponse, StatusOf
<1> QED
  BY <1>1, <1>2, <1>3, <1>4 DEF IInv, ReadIsAccounted, ChunkIsRead, OutcomeByScenario,
     WrittenInOrder, SettledBelow, StepShape, CompletionIsTrue, CrashLeavesFirstChunk

--------------------------------------------------------------------------------
LEMMA SafeNext == ASSUME IInv, [Next]_vars, [~Loses]_vars PROVE IInv'
<1>1. TypeInv'
  BY TypeStep DEF IInv
<1>2. CASE UNCHANGED vars
  BY <1>1, <1>2 DEF vars, stepVars, engineVars, IInv, ReadIsAccounted, ChunkIsRead,
     OutcomeByScenario, WrittenInOrder, CheckpointsCovered, SettledBelow, StepShape,
     CompletionIsTrue, CrashLeavesFirstChunk, Settled, Held
<1>3. CASE Next /\ ~Loses
  BY <1>1, <1>3, SafeStart, SafeCancel, SafeNotice, SafeRestore, SafeRead, SafeAccept,
     SafeFailsOnce, SafeDeadLetter, SafeWrite, SafeSave, SafeClose, SafeFinish
     DEF Next, RunStep, Loses
<1> QED
  BY <1>2, <1>3

LEMMA SafeInvariant == ASSUME HonestStart PROVE Spec /\ [][~Loses]_vars => []IInv
<1>1. Init => IInv
  BY SafeInit
<1>2. IInv /\ [Next]_vars /\ [~Loses]_vars => IInv'
  BY SafeNext
<1> QED
  BY <1>1, <1>2, PTL DEF Spec

LEMMA SafeMeaning == IInv => SafeCheckpoint /\ CompletedMeansSettled
  BY DEF IInv, StepShape, CheckpointsCovered, SafeCheckpoint, CompletionIsTrue,
     CompletedMeansSettled

\* For every source, chunk size and budget, wherever the library saves after a skip and
\* whenever runs are cancelled or crash: as long as no step drops an exposed record and
\* no first run crashes inside its first chunk, no customer before the checkpoint that
\* is stored between runs is forgotten (RunBatch's rollback with the library's saves).
THEOREM RestartIsSafe ==
    ASSUME HonestStart PROVE Spec /\ [][~Loses]_vars => []SafeCheckpoint
  BY SafeInvariant, SafeMeaning, PTL

\* In the same generality: as long as no step loses a record, a run that reports
\* completion has migrated or dead-lettered every customer.
THEOREM CompletionIsSound ==
    ASSUME HonestStart PROVE Spec /\ [][~Loses]_vars => []CompletedMeansSettled
  BY SafeInvariant, SafeMeaning, PTL

--------------------------------------------------------------------------------
\* In a safe setting no step loses a record.

PermanentBelow(n) == {i \in Permanent : i < n}

\* The skips of a run are of different permanently failing records before the cursor.
SkipsAreCounted ==
    /\ pc = "open" => skips = 0
    /\ pc \in {"read", "write", "save"} => skips <= Cardinality(PermanentBelow(cursor))
    /\ pc = "process" => skips <= Cardinality(PermanentBelow(cursor - 1))

\* The checkpoint is never ahead of the reader.
ReaderIsAhead ==
    /\ pc \in {"read", "write", "save"} => ckpt <= cursor
    /\ pc = "process" => ckpt < cursor

ExposureIsSafe ==
    /\ cancelled => Exposed = {}
    /\ SaveAfterSkip = "emptyChunk" =>
            Exposed = {} /\ (pc = "save" => chunk = {})

CrashIsLate == crashAfter = 0 \/ crashAfter >= ChunkSize

SettingInv == SkipsAreCounted /\ ReaderIsAhead /\ ExposureIsSafe /\ CrashIsLate

LEMMA PermanentCounts ==
    /\ IsFiniteSet(Permanent)
    /\ \A n \in Int : IsFiniteSet(PermanentBelow(n)) /\ Cardinality(PermanentBelow(n)) \in Nat
    /\ \A n \in Int : Cardinality(PermanentBelow(n)) <= Cardinality(PermanentBelow(n + 1))
    /\ \A i \in Permanent :
          /\ Cardinality(PermanentBelow(i + 1)) = Cardinality(PermanentBelow(i)) + 1
          /\ Cardinality(PermanentBelow(i + 1)) <= Cardinality(Permanent)
<1> USE Constants
<1>1. IsFiniteSet(Permanent)
  <2>1. IsFiniteSet(Records)
    BY FS_Interval DEF Records
  <2> QED
    BY <2>1, FS_Subset DEF Permanent
<1>2. \A n \in Int : IsFiniteSet(PermanentBelow(n)) /\ Cardinality(PermanentBelow(n)) \in Nat
                     /\ Cardinality(PermanentBelow(n)) <= Cardinality(Permanent)
  <2> SUFFICES ASSUME NEW n \in Int
               PROVE  IsFiniteSet(PermanentBelow(n)) /\ Cardinality(PermanentBelow(n)) \in Nat
                      /\ Cardinality(PermanentBelow(n)) <= Cardinality(Permanent)
    OBVIOUS
  <2>1. PermanentBelow(n) \subseteq Permanent
    BY DEF PermanentBelow
  <2> QED
    BY <1>1, <2>1, FS_Subset, FS_CardinalityType
<1>3. \A n \in Int : Cardinality(PermanentBelow(n)) <= Cardinality(PermanentBelow(n + 1))
  <2> SUFFICES ASSUME NEW n \in Int
               PROVE  Cardinality(PermanentBelow(n)) <= Cardinality(PermanentBelow(n + 1))
    OBVIOUS
  <2>1. PermanentBelow(n) \subseteq PermanentBelow(n + 1)
    BY DEF PermanentBelow, Permanent, Records
  <2> QED
    BY <1>2, <2>1, FS_Subset
<1>4. \A i \in Permanent :
        Cardinality(PermanentBelow(i + 1)) = Cardinality(PermanentBelow(i)) + 1
  <2> SUFFICES ASSUME NEW i \in Permanent
               PROVE  Cardinality(PermanentBelow(i + 1)) = Cardinality(PermanentBelow(i)) + 1
    OBVIOUS
  <2>1. /\ PermanentBelow(i + 1) = PermanentBelow(i) \union {i}
        /\ i \notin PermanentBelow(i)
        /\ i \in Int
    BY DEF PermanentBelow, Permanent, Records
  <2> QED
    BY <1>2, <2>1, FS_AddElement
<1>5. \A i \in Permanent : i + 1 \in Int
  BY DEF Permanent, Records
<1> QED
  BY <1>1, <1>2, <1>3, <1>4, <1>5

LEMMA SettingInit == ASSUME SafeSetting, Init PROVE SettingInv
<1>1. pc = "idle" /\ chunk = {} /\ crashAfter = 0
  BY DEF Init, StepInit
<1> QED
  BY <1>1 DEF SettingInv, SkipsAreCounted, ReaderIsAhead, ExposureIsSafe, Exposed, CrashIsLate

\* The skip budget outlasts the source, so a permanent failure never ends a run.
LEMMA SkipsSuffice ==
    ASSUME IInv, SettingInv, SafeSetting, SaveAfterSkip = "always", pc = "process",
           Scenario[cursor - 1] = "permanent"
    PROVE  skips < MaxSkips
<1>1. cursor - 1 \in Permanent /\ cursor \in Int /\ skips \in Nat
  BY Constants DEF IInv, TypeInv, TypeOK, StepTypeOK, Permanent, Records
<1>2. skips <= Cardinality(PermanentBelow(cursor - 1))
  BY DEF SettingInv, SkipsAreCounted
<1>3. Cardinality(PermanentBelow(cursor - 1)) + 1 <= Cardinality(Permanent)
  BY <1>1, PermanentCounts
<1>4. Cardinality(PermanentBelow(cursor - 1)) \in Nat /\ Cardinality(Permanent) \in Nat
  BY <1>1, PermanentCounts, FS_CardinalityType
<1> QED
  BY <1>1, <1>2, <1>3, <1>4, EngineAssumption DEF SafeSetting, EngineAssumption

LEMMA SettingLosesNothing ==
    ASSUME IInv, SettingInv, SafeSetting, Next PROVE ~Loses
<1> USE Constants
<1>1. ASSUME pc' = "finish", err' # "writer_crash" PROVE Exposed = {}
  <2>1. CASE NoticeCancel
    BY <2>1 DEF NoticeCancel, AbortIfCancelled, SettingInv, ExposureIsSafe
  <2>2. CASE RestoreReader
    BY <2>2 DEF RestoreReader, IInv, StepShape, Exposed
  <2>3. CASE ProcessFailsOnce
    <3>1. Abort("transient") => FALSE
      BY <2>3, EngineAssumption DEF ProcessFailsOnce, EngineAssumption, RetryRecord, stepVars,
         Abort, Goto, Processing
    <3> QED
      BY <1>1, <2>3, <3>1 DEF ProcessFailsOnce, RetryRecord, FailRecord, stepVars, Processing
  <2>4. CASE ProcessDeadLetters
    <3>1. CASE SaveAfterSkip = "emptyChunk"
      BY <3>1 DEF SettingInv, ExposureIsSafe
    <3>2. CASE SaveAfterSkip = "always"
      <4>1. skips < MaxSkips
        BY <2>4, <3>2, SkipsSuffice DEF ProcessDeadLetters, Processing, Current
      <4> QED
        BY <1>1, <2>4, <4>1 DEF ProcessDeadLetters, SkipRecord, Goto
    <3> QED
      BY <3>1, <3>2, StepAssumption DEF StepAssumption
  <2>5. CASE WriteCustomer
    BY <1>1, <2>5 DEF WriteCustomer, FailWrite, WroteRecord, Abort, Goto
  <2>6. CASE Close
    BY <2>6 DEF Close, CloseStep, IInv, StepShape, Exposed
  <2>7. CASE Cancel
    BY <1>1, <2>7 DEF Cancel, CancelContext, IInv, StepShape, Exposed
  <2> QED
    BY <1>1, <2>1, <2>2, <2>3, <2>4, <2>5, <2>6, <2>7 DEF Next, RunStep, StartRun, StepBegin,
       Read, ReadRecord, ReadEnd, ProcessAccepts, Accept, Save, SaveCheckpoint, FinishRun, Goto
<1>2. ASSUME pc = "write", pc' = "finish", err' = "writer_crash" PROVE SettledBelow(ChunkSize)'
  <2>1. WriteCustomer
    BY <1>2 DEF Next, RunStep, StartRun, StepBegin, Cancel, CancelContext, NoticeCancel,
       AbortIfCancelled, Abort, RestoreReader, Read, ReadRecord, ReadEnd, ProcessAccepts,
       ProcessFailsOnce, ProcessDeadLetters, Processing, Save, SaveCheckpoint, Close, CloseStep,
       FinishRun, Goto
  <2>2. PICK i \in chunk :
          /\ sink' = sink \union {i}
          /\ i \notin sink /\ crashAfter > 0 /\ Cardinality(sink') >= crashAfter
          /\ FailWrite(i, "writer_crash")
    BY <1>2, <2>1 DEF WriteCustomer, Put, WroteRecord, Goto
  <2>3. FirstOfChunk(i) /\ UNCHANGED dead /\ crashAfter >= ChunkSize
    BY <2>1, <2>2 DEF WriteCustomer, FailWrite, SettingInv, CrashIsLate
  <2> QED
    BY <1>2, <2>2, <2>3, CrashSettlesFirstChunk
<1> QED
  BY <1>1, <1>2 DEF Loses, DropsExposed, CrashesInFirstChunk, SettledBelow

LEMMA SettingStep ==
    ASSUME SafeSetting, IInv, SettingInv, [Next]_vars PROVE SettingInv'
<1> USE Constants DEF SettingInv, SkipsAreCounted, ReaderIsAhead, ExposureIsSafe, Exposed,
        CrashIsLate, Goto
<1>0. /\ cursor \in Int /\ ckpt \in Int /\ skips \in Int /\ cursor <= N
      /\ IsFiniteSet(Permanent)
      /\ \A n \in Int : Cardinality(PermanentBelow(n)) \in Nat
      /\ \A n \in Int : Cardinality(PermanentBelow(n)) <= Cardinality(PermanentBelow(n + 1))
  BY PermanentCounts DEF IInv, TypeInv, TypeOK, StepTypeOK
<1>1. ASSUME NEW crash \in CrashChoices, StartRun(crash) PROVE SettingInv'
  <2>1. ~cancelled' /\ pc' = "open" /\ chunk' = {} /\ skips' = 0 /\ cursor' = 0
        /\ crashAfter' = crash
    BY <1>1, Zenon DEF StartRun, StepBegin
  <2> QED
    BY <1>0, <2>1 DEF SafeSetting
<1>2. CASE Cancel
  <2>1. /\ MidCancel \/ Exposed = {}
        /\ UNCHANGED <<pc, cursor, chunk, ckpt, skips, crashAfter>>
    BY <1>2 DEF Cancel, CancelContext
  <2>2. Exposed = {}
    BY <2>1, StepAssumption DEF SafeSetting, StepAssumption
  <2> QED
    BY <2>1, <2>2
<1>3. ASSUME NEW e, Abort(e), UNCHANGED crashAfter PROVE SettingInv'
  BY <1>3 DEF Abort
<1>4. CASE RestoreReader
  <2>1. CASE Abort("invalid_checkpoint")
    BY <1>3, <1>4, <2>1 DEF RestoreReader, engineVars
  <2>2. CASE ~Abort("invalid_checkpoint")
    <3>1. /\ pc = "open" /\ pc' = "read" /\ ckpt <= cursor' /\ cursor' \in Int
          /\ UNCHANGED <<chunk, ckpt, cancelled, skips, crashAfter>>
      BY <1>0, <1>4, <2>2 DEF RestoreReader, Restore, engineVars, NoCheckpoint
    <3>2. skips = 0 /\ chunk = {}
      BY <3>1 DEF IInv, StepShape
    <3> QED
      BY <1>0, <3>1, <3>2
  <2> QED
    BY <2>1, <2>2
<1>5. CASE Read
  BY <1>0, <1>5 DEF Read, ReadRecord, ReadEnd
<1>6. CASE ProcessAccepts
  <2>1. /\ pc = "process" /\ pc' \in {"read", "write"} /\ chunk' = chunk \union {cursor - 1}
        /\ UNCHANGED <<cursor, ckpt, cancelled, skips, crashAfter>> /\ ~cancelled
    BY <1>6 DEF ProcessAccepts, Accept, Processing, Current
  <2>2. skips <= Cardinality(PermanentBelow(cursor))
    BY <1>0, <2>1
  <2> QED
    BY <1>0, <2>1, <2>2
<1>7. CASE ProcessFailsOnce
  BY <1>3, <1>7 DEF ProcessFailsOnce, RetryRecord, FailRecord, stepVars
<1>8. CASE ProcessDeadLetters
  <2>1. CASE Abort("permanent")
    BY <1>3, <1>8, <2>1 DEF ProcessDeadLetters
  <2>2. CASE SkipRecord /\ skips' = skips + 1
    <3>1. /\ pc = "process" /\ pc' \in {"read", "save"} /\ ~cancelled
          /\ SaveAfterSkip = "emptyChunk" /\ pc' = "save" => chunk = {}
          /\ UNCHANGED <<cursor, chunk, ckpt, cancelled, crashAfter>>
      BY <1>8, <2>2 DEF ProcessDeadLetters, SkipRecord, Processing
    <3>2. cursor - 1 \in Permanent
      BY <1>0, <1>8, <3>1 DEF ProcessDeadLetters, Current, Permanent, Records, IInv, TypeInv
    <3>3. Cardinality(PermanentBelow(cursor)) = Cardinality(PermanentBelow(cursor - 1)) + 1
      BY <1>0, <3>2, PermanentCounts
    <3> QED
      BY <1>0, <2>2, <3>1, <3>3
  <2> QED
    BY <1>8, <2>1, <2>2 DEF ProcessDeadLetters, FailRecord
<1>9. CASE WriteCustomer
  <2>1. PICK i \in chunk : FailWrite(i, "writer_crash") \/ WroteRecord(i)
    BY <1>9 DEF WriteCustomer
  <2>2. UNCHANGED <<skips, crashAfter>>
    BY <1>9 DEF WriteCustomer
  <2> QED
    BY <1>0, <1>3, <2>1, <2>2 DEF FailWrite, WroteRecord
<1>10. CASE Save
  <2>1. /\ pc = "save" /\ ~cancelled /\ ckpt' = cursor /\ pc' \in {"close", "read"}
        /\ UNCHANGED <<cursor, chunk, cancelled, skips, crashAfter>>
    BY <1>10 DEF Save, SaveCheckpoint, engineVars
  <2> QED
    BY <1>0, <2>1
<1>11. CASE Close
  BY <1>11 DEF Close, CloseStep, engineVars
<1>12. CASE FinishRun
  <2>1. chunk' = {} /\ pc' = "idle" /\ UNCHANGED crashAfter
    BY <1>12 DEF FinishRun, IInv, StepShape
  <2> QED
    BY <2>1
<1>13. CASE NoticeCancel
  BY <1>3, <1>13 DEF NoticeCancel, AbortIfCancelled, engineVars
<1>14. CASE UNCHANGED vars
  BY <1>14 DEF vars, stepVars, engineVars
<1> QED
  BY <1>1, <1>2, <1>4, <1>5, <1>6, <1>7, <1>8, <1>9, <1>10, <1>11, <1>12, <1>13, <1>14
     DEF Next, RunStep

\* A condition on the constants alone, which the example's own configuration meets under
\* the documented step: with crashes outside the first chunk, a skip budget that covers
\* the source and no cancellation while a record is exposed, nothing is ever lost.
THEOREM ConfiguredRunsAreSafe ==
    ASSUME SafeSetting PROVE Spec => [](SafeCheckpoint /\ CompletedMeansSettled)
<1>1. Init => IInv /\ SettingInv
  BY SafeInit, SettingInit DEF SafeSetting
<1>2. IInv /\ SettingInv /\ [Next]_vars => (IInv /\ SettingInv)'
  <2> SUFFICES ASSUME IInv, SettingInv, [Next]_vars PROVE (IInv /\ SettingInv)'
    OBVIOUS
  <2>1. [~Loses]_vars
    BY SettingLosesNothing
  <2> QED
    BY <2>1, SafeNext, SettingStep
<1> QED
  BY <1>1, <1>2, SafeMeaning, PTL DEF Spec

--------------------------------------------------------------------------------
\* What holds of the stored checkpoint in every setting, the unsafe ones included: the
\* reader is never behind it.
CheckpointIsRead == pc \in {"read", "process", "write", "save", "close"} => ckpt <= cursor

LEMMA CheckpointIsReadStep == TypeInv /\ CheckpointIsRead /\ [Next]_vars => CheckpointIsRead'
<1> SUFFICES ASSUME TypeInv, CheckpointIsRead, [Next]_vars PROVE CheckpointIsRead'
  OBVIOUS
<1> USE Constants DEF TypeInv, TypeOK, StepTypeOK, CheckpointIsRead, Goto
<1>1. ASSUME NEW crash \in CrashChoices, StartRun(crash) PROVE CheckpointIsRead'
  BY <1>1 DEF StartRun, StepBegin
<1>2. CASE Cancel
  BY <1>2 DEF Cancel, CancelContext
<1>3. ASSUME NEW e, Abort(e) PROVE CheckpointIsRead'
  BY <1>3 DEF Abort
<1>4. CASE NoticeCancel
  BY <1>3, <1>4 DEF NoticeCancel, AbortIfCancelled
<1>5. CASE RestoreReader
  BY <1>3, <1>5 DEF RestoreReader, Restore, NoCheckpoint
<1>6. CASE Read
  BY <1>6 DEF Read, ReadRecord, ReadEnd
<1>7. CASE ProcessAccepts
  BY <1>7 DEF ProcessAccepts, Accept, Processing
<1>8. CASE ProcessFailsOnce
  BY <1>3, <1>8 DEF ProcessFailsOnce, RetryRecord, FailRecord, stepVars
<1>9. CASE ProcessDeadLetters
  BY <1>3, <1>9 DEF ProcessDeadLetters, SkipRecord, FailRecord, Processing
<1>10. CASE WriteCustomer
  BY <1>3, <1>10 DEF WriteCustomer, WroteRecord, FailWrite
<1>11. CASE Save
  BY <1>11 DEF Save, SaveCheckpoint
<1>12. CASE Close
  BY <1>12 DEF Close, CloseStep
<1>13. CASE FinishRun
  BY <1>13 DEF FinishRun
<1>14. CASE UNCHANGED vars
  BY <1>14 DEF vars, stepVars
<1> QED
  BY <1>1, <1>2, <1>4, <1>5, <1>6, <1>7, <1>8, <1>9, <1>10, <1>11, <1>12, <1>13, <1>14
     DEF Next, RunStep

\* Only Save and FinishRun write the checkpoint store.
LEMMA CheckpointWriters ==
    ASSUME [Next]_vars
    PROVE  Save \/ FinishRun \/ UNCHANGED ckpt
<1>1. ASSUME NEW crash \in CrashChoices, StartRun(crash) PROVE UNCHANGED ckpt
  BY <1>1 DEF StartRun, StepBegin
<1>2. CASE Cancel
  BY <1>2 DEF Cancel, CancelContext
<1>3. ASSUME NEW e, Abort(e) PROVE UNCHANGED ckpt
  BY <1>3 DEF Abort
<1>4. CASE NoticeCancel
  BY <1>3, <1>4 DEF NoticeCancel, AbortIfCancelled
<1>5. CASE RestoreReader
  BY <1>3, <1>5 DEF RestoreReader, Restore
<1>6. CASE Read
  BY <1>6 DEF Read, ReadRecord, ReadEnd
<1>7. CASE ProcessAccepts
  BY <1>7 DEF ProcessAccepts, Accept
<1>8. CASE ProcessFailsOnce
  BY <1>3, <1>8 DEF ProcessFailsOnce, RetryRecord, FailRecord, stepVars
<1>9. CASE ProcessDeadLetters
  BY <1>3, <1>9 DEF ProcessDeadLetters, SkipRecord, FailRecord
<1>10. CASE WriteCustomer
  BY <1>3, <1>10 DEF WriteCustomer, WroteRecord, FailWrite
<1>11. CASE Close
  BY <1>11 DEF Close, CloseStep
<1>12. CASE UNCHANGED vars
  BY <1>12 DEF vars, stepVars
<1> QED
  BY <1>1, <1>2, <1>4, <1>5, <1>6, <1>7, <1>8, <1>9, <1>10, <1>11, <1>12 DEF Next, RunStep

\* In every setting: within a run the checkpoint only moves forward, and the rollback
\* after a writer crash never puts it before the snapshot RunBatch took.
THEOREM CheckpointOnlyAdvances == Spec => CheckpointNeverRegresses
<1>1. Init => TypeInv /\ CheckpointIsRead
  BY TypeInit DEF Init, StepInit, CheckpointIsRead
<1>2. TypeInv /\ CheckpointIsRead /\ [Next]_vars
        => [ckpt' >= ckpt \/ (pc = "finish" /\ ckpt' >= rollback)]_vars
  <2> SUFFICES ASSUME TypeInv, CheckpointIsRead, [Next]_vars
               PROVE  ckpt' >= ckpt \/ (pc = "finish" /\ ckpt' >= rollback)
    OBVIOUS
  <2> USE Constants DEF TypeInv, TypeOK, StepTypeOK
  <2>1. CASE Save
    BY <2>1 DEF Save, SaveCheckpoint, CheckpointIsRead
  <2>2. CASE FinishRun
    BY <2>2 DEF FinishRun, RolledBack, NoCheckpoint
  <2>3. CASE UNCHANGED ckpt
    BY <2>3
  <2> QED
    BY <2>1, <2>2, <2>3, CheckpointWriters
<1> QED
  BY <1>1, <1>2, TypeStep, CheckpointIsReadStep, PTL DEF Spec, CheckpointNeverRegresses

--------------------------------------------------------------------------------
\* A response is completed exactly when it carries no error code.
LEMMA ResponseCode ==
    ASSUME NEW e \in Errors, NEW c
    PROVE  /\ BuildRunResponse(e, c).checkpoint = c
           /\ BuildRunResponse(e, c).status = "completed" <=> BuildRunResponse(e, c).code = "none"
  BY DEF BuildRunResponse, StatusOf, ErrorCodeFor, Errors

\* A run ends only with FinishRun, which writes the response and the checkpoint together.
LEMMA OnlyFinishEndsRun ==
    ASSUME [Next]_vars
    PROVE  FinishRun \/ pc' # "idle" \/ UNCHANGED <<pc, ckpt, response>>
<1> USE DEF Goto
<1>1. ASSUME NEW crash \in CrashChoices, StartRun(crash) PROVE pc' # "idle"
  BY <1>1 DEF StartRun, StepBegin
<1>2. CASE Cancel
  BY <1>2 DEF Cancel, CancelContext
<1>3. ASSUME NEW e, Abort(e) PROVE pc' # "idle"
  BY <1>3 DEF Abort
<1>4. CASE NoticeCancel
  BY <1>3, <1>4 DEF NoticeCancel, AbortIfCancelled
<1>5. CASE RestoreReader
  BY <1>3, <1>5 DEF RestoreReader, Restore
<1>6. CASE Read
  BY <1>6 DEF Read, ReadRecord, ReadEnd
<1>7. CASE ProcessAccepts
  BY <1>7 DEF ProcessAccepts, Accept
<1>8. CASE ProcessFailsOnce
  BY <1>3, <1>8 DEF ProcessFailsOnce, RetryRecord, FailRecord, stepVars
<1>9. CASE ProcessDeadLetters
  BY <1>3, <1>9 DEF ProcessDeadLetters, SkipRecord, FailRecord
<1>10. CASE WriteCustomer
  BY <1>3, <1>10 DEF WriteCustomer, WroteRecord, FailWrite
<1>11. CASE Save
  BY <1>11 DEF Save, SaveCheckpoint
<1>12. CASE Close
  BY <1>12 DEF Close, CloseStep
<1>13. CASE UNCHANGED vars
  BY <1>13 DEF vars, stepVars, engineVars
<1> QED
  BY <1>1, <1>2, <1>4, <1>5, <1>6, <1>7, <1>8, <1>9, <1>10, <1>11, <1>12, <1>13
     DEF Next, RunStep

\* In every setting: between runs the response names the checkpoint that the store
\* holds after the rollback, and says "completed" exactly when it has no error code.
THEOREM ResponseIsTrue == Spec => []ResponseMatchesStore
<1>1. Init => ResponseMatchesStore
  BY DEF Init, NoResponse, ResponseMatchesStore
<1>2. TypeInv /\ ResponseMatchesStore /\ [Next]_vars => ResponseMatchesStore'
  <2> SUFFICES ASSUME TypeInv, ResponseMatchesStore, [Next]_vars PROVE ResponseMatchesStore'
    OBVIOUS
  <2>1. CASE FinishRun
    <3>1. err \in Errors
      BY DEF TypeInv, TypeOK, StepTypeOK
    <3> QED
      BY <2>1, <3>1, ResponseCode DEF FinishRun, ResponseMatchesStore
  <2>2. CASE pc' # "idle" \/ UNCHANGED <<pc, ckpt, response>>
    BY <2>2 DEF ResponseMatchesStore
  <2> QED
    BY <2>1, <2>2, OnlyFinishEndsRun
<1> QED
  BY <1>1, <1>2, TypeInit, TypeStep, PTL DEF Spec

--------------------------------------------------------------------------------
(* The account migration.                                                    *)

StepConstants == N \in Nat /\ ChunkSize \in Nat \ {0}

LEMMA SameSizes ==
    /\ \A S : Account!Cardinality(S) = Cardinality(S)
    /\ \A S : Csv!Cardinality(S) = Cardinality(S)
    /\ \A S : Ticket!Cardinality(S) = Cardinality(S)
    /\ \A S : Task!Cardinality(S) = Cardinality(S)
BY Zenon DEF Account!Cardinality, Csv!Cardinality, Ticket!Cardinality, Task!Cardinality, Cardinality

LEMMA StatusKinds ==
    /\ \A e : Account!StatusOf(e) \in {"completed", "cancelled", "failed"}
    /\ \A e : Csv!StatusOf(e) \in {"completed", "cancelled", "failed"}
    /\ \A e : Ticket!StatusOf(e) \in {"completed", "cancelled", "failed"}
BY DEF Account!StatusOf, Csv!StatusOf, Ticket!StatusOf

\* The checkpoint a first run finds is none, damaged or beyond the source, never one that
\* claims accounts nobody stored.
AccountSafe == \A c \in StartCheckpoints : c <= 0 \/ c > N

AccountTypes == Account!TypeOK /\ (pc = "process" => cursor > 0)

\* With a checkpoint that the reader accepts: where a run stands between the checkpoint
\* and the target store.  A run that finds the store ahead of the checkpoint has the chunk
\* from the checkpoint on, every other run the accounts that are not stored yet.
AccountRuns ==
    LET c == Account!Resume
        n == Len(order)
    IN /\ c <= n /\ n <= c + ChunkSize /\ n <= N
       /\ pc = "open" => chunk = {}
       /\ pc = "read" => c <= cursor /\ cursor < c + ChunkSize /\ chunk = c .. (cursor - 1)
       /\ pc = "process" => c < cursor /\ cursor <= c + ChunkSize /\ chunk = c .. (cursor - 2)
       /\ pc = "write" => /\ chunk # {} /\ c < cursor /\ cursor <= c + ChunkSize
                          /\ chunk = n .. (cursor - 1) \/ (c < n /\ chunk = c .. (cursor - 1))
       /\ pc = "save" => chunk = {} /\ n = cursor
       /\ pc = "close" \/ (pc = "finish" /\ err = "none") => chunk = {} /\ n = N /\ c = N
       /\ eof => cursor = N
       /\ pc \in {"open", "read", "process"} => ~eof
       /\ cancels = 0 => /\ c < n => pc \in {"write", "save"}
                         /\ pc = "write" => chunk = n .. (cursor - 1)

\* The reader accepts no other checkpoint, and nothing happens.
AccountStuck ==
    /\ order = <<>>
    /\ pc \in {"idle", "open", "finish"}
    /\ pc = "finish" => err # "none"

AccountReports ==
    /\ result.status = "completed" => Len(order) = N /\ Account!Resume = N
    /\ pc = "idle" /\ result.status \in {"completed", "failed"} /\ ckpt # Account!Malformed
          => result.checkpoint = ckpt

AccountInv ==
    /\ AccountTypes
    /\ cancelled => cancels > 0
    /\ \A k \in 1 .. Len(order) : order[k] = k - 1
    /\ IF Account!Resume \in 0 .. N THEN AccountRuns ELSE AccountStuck
    /\ AccountReports

LEMMA AccountBegins ==
    StepConstants /\ Account!AccountAssumption /\ AccountSafe /\ Account!Init => AccountInv
<1> SUFFICES ASSUME StepConstants, Account!AccountAssumption, AccountSafe, Account!Init
             PROVE  AccountInv
  OBVIOUS
<1>1. /\ pc = "idle" /\ cursor = 0 /\ eof = FALSE /\ chunk = {} /\ ckpt \in StartCheckpoints
      /\ cancelled = FALSE /\ err = "none" /\ order = <<>> /\ crashOn = NoCrash /\ blank = {}
      /\ result = [status |-> "none", checkpoint |-> -1] /\ cancels = 0
  BY DEF Account!Init, Account!StepInit, Account!NoResult, Account!NoCheckpoint
<1>2. ckpt \in Int /\ (ckpt <= 0 \/ ckpt > N)
  BY <1>1 DEF Account!AccountAssumption, AccountSafe
<1>3. AccountTypes
  <2>1. Account!StepTypeOK(Account!Errors)
    <3>1. eof \in BOOLEAN /\ cancelled \in BOOLEAN
      BY <1>1, Zenon
    <3>2. cursor \in 0 .. N /\ chunk \in SUBSET Account!Records /\ ckpt \in Int
      BY <1>1, <1>2 DEF StepConstants
    <3> QED
      BY <1>1, <3>1, <3>2 DEF Account!StepTypeOK, Account!Errors
  <2>2. /\ order \in Seq(Account!Records) /\ crashOn \in Account!Records \union {NoCrash}
        /\ blank \subseteq Account!Records /\ cancels \in Nat
    BY <1>1
  <2>3. result \in [status : {"none", "error", "completed", "cancelled", "failed"}, checkpoint : Int]
    BY <1>1
  <2> QED
    BY <1>1, <2>1, <2>2, <2>3 DEF AccountTypes, Account!TypeOK
<1>4. AccountReports
  BY <1>1 DEF AccountReports
<1>5. Len(order) = 0
  BY <1>1
<1>6. Account!Resume \in 0 .. N => AccountRuns
  BY <1>1, <1>2, <1>5 DEF StepConstants, AccountRuns, Account!Resume, Account!NoCheckpoint
<1> QED
  BY <1>1, <1>3, <1>4, <1>5, <1>6 DEF AccountInv, AccountStuck

\* The run loop moves on and leaves the stores alone, or the step is aborted.
LEMMA AccountTypesStep ==
    ASSUME StepConstants, Account!AccountAssumption, AccountTypes, Account!Next
    PROVE  AccountTypes'
<1> USE DEF StepConstants
<1>1. /\ Account!StepTypeOK(Account!Errors) /\ order \in Seq(Account!Records)
      /\ crashOn \in Account!Records \union {NoCrash} /\ blank \subseteq Account!Records
      /\ cancels \in Nat
      /\ result \in [status : {"none", "error", "completed", "cancelled", "failed"}, checkpoint : Int]
      /\ pc = "process" => cursor > 0
  BY DEF AccountTypes, Account!TypeOK
<1>2. /\ pc \in {"idle", "open", "read", "process", "write", "save", "close", "finish"}
      /\ cursor \in 0 .. N /\ eof \in BOOLEAN /\ chunk \in SUBSET Account!Records /\ ckpt \in Int
      /\ cancelled \in BOOLEAN /\ err \in Account!Errors
  BY <1>1 DEF Account!StepTypeOK
<1>3. ASSUME NEW crash \in CrashAccounts, NEW blanks \in BlankAccounts, Account!StartRun(crash, blanks)
      PROVE  AccountTypes'
  <2>1. Account!StepTypeOK(Account!Errors)'
    <3>1. eof' \in BOOLEAN /\ cancelled' \in BOOLEAN
      BY <1>3, Zenon DEF Account!StartRun, Account!StepBegin
    <3> QED
      BY <1>2, <1>3, <3>1 DEF Account!StartRun, Account!StepBegin, Account!Goto, Account!StepTypeOK,
         Account!Errors
  <2>2. crashOn' \in Account!Records \union {NoCrash} /\ blank' \subseteq Account!Records
    BY <1>3 DEF Account!StartRun, Account!AccountAssumption
  <2> QED
    BY <1>1, <1>3, <2>1, <2>2 DEF Account!StartRun, Account!StepBegin, Account!Goto, AccountTypes,
       Account!TypeOK
<1>4. CASE Account!Cancel
  BY <1>1, <1>2, <1>4 DEF Account!Cancel, Account!CancelContext, AccountTypes, Account!TypeOK,
     Account!StepTypeOK
<1>5. ASSUME NEW e \in Account!Errors, Account!Abort(e), UNCHANGED <<order, crashOn, blank, result, cancels>>
      PROVE  AccountTypes'
  BY <1>1, <1>2, <1>5 DEF Account!Abort, Account!Goto, AccountTypes, Account!TypeOK, Account!StepTypeOK
<1>6. CASE Account!NoticeCancel
  BY <1>5, <1>6 DEF Account!NoticeCancel, Account!AbortIfCancelled, Account!accountVars, Account!Errors
<1>7. CASE Account!RestoreReader
  <2>1. ASSUME NEW next \in 0 .. N, Account!Restore(next), UNCHANGED <<order, crashOn, blank, result, cancels>>
        PROVE  AccountTypes'
    BY <1>1, <1>2, <2>1 DEF Account!Restore, Account!Goto, AccountTypes, Account!TypeOK, Account!StepTypeOK
  <2> QED
    BY <1>5, <1>7, <2>1 DEF Account!RestoreReader, Account!accountVars, Account!Errors
<1>8. CASE Account!Read
  <2>1. eof' \in BOOLEAN
    BY <1>2, <1>8, Zenon DEF Account!Read, Account!ReadRecord, Account!ReadEnd
  <2>2. UNCHANGED <<order, crashOn, blank, result, cancels, chunk, ckpt, cancelled, err>>
    BY <1>8 DEF Account!Read, Account!ReadRecord, Account!ReadEnd, Account!accountVars
  <2>3. /\ cursor' \in 0 .. N /\ pc' \in {"process", "close", "write"}
        /\ pc' = "process" => cursor' > 0
    BY <1>2, <1>8 DEF Account!Read, Account!ReadRecord, Account!ReadEnd, Account!Goto
  <2> QED
    BY <1>1, <1>2, <2>1, <2>2, <2>3 DEF AccountTypes, Account!TypeOK, Account!StepTypeOK
<1>9. CASE Account!Process
  <2>1. CASE Account!Accept /\ UNCHANGED <<order, crashOn, blank, result, cancels>>
    <3>1. cursor - 1 \in Account!Records
      BY <1>1, <1>2, <2>1 DEF Account!Accept, Account!Processing, Account!Records
    <3> QED
      BY <1>1, <1>2, <2>1, <3>1 DEF Account!Accept, Account!Processing, Account!Current, Account!Goto,
         AccountTypes, Account!TypeOK, Account!StepTypeOK
  <2> QED
    BY <1>5, <1>9, <2>1 DEF Account!Process, Account!FailRecord, Account!accountVars, Account!Errors
<1>10. CASE Account!Write
  <2>1. PICK i \in chunk :
           IF i \in Account!Targets THEN Account!FailWrite(i, "duplicate") /\ UNCHANGED order
           ELSE Account!WroteRecord(i) /\ order' = Append(order, i)
    BY <1>10 DEF Account!Write
  <2>2. UNCHANGED <<crashOn, blank, result, cancels>>
    BY <1>10 DEF Account!Write
  <2>3. CASE i \in Account!Targets
    BY <1>5, <2>1, <2>2, <2>3 DEF Account!FailWrite, Account!Errors
  <2>4. CASE i \notin Account!Targets
    <3>1. order' \in Seq(Account!Records)
      BY <1>1, <1>2, <2>1, <2>4
    <3>2. Account!StepTypeOK(Account!Errors)' /\ pc' # "process"
      BY <1>1, <1>2, <2>1, <2>4 DEF Account!WroteRecord, Account!Goto, Account!StepTypeOK
    <3> QED
      BY <1>1, <2>2, <3>1, <3>2 DEF AccountTypes, Account!TypeOK
  <2> QED
    BY <2>3, <2>4
<1>11. CASE Account!Save
  BY <1>1, <1>2, <1>11 DEF Account!Save, Account!SaveCheckpoint, Account!Goto, Account!accountVars,
     AccountTypes, Account!TypeOK, Account!StepTypeOK
<1>12. CASE Account!Close
  BY <1>1, <1>2, <1>12 DEF Account!Close, Account!CloseStep, Account!Goto, Account!accountVars,
     AccountTypes, Account!TypeOK, Account!StepTypeOK, Account!Errors
<1>13. CASE Account!FinishRun
  <2>1. result' \in [status : {"none", "error", "completed", "cancelled", "failed"}, checkpoint : Int]
    <3>1. \A c \in Int : [status |-> Account!StatusOf(err), checkpoint |-> c] \in
             [status : {"none", "error", "completed", "cancelled", "failed"}, checkpoint : Int]
      BY StatusKinds
    <3>2. [status |-> "error", checkpoint |-> -1] \in
             [status : {"none", "error", "completed", "cancelled", "failed"}, checkpoint : Int]
      OBVIOUS
    <3> QED
      BY <1>2, <1>13, <3>1, <3>2 DEF Account!FinishRun, Account!NoCheckpoint
  <2> QED
    BY <1>1, <1>2, <1>13, <2>1 DEF Account!FinishRun, Account!Goto, AccountTypes, Account!TypeOK,
       Account!StepTypeOK
<1> QED
  BY <1>3, <1>4, <1>6, <1>7, <1>8, <1>9, <1>10, <1>11, <1>12, <1>13 DEF Account!Next, Account!RunStep

\* A step of a run whose checkpoint the reader refuses.
LEMMA AccountStuckStep ==
    ASSUME StepConstants, Account!AccountAssumption, AccountInv, Account!Next,
           Account!Resume \notin 0 .. N
    PROVE  AccountStuck' /\ UNCHANGED <<order, ckpt>>
<1>1. AccountStuck /\ ckpt \in Int /\ (ckpt # -1 => ckpt \notin 0 .. N) /\ ckpt # -1
  BY DEF AccountInv, AccountTypes, Account!TypeOK, Account!StepTypeOK, Account!Resume, Account!NoCheckpoint,
     StepConstants
<1>2. ASSUME NEW crash \in CrashAccounts, NEW blanks \in BlankAccounts, Account!StartRun(crash, blanks)
      PROVE  AccountStuck' /\ UNCHANGED <<order, ckpt>>
  BY <1>1, <1>2 DEF Account!StartRun, Account!StepBegin, Account!Goto, AccountStuck
<1>3. CASE Account!Cancel
  BY <1>1, <1>3 DEF Account!Cancel, Account!CancelContext, AccountStuck
<1>4. CASE Account!NoticeCancel
  BY <1>1, <1>4 DEF Account!NoticeCancel, Account!AbortIfCancelled, Account!Abort, Account!Goto,
     Account!accountVars, AccountStuck
<1>5. CASE Account!RestoreReader
  BY <1>1, <1>5 DEF Account!RestoreReader, Account!Abort, Account!Goto,
     Account!accountVars, AccountStuck, Account!NoCheckpoint
<1>6. CASE Account!FinishRun
  BY <1>1, <1>6 DEF Account!FinishRun, Account!Goto, AccountStuck
<1>7. ~(Account!Read \/ Account!Process \/ Account!Write \/ Account!Save \/ Account!Close)
  BY <1>1 DEF AccountStuck, Account!Read, Account!ReadRecord, Account!ReadEnd, Account!Process,
     Account!Processing, Account!Write, Account!FailWrite, Account!WroteRecord, Account!Save,
     Account!SaveCheckpoint, Account!Close, Account!CloseStep
<1> QED
  BY <1>2, <1>3, <1>4, <1>5, <1>6, <1>7 DEF Account!Next, Account!RunStep

\* The size of a chunk of consecutive records.
LEMMA ChunkSizes ==
    \A a, b \in Int : a <= b => Account!Cardinality(a .. (b - 1)) = b - a
<1> TAKE a \in Int, b \in Int
<1>1. Cardinality(a .. (b - 1)) = IF a > b - 1 THEN 0 ELSE (b - 1) - a + 1
  BY FS_Interval
<1> QED
  BY <1>1, SameSizes

\* A step of a run that goes on from a checkpoint the reader accepts.
LEMMA AccountRunsStep ==
    ASSUME StepConstants, Account!AccountAssumption, AccountInv, Account!Next, AccountTypes',
           Account!Resume \in 0 .. N
    PROVE  /\ AccountRuns' /\ Account!Resume' \in 0 .. N
           /\ \A k \in 1 .. Len(order') : order'[k] = k - 1
<1> USE DEF StepConstants
<1>c. PICK c \in 0 .. N : c = Account!Resume
  OBVIOUS
<1>n. PICK n \in Nat : n = Len(order)
  BY DEF AccountInv, AccountTypes, Account!TypeOK
<1>1. /\ pc \in {"idle", "open", "read", "process", "write", "save", "close", "finish"}
      /\ cursor \in 0 .. N /\ chunk \in SUBSET Account!Records /\ ckpt \in Int
      /\ order \in Seq(Account!Records) /\ cancels \in Nat
  BY DEF AccountInv, AccountTypes, Account!TypeOK, Account!StepTypeOK
<1>2. /\ c <= n /\ n <= c + ChunkSize /\ n <= N
      /\ pc = "open" => chunk = {}
      /\ pc = "read" => c <= cursor /\ cursor < c + ChunkSize /\ chunk = c .. (cursor - 1)
      /\ pc = "process" => c < cursor /\ cursor <= c + ChunkSize /\ chunk = c .. (cursor - 2)
      /\ pc = "write" => /\ chunk # {} /\ c < cursor /\ cursor <= c + ChunkSize
                         /\ chunk = n .. (cursor - 1) \/ (c < n /\ chunk = c .. (cursor - 1))
      /\ pc = "save" => chunk = {} /\ n = cursor
      /\ pc = "close" \/ (pc = "finish" /\ err = "none") => chunk = {} /\ n = N /\ c = N
      /\ eof => cursor = N
      /\ pc \in {"open", "read", "process"} => ~eof
      /\ cancels = 0 => /\ c < n => pc \in {"write", "save"}
                        /\ pc = "write" => chunk = n .. (cursor - 1)
  BY <1>c, <1>n DEF AccountInv, AccountRuns
<1>3. ckpt \in -1 .. N /\ (ckpt = -1 => c = 0) /\ (ckpt # -1 => c = ckpt)
  BY <1>1, <1>c DEF Account!Resume, Account!NoCheckpoint
<1>4. \A k \in 1 .. n : order[k] = k - 1
  BY <1>n DEF AccountInv
<1>5. cancelled => cancels > 0
  BY DEF AccountInv
\* the goal for a step that leaves both stores alone
<1>6. ASSUME UNCHANGED <<order, ckpt>>,
             /\ pc' = "open" => chunk' = {}
             /\ pc' = "read" => c <= cursor' /\ cursor' < c + ChunkSize /\ chunk' = c .. (cursor' - 1)
             /\ pc' = "process" => c < cursor' /\ cursor' <= c + ChunkSize /\ chunk' = c .. (cursor' - 2)
             /\ pc' = "write" => /\ chunk' # {} /\ c < cursor' /\ cursor' <= c + ChunkSize
                                 /\ chunk' = n .. (cursor' - 1) \/ (c < n /\ chunk' = c .. (cursor' - 1))
             /\ pc' = "save" => chunk' = {} /\ n = cursor'
             /\ pc' = "close" \/ (pc' = "finish" /\ err' = "none") => chunk' = {} /\ n = N /\ c = N,
             eof' => cursor' = N,
             pc' \in {"open", "read", "process"} => ~eof',
             cancels' = 0 => /\ c < n => pc' \in {"write", "save"}
                             /\ pc' = "write" => chunk' = n .. (cursor' - 1)
      PROVE  /\ AccountRuns' /\ Account!Resume' \in 0 .. N
             /\ \A k \in 1 .. Len(order') : order'[k] = k - 1
  <2>1. Account!Resume' = c /\ Len(order') = n
    BY <1>6, <1>c, <1>n DEF Account!Resume
  <2> QED
    BY <1>2, <1>4, <1>6, <2>1 DEF AccountRuns
<1>7. ASSUME NEW crash \in CrashAccounts, NEW blanks \in BlankAccounts, Account!StartRun(crash, blanks)
      PROVE  UNCHANGED <<order, ckpt, cancels>> /\ pc = "idle" /\ pc' = "open" /\ chunk' = {} /\ ~eof'
  BY <1>7 DEF Account!StartRun, Account!StepBegin, Account!Goto
<1>8. ASSUME NEW e \in Account!Errors \ {"none"}, Account!Abort(e), UNCHANGED <<order, cancels>>,
             cancelled \/ ~(pc \in {"write", "save"})
      PROVE  /\ AccountRuns' /\ Account!Resume' \in 0 .. N
             /\ \A k \in 1 .. Len(order') : order'[k] = k - 1
  BY <1>2, <1>5, <1>6, <1>8 DEF Account!Abort, Account!Goto
<1>9. CASE Account!Cancel
  <2>1. /\ cancels' = cancels + 1
        /\ UNCHANGED <<pc, cursor, eof, chunk, ckpt, err, order>>
    BY <1>9 DEF Account!Cancel, Account!CancelContext
  <2> QED
    BY <1>1, <1>2, <1>6, <2>1
<1>10. CASE Account!NoticeCancel
  <2>1. Account!Abort("cancelled") /\ cancelled /\ UNCHANGED <<order, cancels>>
    BY <1>10 DEF Account!NoticeCancel, Account!AbortIfCancelled, Account!accountVars
  <2> QED
    BY <1>8, <2>1 DEF Account!Errors
<1>11. CASE Account!RestoreReader
  <2>1. Account!Restore(c) /\ UNCHANGED <<order, cancels>>
    BY <1>3, <1>11 DEF Account!RestoreReader, Account!accountVars, Account!NoCheckpoint
  <2>2. pc = "open" /\ cursor' = c /\ pc' = "read" /\ UNCHANGED <<eof, chunk, ckpt>>
    BY <2>1 DEF Account!Restore, Account!Goto
  <2>3. chunk' = c .. (cursor' - 1)
    BY <1>2, <2>2
  <2> QED
    BY <1>2, <1>6, <2>1, <2>2, <2>3
<1>12. CASE Account!Read
  <2>0. UNCHANGED <<order, cancels>>
    BY <1>12 DEF Account!Read, Account!accountVars
  <2>1. CASE Account!ReadRecord
    <3>1. /\ pc = "read" /\ cursor < N /\ cursor' = cursor + 1 /\ pc' = "process"
          /\ UNCHANGED <<eof, chunk, ckpt>>
      BY <2>1 DEF Account!ReadRecord, Account!Goto
    <3> QED
      BY <1>1, <1>2, <1>6, <2>0, <3>1
  <2>2. CASE Account!ReadEnd
    <3>1. /\ pc = "read" /\ cursor >= N /\ eof' /\ pc' = (IF chunk = {} THEN "close" ELSE "write")
          /\ UNCHANGED <<cursor, chunk, ckpt>>
      BY <2>2 DEF Account!ReadEnd, Account!Goto
    <3>2. cursor = N /\ (chunk = {} => c = N) /\ (c = N => n = N) /\ (chunk # {} => c < cursor)
      <4>1. cursor = N /\ chunk = c .. (N - 1)
        BY <1>1, <1>2, <3>1
      <4>2. c < N => c \in chunk
        BY <4>1
      <4>3. c = N => chunk = {}
        BY <4>1
      <4> QED
        BY <1>2, <4>1, <4>2, <4>3
    <3> QED
      BY <1>1, <1>2, <1>6, <2>0, <3>1, <3>2
  <2> QED
    BY <1>12, <2>1, <2>2 DEF Account!Read
<1>13. CASE Account!Process
  <2>1. CASE Account!Accept /\ UNCHANGED <<order, cancels>>
    <3>1. /\ pc = "process" /\ chunk' = chunk \union {cursor - 1}
          /\ pc' = (IF Account!Cardinality(chunk') >= ChunkSize THEN "write" ELSE "read")
          /\ UNCHANGED <<cursor, eof, ckpt>>
      BY <2>1 DEF Account!Accept, Account!Processing, Account!Current, Account!Goto
    <3>2. chunk' = c .. (cursor - 1)
      BY <1>1, <1>2, <3>1
    <3>3. Account!Cardinality(chunk') = cursor - c
      <4>1. c \in Int /\ cursor \in Int /\ c <= cursor
        BY <1>1, <1>2, <3>1
      <4>2. Account!Cardinality(c .. (cursor - 1)) = cursor - c
        BY <4>1, ChunkSizes
      <4> QED
        BY <3>2, <4>2
    <3>4. chunk' # {}
      BY <3>1
    <3> QED
      BY <1>1, <1>2, <1>6, <2>1, <3>1, <3>2, <3>3, <3>4
  <2>2. ASSUME NEW e \in {"blank", "crash"}, Account!FailRecord(e), UNCHANGED <<order, cancels>>
        PROVE  Account!Abort(e) /\ pc = "process"
    BY <2>2 DEF Account!FailRecord, Account!Processing
  <2> QED
    BY <1>8, <1>13, <2>1, <2>2 DEF Account!Process, Account!accountVars, Account!Errors
<1>14. CASE Account!Write
  <2>1. PICK i \in chunk :
           IF i \in Account!Targets THEN Account!FailWrite(i, "duplicate") /\ UNCHANGED order
           ELSE Account!WroteRecord(i) /\ order' = Append(order, i)
    BY <1>14 DEF Account!Write
  <2>2. UNCHANGED cancels /\ pc = "write" /\ \A j \in chunk : i <= j
    BY <1>14, <2>1 DEF Account!Write, Account!FailWrite, Account!WroteRecord, Account!FirstOfChunk
  <2>3. Account!Targets = 0 .. (n - 1)
    <3>1. \A x \in 0 .. (n - 1) : x + 1 \in 1 .. n /\ order[x + 1] = x
      BY <1>4
    <3>2. \A k \in 1 .. n : order[k] \in 0 .. (n - 1)
      BY <1>4
    <3> QED
      BY <3>1, <3>2, <1>n DEF Account!Targets
  <2>4. CASE i \in Account!Targets
    <3>1. i < n /\ i >= 0 /\ chunk # n .. (cursor - 1)
      BY <1>1, <2>3, <2>4
    <3>2. cancels # 0
      BY <1>2, <2>2, <3>1
    <3>3. Account!Abort("duplicate") /\ UNCHANGED order
      BY <2>1, <2>4 DEF Account!FailWrite
    <3>4. UNCHANGED ckpt /\ chunk' = {} /\ pc' = "finish" /\ err' = "duplicate" /\ UNCHANGED <<cursor, eof>>
      BY <3>3 DEF Account!Abort, Account!Goto
    <3> QED
      BY <1>1, <1>2, <1>6, <2>2, <3>2, <3>3, <3>4
  <2>5. CASE i \notin Account!Targets
    <3>1. /\ order' = Append(order, i) /\ chunk' = chunk \ {i}
          /\ pc' = (IF chunk' # {} THEN "write" ELSE "save")
          /\ UNCHANGED <<cursor, eof, ckpt, err>>
      BY <2>1, <2>5 DEF Account!WroteRecord, Account!Goto, Account!AccountAssumption
    <3>2. c < n => chunk # c .. (cursor - 1)
      BY <1>1, <1>2, <2>2, <2>3, <2>5
    <3>3. chunk = n .. (cursor - 1)
      BY <1>2, <2>2, <3>2
    <3>4. i = n /\ n < cursor
      BY <1>1, <2>2, <3>3
    <3>5. chunk' = (n + 1) .. (cursor - 1)
      BY <1>1, <3>1, <3>3, <3>4
    <3>6. /\ Len(order') = n + 1 /\ order'[n + 1] = n
          /\ \A k \in 1 .. n : order'[k] = k - 1
      BY <1>1, <1>n, <1>4, <3>1, <3>4
    <3>7. \A k \in 1 .. Len(order') : order'[k] = k - 1
      BY <3>6
    <3>8. Account!Resume' = c
      BY <1>c, <3>1 DEF Account!Resume
    <3>9. chunk' = {} => n + 1 = cursor
      BY <1>1, <3>4, <3>5
    <3> QED
      BY <1>1, <1>2, <2>2, <3>1, <3>4, <3>5, <3>6, <3>7, <3>8, <3>9, SMTT(30) DEF AccountRuns
  <2> QED
    BY <2>4, <2>5
<1>15. CASE Account!Save
  <2>1. /\ pc = "save" /\ ckpt' = cursor /\ pc' = (IF eof THEN "close" ELSE "read")
        /\ UNCHANGED <<cursor, eof, chunk, err, order, cancels>>
    BY <1>15 DEF Account!Save, Account!SaveCheckpoint, Account!Goto, Account!accountVars
  <2>2. Account!Resume' = cursor /\ Len(order') = n
    BY <1>1, <1>n, <2>1 DEF Account!Resume, Account!NoCheckpoint
  <2>3. chunk' = cursor .. (cursor - 1)
    <3>1. cursor .. (cursor - 1) = {}
      BY <1>1
    <3> QED
      BY <1>2, <2>1, <3>1
  <2> QED
    BY <1>1, <1>2, <1>4, <1>n, <2>1, <2>2, <2>3 DEF AccountRuns
<1>16. CASE Account!Close
  <2>1. pc = "close" /\ pc' = "finish" /\ UNCHANGED <<order, cancels, cursor, eof, chunk, ckpt>>
    BY <1>16 DEF Account!Close, Account!CloseStep, Account!Goto, Account!accountVars
  <2> QED
    BY <1>2, <1>6, <2>1
<1>17. CASE Account!FinishRun
  <2>1. pc' = "idle" /\ pc = "finish" /\ UNCHANGED <<cursor, eof, chunk, ckpt, cancelled, err, order, cancels>>
    BY <1>17 DEF Account!FinishRun, Account!Goto
  <2> QED
    BY <1>2, <1>6, <2>1
<1> QED
  BY <1>2, <1>6, <1>7, <1>9, <1>10, <1>11, <1>12, <1>13, <1>14, <1>15, <1>16, <1>17
     DEF Account!Next, Account!RunStep

LEMMA AccountStep ==
    ASSUME StepConstants, Account!AccountAssumption, AccountInv, [Account!Next]_Account!vars
    PROVE  AccountInv'
<1>1. CASE UNCHANGED Account!vars
  BY <1>1 DEF Account!vars, Account!stepVars, Account!accountVars, AccountInv, AccountTypes, AccountRuns,
     AccountStuck, AccountReports, Account!TypeOK, Account!StepTypeOK, Account!Resume
<1>2. CASE Account!Next
  <2>1. AccountTypes'
    BY <1>2, AccountTypesStep DEF AccountInv
  <2>2. (cancelled => cancels > 0)'
    <3>1. ASSUME Account!Cancel PROVE cancels' > 0
      BY <3>1 DEF Account!Cancel, AccountInv, AccountTypes, Account!TypeOK
    <3>2. Account!Cancel \/ (UNCHANGED cancels /\ (cancelled' => cancelled))
      BY <1>2 DEF Account!Next, Account!RunStep, Account!StartRun, Account!StepBegin, Account!NoticeCancel,
         Account!AbortIfCancelled, Account!Abort, Account!RestoreReader, Account!Restore, Account!Read,
         Account!ReadRecord, Account!ReadEnd, Account!Process, Account!FailRecord, Account!Accept,
         Account!Write, Account!FailWrite, Account!WroteRecord, Account!Save, Account!SaveCheckpoint,
         Account!Close, Account!CloseStep, Account!FinishRun, Account!accountVars
    <3> QED
      BY <3>1, <3>2 DEF AccountInv
  <2>3. /\ \A k \in 1 .. Len(order') : order'[k] = k - 1
        /\ IF Account!Resume' \in 0 .. N THEN AccountRuns' ELSE AccountStuck'
    <3>1. CASE Account!Resume \in 0 .. N
      BY <1>2, <2>1, <3>1, AccountRunsStep
    <3>2. CASE Account!Resume \notin 0 .. N
      <4>1. AccountStuck' /\ UNCHANGED <<order, ckpt>>
        BY <1>2, <3>2, AccountStuckStep
      <4> QED
        BY <3>2, <4>1 DEF AccountInv, Account!Resume
    <3> QED
      BY <3>1, <3>2
  <2>4. AccountReports'
    <3>0. AccountReports /\ AccountTypes
      BY DEF AccountInv
    <3>1. CASE Account!FinishRun
      <4>0. UNCHANGED <<order, ckpt>> /\ pc = "finish" /\ Account!Resume' = Account!Resume
        BY <3>1 DEF Account!FinishRun, Account!Resume
      <4>1. result'.status = "completed" => Len(order) = N /\ Account!Resume = N
        <5>1. result'.status = "completed" => err = "none"
          BY <3>1 DEF Account!FinishRun, Account!StatusOf
        <5>2. AccountStuck => err # "none"
          BY <4>0 DEF AccountStuck
        <5>3. AccountRuns /\ err = "none" => Len(order) = N /\ Account!Resume = N
          BY <4>0 DEF AccountRuns
        <5> QED
          BY <5>1, <5>2, <5>3 DEF AccountInv
      <4>2. ckpt # Account!Malformed => result'.checkpoint = ckpt
        BY <3>1 DEF Account!FinishRun
      <4> QED
        BY <4>0, <4>1, <4>2 DEF AccountReports, Account!Malformed
    <3>2. CASE ~Account!FinishRun
      <4>1. /\ UNCHANGED result /\ pc' # "idle"
        BY <1>2, <3>2 DEF Account!Next, Account!RunStep, Account!StartRun, Account!StepBegin,
           Account!Cancel, Account!CancelContext,
           Account!NoticeCancel, Account!AbortIfCancelled, Account!Abort, Account!RestoreReader,
           Account!Restore, Account!Read, Account!ReadRecord, Account!ReadEnd, Account!Process,
           Account!FailRecord, Account!Accept, Account!Write, Account!FailWrite, Account!WroteRecord,
           Account!Save, Account!SaveCheckpoint, Account!Close, Account!CloseStep, Account!accountVars,
           Account!Goto
      <4>2. Account!Resume = N /\ Len(order) = N => Account!Resume' = N /\ Len(order') = N
        <5>1. ASSUME Account!Resume = N, Len(order) = N
              PROVE  Account!Resume' = N /\ Len(order') = N
          <6>1. AccountRuns /\ N \in Nat /\ N \in 0 .. N
            BY <5>1 DEF AccountInv, StepConstants
          <6>2. AccountRuns' /\ Account!Resume' \in 0 .. N
            BY <1>2, <2>1, <5>1, <6>1, AccountRunsStep
          <6>3. pc = "write" => FALSE
            BY <5>1, <6>1 DEF AccountRuns, AccountInv, AccountTypes, Account!TypeOK, Account!StepTypeOK
          <6>4. ~Account!Write
            BY <6>3 DEF Account!Write, Account!FailWrite, Account!WroteRecord
          <6>5. UNCHANGED order
            BY <1>2, <6>4 DEF Account!Next, Account!RunStep, Account!StartRun, Account!Cancel,
               Account!NoticeCancel, Account!RestoreReader, Account!Read, Account!Process, Account!Save,
               Account!Close, Account!FinishRun, Account!accountVars
          <6>6. CASE Account!Save
            <7>1. pc = "save" /\ ckpt' = cursor
              BY <6>6 DEF Account!Save, Account!SaveCheckpoint
            <7>2. cursor = N
              BY <5>1, <6>1, <7>1 DEF AccountRuns
            <7> QED
              BY <5>1, <6>1, <6>5, <7>1, <7>2 DEF Account!Resume, Account!NoCheckpoint
          <6>7. CASE ~Account!Save
            <7>1. UNCHANGED ckpt
              BY <1>2, <6>4, <6>7 DEF Account!Next, Account!RunStep, Account!StartRun, Account!StepBegin,
                 Account!Cancel, Account!CancelContext,
                 Account!NoticeCancel, Account!AbortIfCancelled, Account!Abort, Account!RestoreReader,
                 Account!Restore, Account!Read, Account!ReadRecord, Account!ReadEnd, Account!Process,
                 Account!FailRecord, Account!Accept, Account!Close, Account!CloseStep, Account!FinishRun
            <7> QED
              BY <5>1, <6>5, <7>1 DEF Account!Resume
          <6> QED
            BY <6>6, <6>7
        <5> QED
          BY <5>1
      <4> QED
        BY <3>0, <4>1, <4>2 DEF AccountReports
    <3> QED
      BY <3>1, <3>2
  <2> QED
    BY <2>1, <2>2, <2>3, <2>4 DEF AccountInv
<1> QED
  BY <1>1, <1>2

\* A run over a torn chunk: it has not begun to write the chunk from the checkpoint on,
\* whose first account is stored.
AccountBlocked ==
    /\ Account!Torn
    /\ Account!Resume \in 0 .. N =>
          /\ pc \notin {"save", "close"}
          /\ pc = "write" => chunk = Account!Resume .. (cursor - 1)

LEMMA AccountBlockedStep ==
    ASSUME StepConstants, Account!AccountAssumption, AccountInv, AccountBlocked,
           [Account!Next]_Account!vars
    PROVE  AccountBlocked'
<1> USE DEF StepConstants
<1>1. CASE UNCHANGED Account!vars
  BY <1>1 DEF Account!vars, Account!stepVars, Account!accountVars, AccountBlocked, Account!Torn,
     Account!Resume
<1>2. CASE Account!Next /\ Account!Resume \notin 0 .. N
  <2>1. UNCHANGED <<order, ckpt>>
    BY <1>2, AccountStuckStep
  <2> QED
    BY <1>2, <2>1 DEF AccountBlocked, Account!Torn, Account!Resume
<1>3. CASE Account!Next /\ Account!Resume \in 0 .. N
  <2>1. PICK c \in 0 .. N : c = Account!Resume
    BY <1>3
  <2>2. /\ c < Len(order) /\ Len(order) <= N
        /\ pc \notin {"save", "close"}
        /\ pc = "write" => chunk = c .. (cursor - 1) /\ c < cursor
        /\ pc = "read" => chunk = c .. (cursor - 1)
        /\ pc = "process" => c < cursor /\ chunk = c .. (cursor - 2)
    BY <2>1 DEF AccountBlocked, Account!Torn, AccountInv, AccountRuns
  <2>3. cursor \in 0 .. N /\ Len(order) \in Nat
    BY DEF AccountInv, AccountTypes, Account!TypeOK, Account!StepTypeOK
  <2>4. ASSUME UNCHANGED <<order, ckpt>>, pc' \notin {"save", "close"},
               pc' = "write" => chunk' = c .. (cursor' - 1)
        PROVE  AccountBlocked'
    BY <2>1, <2>2, <2>4 DEF AccountBlocked, Account!Torn, Account!Resume
  <2>5. CASE Account!Write
    <3>1. PICK i \in chunk :
             IF i \in Account!Targets THEN Account!FailWrite(i, "duplicate") /\ UNCHANGED order
             ELSE Account!WroteRecord(i) /\ order' = Append(order, i)
      BY <2>5 DEF Account!Write
    <3>2. pc = "write" /\ \A j \in chunk : i <= j
      BY <3>1 DEF Account!FailWrite, Account!WroteRecord, Account!FirstOfChunk
    <3>3. i = c
      BY <2>2, <2>3, <3>1, <3>2
    <3>4. i \in Account!Targets
      <4>1. c + 1 \in 1 .. Len(order) /\ order[c + 1] = c
        BY <2>2, <2>3 DEF AccountInv
      <4> QED
        BY <3>3, <4>1 DEF Account!Targets
    <3> QED
      BY <2>4, <3>1, <3>4 DEF Account!FailWrite, Account!Abort, Account!Goto
  <2>6. CASE Account!Read
    <3>1. CASE Account!ReadEnd
      <4>1. pc = "read" /\ cursor = N
        BY <2>3, <3>1 DEF Account!ReadEnd
      <4>2. c \in chunk
        BY <2>2, <2>3, <4>1
      <4> QED
        BY <2>2, <2>4, <2>6, <3>1, <4>1, <4>2 DEF Account!ReadEnd, Account!Goto, Account!Read,
           Account!accountVars
    <3> QED
      BY <2>4, <2>6, <3>1 DEF Account!Read, Account!ReadRecord, Account!Goto, Account!accountVars
  <2>7. CASE Account!Process
    <3>1. CASE Account!Accept
      <4>1. pc = "process" /\ chunk' = chunk \union {cursor - 1}
        BY <3>1 DEF Account!Accept, Account!Processing, Account!Current
      <4>2. chunk' = c .. (cursor - 1)
        BY <2>2, <2>3, <4>1
      <4> QED
        BY <2>4, <2>7, <3>1, <4>2 DEF Account!Accept, Account!Goto, Account!Process, Account!accountVars
    <3> QED
      BY <2>4, <2>7, <3>1 DEF Account!Process, Account!FailRecord, Account!Abort, Account!Goto,
         Account!accountVars
  <2>8. CASE Account!NoticeCancel \/ Account!RestoreReader
    BY <2>4, <2>8 DEF Account!NoticeCancel, Account!AbortIfCancelled, Account!Abort,
       Account!RestoreReader, Account!Restore, Account!Goto, Account!accountVars
  <2>9. CASE Account!FinishRun
    BY <2>4, <2>9 DEF Account!FinishRun, Account!Goto
  <2>10. CASE Account!Cancel
    BY <2>2, <2>4, <2>10 DEF Account!Cancel, Account!CancelContext
  <2>11. ASSUME NEW crash \in CrashAccounts, NEW blanks \in BlankAccounts, Account!StartRun(crash, blanks)
         PROVE  AccountBlocked'
    BY <2>4, <2>11 DEF Account!StartRun, Account!StepBegin, Account!Goto
  <2>12. ~Account!Save /\ ~Account!Close
    BY <2>2 DEF Account!Save, Account!SaveCheckpoint, Account!Close, Account!CloseStep
  <2> QED
    BY <1>3, <2>5, <2>6, <2>7, <2>8, <2>9, <2>10, <2>11, <2>12 DEF Account!Next, Account!RunStep
<1> QED
  BY <1>1, <1>2, <1>3

LEMMA AccountParts ==
    ASSUME StepConstants, AccountInv
    PROVE  /\ Account!TypeOK /\ Account!CommittedPrefix /\ Account!CompletedMeansMigrated
           /\ pc = "idle" /\ Account!Torn => AccountBlocked
<1>1. Account!TypeOK /\ Len(order) \in Nat
  BY DEF AccountInv, AccountTypes, Account!TypeOK
<1>2. Account!CompletedMeansMigrated
  BY DEF AccountInv, AccountReports, Account!CompletedMeansMigrated
<1>3. Account!CommittedPrefix
  BY <1>1 DEF AccountInv, AccountRuns, Account!CommittedPrefix, Account!TornOnlyByCancel, Account!Torn,
     StepConstants
<1> QED
  BY <1>1, <1>2, <1>3 DEF AccountBlocked

LEMMA AccountInvariant ==
    ASSUME StepConstants, Account!AccountAssumption, AccountSafe
    PROVE  Account!Spec => []AccountInv
<1>1. Account!Init => AccountInv
  BY AccountBegins
<1>2. AccountInv /\ [Account!Next]_Account!vars => AccountInv'
  BY AccountStep
<1> QED
  BY <1>1, <1>2, PTL DEF Account!Spec

\* RunMigration, for every source, chunk size and set of crashing or blank accounts: the
\* target store is a prefix of the source that runs ahead of the checkpoint by at most one
\* chunk, only a cancellation leaves it ahead between runs, and a run that reports
\* completion has stored every account under the checkpoint it reports.
THEOREM AccountsArePrefix ==
    ASSUME StepConstants, Account!AccountAssumption, AccountSafe
    PROVE  Account!Spec => [](Account!CommittedPrefix /\ Account!CompletedMeansMigrated)
<1>1. AccountInv => Account!CommittedPrefix /\ Account!CompletedMeansMigrated
  BY AccountParts
<1> QED
  BY <1>1, AccountInvariant, PTL

\* TargetAccountStore.Put rejects a stored account, so once a finished run leaves the store ahead of the
\* checkpoint (a chunk torn by a cancellation) no later run repairs it.
THEOREM TornChunkBlocks ==
    ASSUME StepConstants, Account!AccountAssumption, AccountSafe
    PROVE  Account!Spec => Account!TornBlocksProgress
<1>1. AccountInv => (pc = "idle" /\ Account!Torn => AccountBlocked)
  BY AccountParts
<1>2. AccountInv /\ AccountBlocked /\ [Account!Next]_Account!vars => AccountBlocked'
  BY AccountBlockedStep
<1>3. AccountBlocked => Account!Torn
  BY DEF AccountBlocked
<1> QED
  BY <1>1, <1>2, <1>3, AccountInvariant, PTL DEF Account!Spec, Account!TornBlocksProgress

--------------------------------------------------------------------------------
(* The CSV import.                                                           *)

CsvResume == IF ckpt = -1 THEN 0 ELSE ckpt

\* Row i has its customer in the sink.
Imported(i) == CustomerID[i] \in DOMAIN customers

\* Where a run stands between the checkpoint and the sink: what it has read and not
\* written is its chunk.
CsvRuns ==
    LET c == CsvResume
    IN /\ pc = "open" => chunk = {}
       /\ pc = "read" => c <= cursor /\ cursor < c + ChunkSize /\ chunk = c .. (cursor - 1)
       /\ pc = "process" => c < cursor /\ cursor <= c + ChunkSize /\ chunk = c .. (cursor - 2)
       /\ pc = "write" => /\ c < cursor /\ cursor <= c + ChunkSize /\ chunk \subseteq 0 .. (cursor - 1)
                          /\ \A i \in Csv!Records : i < cursor /\ i \notin chunk => Imported(i)
       /\ pc = "save" => /\ chunk = {} /\ c <= cursor
                         /\ \A i \in Csv!Records : i < cursor => Imported(i)
       /\ pc = "close" \/ (pc = "finish" /\ err = "none") =>
             chunk = {} /\ \A i \in Csv!Records : Imported(i)
       /\ eof => cursor = N
       /\ pc \in {"open", "read", "process"} => ~eof

\* What the sink holds, against the checkpoint and the file.
CsvSink ==
    /\ \A i \in Csv!Records : i < CsvResume => Imported(i)
    /\ \A id \in DOMAIN customers : customers[id] < CsvResume + ChunkSize
    /\ status = "completed" => \A i \in Csv!Records : Imported(i)
    /\ \A id \in DOMAIN customers : \A i \in Csv!Records : CustomerID[i] = id => customers[id] <= i
    /\ IsFiniteSet(DOMAIN customers)
    /\ writeAttempts = Cardinality(DOMAIN customers) + duplicateSkips

CsvInv == Csv!TypeOK /\ ckpt \in -1 .. N /\ CsvRuns /\ CsvSink

LEMMA CsvBegins == StepConstants /\ Csv!CsvAssumption /\ Csv!Init => CsvInv
<1> SUFFICES ASSUME StepConstants, Csv!CsvAssumption, Csv!Init
             PROVE  CsvInv
  OBVIOUS
<1> USE DEF StepConstants
<1>1. /\ pc = "idle" /\ cursor = 0 /\ eof = FALSE /\ chunk = {} /\ ckpt = -1
      /\ cancelled = FALSE /\ err = "none" /\ customers = [id \in {} |-> 0] /\ duplicateSkips = 0
      /\ writeAttempts = 0 /\ blank = {} /\ crashAfter = 0 /\ status = "none" /\ disruptions = 0
  BY DEF Csv!Init, Csv!StepInit, Csv!NoCheckpoint
<1>2. eof \in BOOLEAN /\ cancelled \in BOOLEAN
  BY <1>1, Zenon
<1>3. DOMAIN customers = {}
  BY <1>1
<1>4. Csv!TypeOK
  BY <1>1, <1>2, <1>3 DEF Csv!TypeOK, Csv!StepTypeOK, Csv!Errors
<1>5. CsvRuns
  BY <1>1 DEF CsvRuns, CsvResume
<1>6. CsvSink
  BY <1>1, <1>3, FS_EmptySet DEF CsvSink, CsvResume, Csv!Records
<1> QED
  BY <1>1, <1>4, <1>5, <1>6 DEF CsvInv

LEMMA CsvTypesStep ==
    ASSUME StepConstants, Csv!CsvAssumption, Csv!TypeOK, Csv!Next, pc = "process" => cursor > 0
    PROVE  Csv!TypeOK'
<1> USE DEF StepConstants
<1>1. /\ DOMAIN customers \subseteq Csv!IDs /\ \A id \in DOMAIN customers : customers[id] \in Csv!Records
      /\ duplicateSkips \in Nat /\ writeAttempts \in Nat /\ blank \subseteq Csv!Records
      /\ crashAfter \in Nat /\ status \in {"none", "completed", "cancelled", "failed"}
      /\ disruptions \in Nat
  BY DEF Csv!TypeOK
<1>2. /\ pc \in {"idle", "open", "read", "process", "write", "save", "close", "finish"}
      /\ cursor \in 0 .. N /\ eof \in BOOLEAN /\ chunk \in SUBSET Csv!Records /\ ckpt \in Int
      /\ cancelled \in BOOLEAN /\ err \in Csv!Errors
  BY DEF Csv!TypeOK, Csv!StepTypeOK
<1>3. eof' \in BOOLEAN /\ cancelled' \in BOOLEAN
  BY <1>2, Zenon DEF Csv!Next, Csv!RunStep, Csv!StartRun, Csv!StepBegin, Csv!Cancel, Csv!CancelContext,
     Csv!NoticeCancel, Csv!AbortIfCancelled, Csv!Abort, Csv!OpenFails, Csv!RestoreReader, Csv!Restore,
     Csv!Read, Csv!ReadRecord, Csv!ReadEnd, Csv!Process, Csv!FailRecord, Csv!Accept, Csv!Write,
     Csv!FailWrite, Csv!WroteRecord, Csv!Save, Csv!SaveCheckpoint, Csv!Close, Csv!CloseStep,
     Csv!FinishRun
<1>4. ASSUME UNCHANGED <<customers, duplicateSkips, writeAttempts, blank, crashAfter, status>>,
             disruptions' \in Nat,
             pc' \in {"idle", "open", "read", "process", "write", "save", "close", "finish"},
             cursor' \in 0 .. N, chunk' \in SUBSET Csv!Records, ckpt' \in Int, err' \in Csv!Errors
      PROVE  Csv!TypeOK'
  BY <1>1, <1>3, <1>4 DEF Csv!TypeOK, Csv!StepTypeOK
<1>5. ASSUME NEW crash \in CrashChoices, NEW blanks \in BlankChoices, Csv!StartRun(crash, blanks)
      PROVE  Csv!TypeOK'
  <2>1. crashAfter' \in Nat /\ blank' \subseteq Csv!Records /\ disruptions' \in Nat
    BY <1>1, <1>5 DEF Csv!StartRun, Csv!CsvAssumption, Csv!Disrupt
  <2>2. UNCHANGED <<customers, duplicateSkips, writeAttempts, status, ckpt>>
    BY <1>5 DEF Csv!StartRun, Csv!StepBegin
  <2>3. pc' = "open" /\ cursor' = 0 /\ chunk' = {} /\ err' = "none"
    BY <1>5 DEF Csv!StartRun, Csv!StepBegin, Csv!Goto
  <2> QED
    BY <1>1, <1>2, <1>3, <2>1, <2>2, <2>3 DEF Csv!TypeOK, Csv!StepTypeOK, Csv!Errors
<1>6. CASE Csv!Cancel
  BY <1>1, <1>2, <1>4, <1>6 DEF Csv!Cancel, Csv!CancelContext, Csv!Disrupt
<1>7. CASE Csv!NoticeCancel \/ Csv!OpenFails
  BY <1>1, <1>2, <1>4, <1>7 DEF Csv!NoticeCancel, Csv!AbortIfCancelled, Csv!Abort, Csv!Goto, Csv!OpenFails,
     Csv!Disrupt, Csv!csvVars, Csv!Errors
<1>8. CASE Csv!RestoreReader
  BY <1>1, <1>2, <1>4, <1>8 DEF Csv!RestoreReader, Csv!Restore, Csv!Abort, Csv!Goto, Csv!csvVars, Csv!Errors
<1>9. CASE Csv!Read
  BY <1>1, <1>2, <1>4, <1>9 DEF Csv!Read, Csv!ReadRecord, Csv!ReadEnd, Csv!Goto, Csv!csvVars
<1>10. CASE Csv!Process
  <2>1. pc = "process" => cursor - 1 \in Csv!Records
    BY <1>2 DEF Csv!Records
  <2> QED
    BY <1>1, <1>2, <1>4, <1>10, <2>1 DEF Csv!Process, Csv!Processing, Csv!FailRecord, Csv!Abort, Csv!Accept,
       Csv!Current, Csv!Goto, Csv!csvVars, Csv!Errors
<1>11. CASE Csv!Write
  <2>1. PICK i \in chunk : Csv!Put(i) /\ (Csv!FailWrite(i, "crash") \/ Csv!WroteRecord(i))
    BY <1>11 DEF Csv!Write
  <2>2. UNCHANGED <<blank, crashAfter, status, disruptions>>
    BY <1>11 DEF Csv!Write
  <2>3. i \in Csv!Records /\ CustomerID[i] \in Csv!IDs
    BY <1>2, <2>1 DEF Csv!IDs
  <2>4. /\ writeAttempts' \in Nat /\ duplicateSkips' \in Nat
        /\ DOMAIN customers' \subseteq Csv!IDs /\ \A id \in DOMAIN customers' : customers'[id] \in Csv!Records
    BY <1>1, <2>1, <2>3 DEF Csv!Put
  <2>5. /\ pc' \in {"idle", "open", "read", "process", "write", "save", "close", "finish"}
        /\ cursor' \in 0 .. N /\ chunk' \in SUBSET Csv!Records /\ ckpt' \in Int /\ err' \in Csv!Errors
    BY <1>2, <2>1 DEF Csv!FailWrite, Csv!WroteRecord, Csv!Abort, Csv!Goto, Csv!Errors
  <2> QED
    BY <1>1, <1>3, <2>2, <2>4, <2>5 DEF Csv!TypeOK, Csv!StepTypeOK
<1>12. CASE Csv!Save
  BY <1>1, <1>2, <1>4, <1>12 DEF Csv!Save, Csv!SaveCheckpoint, Csv!Goto, Csv!csvVars
<1>13. CASE Csv!Close
  BY <1>1, <1>2, <1>4, <1>13 DEF Csv!Close, Csv!CloseStep, Csv!Goto, Csv!csvVars, Csv!Errors
<1>14. CASE Csv!FinishRun
  <2>1. status' \in {"none", "completed", "cancelled", "failed"}
    BY <1>14, StatusKinds DEF Csv!FinishRun
  <2> QED
    BY <1>1, <1>2, <1>3, <1>14, <2>1 DEF Csv!FinishRun, Csv!Goto, Csv!TypeOK, Csv!StepTypeOK
<1> QED
  BY <1>5, <1>6, <1>7, <1>8, <1>9, <1>10, <1>11, <1>12, <1>13, <1>14 DEF Csv!Next, Csv!RunStep

\* Steps that write nothing.
LEMMA CsvRunsStep ==
    ASSUME StepConstants, Csv!CsvAssumption, CsvInv, Csv!Next, ~Csv!Write
    PROVE  CsvRuns' /\ CsvSink' /\ ckpt' \in -1 .. N
<1> USE DEF StepConstants
<1>c. PICK c \in 0 .. N : c = CsvResume
  BY DEF CsvInv, CsvResume
<1>1. /\ pc \in {"idle", "open", "read", "process", "write", "save", "close", "finish"}
      /\ cursor \in 0 .. N /\ chunk \in SUBSET Csv!Records /\ ckpt \in -1 .. N
  BY DEF CsvInv, Csv!TypeOK, Csv!StepTypeOK
<1>2. /\ pc = "open" => chunk = {}
      /\ pc = "read" => c <= cursor /\ cursor < c + ChunkSize /\ chunk = c .. (cursor - 1)
      /\ pc = "process" => c < cursor /\ cursor <= c + ChunkSize /\ chunk = c .. (cursor - 2)
      /\ pc = "write" => /\ c < cursor /\ cursor <= c + ChunkSize /\ chunk \subseteq 0 .. (cursor - 1)
                         /\ \A i \in Csv!Records : i < cursor /\ i \notin chunk => Imported(i)
      /\ pc = "save" => /\ chunk = {} /\ c <= cursor
                        /\ \A i \in Csv!Records : i < cursor => Imported(i)
      /\ pc = "close" \/ (pc = "finish" /\ err = "none") =>
            chunk = {} /\ \A i \in Csv!Records : Imported(i)
      /\ eof => cursor = N
      /\ pc \in {"open", "read", "process"} => ~eof
  BY <1>c DEF CsvInv, CsvRuns
<1>3. /\ \A i \in Csv!Records : i < c => Imported(i)
      /\ \A id \in DOMAIN customers : customers[id] < c + ChunkSize
      /\ status = "completed" => \A i \in Csv!Records : Imported(i)
      /\ \A id \in DOMAIN customers : \A i \in Csv!Records : CustomerID[i] = id => customers[id] <= i
      /\ IsFiniteSet(DOMAIN customers)
      /\ writeAttempts = Cardinality(DOMAIN customers) + duplicateSkips
  BY <1>c DEF CsvInv, CsvSink
\* the goal for a step that leaves the stores alone
<1>4. ASSUME UNCHANGED <<customers, duplicateSkips, writeAttempts, ckpt>>,
             status' = "completed" => \A i \in Csv!Records : Imported(i),
             /\ pc' = "open" => chunk' = {}
             /\ pc' = "read" => c <= cursor' /\ cursor' < c + ChunkSize /\ chunk' = c .. (cursor' - 1)
             /\ pc' = "process" => c < cursor' /\ cursor' <= c + ChunkSize /\ chunk' = c .. (cursor' - 2)
             /\ pc' = "write" => /\ c < cursor' /\ cursor' <= c + ChunkSize
                                 /\ chunk' \subseteq 0 .. (cursor' - 1)
                                 /\ \A i \in Csv!Records : i < cursor' /\ i \notin chunk' => Imported(i)
             /\ pc' = "save" => /\ chunk' = {} /\ c <= cursor'
                                /\ \A i \in Csv!Records : i < cursor' => Imported(i)
             /\ pc' = "close" \/ (pc' = "finish" /\ err' = "none") =>
                   chunk' = {} /\ \A i \in Csv!Records : Imported(i),
             eof' => cursor' = N,
             pc' \in {"open", "read", "process"} => ~eof'
      PROVE  CsvRuns' /\ CsvSink' /\ ckpt' \in -1 .. N
  <2>1. CsvResume' = c
    BY <1>4, <1>c DEF CsvResume
  <2>2. \A i : Imported(i)' <=> Imported(i)
    BY <1>4 DEF Imported
  <2>3. CsvRuns'
    BY <1>4, <2>1, <2>2 DEF CsvRuns
  <2>4. CsvSink'
    BY <1>3, <1>4, <2>1, <2>2 DEF CsvSink
  <2> QED
    BY <1>1, <1>4, <2>3, <2>4
<1>5. ASSUME NEW crash \in CrashChoices, NEW blanks \in BlankChoices, Csv!StartRun(crash, blanks)
      PROVE  CsvRuns' /\ CsvSink' /\ ckpt' \in -1 .. N
  <2>1. /\ UNCHANGED <<customers, duplicateSkips, writeAttempts, ckpt, status>> /\ pc' = "open"
        /\ chunk' = {} /\ ~eof'
    BY <1>5 DEF Csv!StartRun, Csv!StepBegin, Csv!Goto
  <2> QED
    BY <1>3, <1>4, <2>1
<1>6. CASE Csv!Cancel
  BY <1>2, <1>3, <1>4, <1>6 DEF Csv!Cancel, Csv!CancelContext
<1>7. ASSUME NEW e \in Csv!Errors \ {"none"}, Csv!Abort(e),
             UNCHANGED <<customers, duplicateSkips, writeAttempts, status>>
      PROVE  CsvRuns' /\ CsvSink' /\ ckpt' \in -1 .. N
  BY <1>2, <1>3, <1>4, <1>7 DEF Csv!Abort, Csv!Goto
<1>8. CASE Csv!NoticeCancel \/ Csv!OpenFails
  BY <1>7, <1>8 DEF Csv!NoticeCancel, Csv!AbortIfCancelled, Csv!OpenFails, Csv!csvVars, Csv!Errors
<1>9. CASE Csv!RestoreReader
  <2>1. Csv!Restore(c) /\ UNCHANGED <<customers, duplicateSkips, writeAttempts, status>>
    BY <1>1, <1>c, <1>9 DEF Csv!RestoreReader, Csv!csvVars, Csv!NoCheckpoint, CsvResume
  <2>2. pc = "open" /\ cursor' = c /\ pc' = "read" /\ UNCHANGED <<eof, chunk, ckpt>>
    BY <2>1 DEF Csv!Restore, Csv!Goto
  <2>3. chunk' = c .. (cursor' - 1)
    BY <1>2, <2>2
  <2> QED
    BY <1>2, <1>3, <1>4, <2>1, <2>2, <2>3
<1>10. CASE Csv!Read
  <2>0. UNCHANGED <<customers, duplicateSkips, writeAttempts, status>>
    BY <1>10 DEF Csv!Read, Csv!csvVars
  <2>1. CASE Csv!ReadRecord
    <3>1. /\ pc = "read" /\ cursor < N /\ cursor' = cursor + 1 /\ pc' = "process"
          /\ UNCHANGED <<eof, chunk, ckpt>>
      BY <2>1 DEF Csv!ReadRecord, Csv!Goto
    <3> QED
      BY <1>1, <1>2, <1>3, <1>4, <2>0, <3>1
  <2>2. CASE Csv!ReadEnd
    <3>1. /\ pc = "read" /\ cursor >= N /\ eof' /\ pc' = (IF chunk = {} THEN "close" ELSE "write")
          /\ UNCHANGED <<cursor, chunk, ckpt>>
      BY <2>2 DEF Csv!ReadEnd, Csv!Goto
    <3>2. cursor = N /\ chunk = c .. (N - 1)
      BY <1>1, <1>2, <3>1
    <3>3. c < N => c \in chunk
      BY <3>2
    <3>4. c = N => \A i \in Csv!Records : Imported(i)
      BY <1>3 DEF Csv!Records
    <3>5. chunk \subseteq 0 .. (cursor - 1) /\ \A i \in Csv!Records : i < cursor /\ i \notin chunk => Imported(i)
      BY <1>3, <3>2 DEF Csv!Records
    <3>6. chunk # {} => c < cursor
      BY <3>2
    <3> QED
      BY <1>2, <1>3, <1>4, <2>0, <3>1, <3>2, <3>3, <3>4, <3>5, <3>6
  <2> QED
    BY <1>10, <2>1, <2>2 DEF Csv!Read
<1>11. CASE Csv!Process
  <2>1. CASE Csv!Accept /\ UNCHANGED <<customers, duplicateSkips, writeAttempts, status>>
    <3>1. /\ pc = "process" /\ chunk' = chunk \union {cursor - 1}
          /\ pc' = (IF Csv!Cardinality(chunk') >= ChunkSize THEN "write" ELSE "read")
          /\ UNCHANGED <<cursor, eof, ckpt>>
      BY <2>1 DEF Csv!Accept, Csv!Processing, Csv!Current, Csv!Goto
    <3>2. chunk' = c .. (cursor - 1)
      BY <1>1, <1>2, <3>1
    <3>3. Csv!Cardinality(chunk') = cursor - c
      <4>1. c \in Int /\ cursor \in Int /\ c <= cursor
        BY <1>1, <1>2, <3>1
      <4>2. Account!Cardinality(c .. (cursor - 1)) = cursor - c
        BY <4>1, ChunkSizes
      <4> QED
        BY <3>2, <4>2, SameSizes
    <3>4. \A i \in Csv!Records : i < cursor' /\ i \notin chunk' => Imported(i)
      BY <1>1, <1>3, <3>1, <3>2 DEF Csv!Records
    <3>5. chunk' \subseteq 0 .. (cursor' - 1)
      BY <3>1, <3>2
    <3> QED
      BY <1>1, <1>2, <1>3, <1>4, <2>1, <3>1, <3>2, <3>3, <3>4, <3>5
  <2>2. Csv!FailRecord("invalid_customer") => Csv!Abort("invalid_customer")
    BY DEF Csv!FailRecord
  <2> QED
    BY <1>7, <1>11, <2>1, <2>2 DEF Csv!Process, Csv!csvVars, Csv!Errors
<1>12. CASE Csv!Save
  <2>1. /\ pc = "save" /\ ckpt' = cursor /\ pc' = (IF eof THEN "close" ELSE "read")
        /\ UNCHANGED <<cursor, eof, chunk, err, customers, duplicateSkips, writeAttempts, status>>
    BY <1>12 DEF Csv!Save, Csv!SaveCheckpoint, Csv!Goto, Csv!csvVars
  <2>2. CsvResume' = cursor /\ ckpt' \in -1 .. N
    BY <1>1, <2>1 DEF CsvResume
  <2>3. chunk' = cursor .. (cursor - 1)
    <3>1. cursor .. (cursor - 1) = {}
      BY <1>1
    <3> QED
      BY <1>2, <2>1, <3>1
  <2>4. \A i : Imported(i)' <=> Imported(i)
    BY <2>1 DEF Imported
  <2>5. eof => \A i \in Csv!Records : Imported(i)
    BY <1>2, <2>1 DEF Csv!Records
  <2>6. CsvRuns'
    BY <1>1, <1>2, <2>1, <2>2, <2>3, <2>4, <2>5 DEF CsvRuns
  <2>7. \A id \in DOMAIN customers : customers[id] < cursor + ChunkSize
    <3>1. \A id \in DOMAIN customers : customers[id] \in Csv!Records
      BY DEF CsvInv, Csv!TypeOK
    <3>2. c <= cursor
      BY <1>2, <2>1
    <3> QED
      BY <1>1, <1>3, <3>1, <3>2 DEF Csv!Records
  <2>8. CsvSink'
    BY <1>2, <1>3, <2>1, <2>2, <2>4, <2>7 DEF CsvSink
  <2> QED
    BY <2>2, <2>6, <2>8
<1>13. CASE Csv!Close
  <2>1. /\ pc = "close" /\ pc' = "finish"
        /\ UNCHANGED <<customers, duplicateSkips, writeAttempts, status, cursor, eof, chunk, ckpt>>
    BY <1>13 DEF Csv!Close, Csv!CloseStep, Csv!Goto, Csv!csvVars
  <2> QED
    BY <1>2, <1>3, <1>4, <2>1
<1>14. CASE Csv!FinishRun
  <2>1. /\ pc' = "idle" /\ pc = "finish"
        /\ UNCHANGED <<cursor, eof, chunk, ckpt, err, customers, duplicateSkips, writeAttempts>>
    BY <1>14 DEF Csv!FinishRun, Csv!Goto
  <2>2. status' = "completed" => err = "none"
    BY <1>14 DEF Csv!FinishRun, Csv!StatusOf
  <2> QED
    BY <1>2, <1>3, <1>4, <2>1, <2>2
<1> QED
  BY <1>5, <1>6, <1>8, <1>9, <1>10, <1>11, <1>12, <1>13, <1>14 DEF Csv!Next, Csv!RunStep

\* put stores the first row of a customer that is not in the sink.
LEMMA CsvWriteStep ==
    ASSUME StepConstants, Csv!CsvAssumption, CsvInv, Csv!Write
    PROVE  CsvRuns' /\ CsvSink' /\ ckpt' \in -1 .. N
<1> USE DEF StepConstants
<1>1. PICK i \in chunk : Csv!Put(i) /\ (Csv!FailWrite(i, "crash") \/ Csv!WroteRecord(i))
  BY DEF Csv!Write
<1>2. /\ pc = "write" /\ (\A j \in chunk : i <= j) /\ UNCHANGED <<status, ckpt, cursor, eof>>
      /\ \/ pc' = "finish" /\ err' = "crash"
         \/ chunk' = chunk \ {i} /\ pc' = (IF chunk' # {} THEN "write" ELSE "save")
  BY <1>1 DEF Csv!Write, Csv!FailWrite, Csv!WroteRecord, Csv!FirstOfChunk, Csv!Abort, Csv!Goto,
     Csv!CsvAssumption
<1>3. /\ i \in Csv!Records /\ cursor \in 0 .. N /\ chunk \subseteq Csv!Records /\ ckpt \in -1 .. N
      /\ \A id \in DOMAIN customers : customers[id] \in Csv!Records
      /\ duplicateSkips \in Nat /\ writeAttempts \in Nat
  BY <1>1 DEF CsvInv, Csv!TypeOK, Csv!StepTypeOK
<1>4. /\ CsvResume < cursor /\ cursor <= CsvResume + ChunkSize /\ chunk \subseteq 0 .. (cursor - 1)
      /\ \A j \in Csv!Records : j < cursor /\ j \notin chunk => Imported(j)
      /\ eof => cursor = N
  BY <1>2 DEF CsvInv, CsvRuns
<1>5. CsvSink /\ CsvResume' = CsvResume /\ CsvResume \in 0 .. N
  BY <1>2, <1>3 DEF CsvInv, CsvResume
<1>6. i < CsvResume + ChunkSize
  BY <1>1, <1>3, <1>4, <1>5 DEF Csv!Records
<1>7. \A j \in Csv!Records : j < i => Imported(j)
  BY <1>1, <1>2, <1>3, <1>4 DEF Csv!Records
<1>8. DOMAIN customers' = DOMAIN customers \union {CustomerID[i]}
  BY <1>1 DEF Csv!Put
<1>9. \A j : Imported(j) => Imported(j)'
  BY <1>8 DEF Imported
<1>10. Imported(i)'
  BY <1>8 DEF Imported
<1>11. CsvRuns'
  <2>1. CASE pc' = "finish" /\ err' = "crash"
    BY <1>2, <1>4, <2>1 DEF CsvRuns
  <2>2. CASE chunk' = chunk \ {i} /\ pc' = (IF chunk' # {} THEN "write" ELSE "save")
    <3>1. \A j \in Csv!Records : j < cursor /\ j \notin chunk' => Imported(j)'
      BY <1>4, <1>9, <1>10, <2>2
    <3> QED
      BY <1>2, <1>3, <1>4, <1>5, <2>2, <3>1 DEF CsvRuns
  <2> QED
    BY <1>2, <2>1, <2>2
<1>12. CsvSink'
  <2>1. CASE CustomerID[i] \in DOMAIN customers
    <3>1. UNCHANGED customers /\ duplicateSkips' = duplicateSkips + 1 /\ writeAttempts' = writeAttempts + 1
      BY <1>1, <2>1 DEF Csv!Put
    <3>2. Cardinality(DOMAIN customers) \in Nat
      BY <1>5, FS_CardinalityType DEF CsvSink
    <3>3. writeAttempts' = Cardinality(DOMAIN customers') + duplicateSkips'
      BY <1>3, <1>5, <3>1, <3>2 DEF CsvSink
    <3> QED
      BY <1>2, <1>5, <3>1, <3>3 DEF CsvSink, Imported
  <2>2. CASE CustomerID[i] \notin DOMAIN customers
    <3>1. /\ customers' = [id \in DOMAIN customers \union {CustomerID[i]} |->
                              IF id = CustomerID[i] THEN i ELSE customers[id]]
          /\ UNCHANGED duplicateSkips /\ writeAttempts' = writeAttempts + 1
      BY <1>1, <2>2 DEF Csv!Put
    <3>2. /\ IsFiniteSet(DOMAIN customers')
          /\ Cardinality(DOMAIN customers') = Cardinality(DOMAIN customers) + 1
      BY <1>5, <1>8, <2>2, FS_AddElement DEF CsvSink
    <3>3. Cardinality(DOMAIN customers) \in Nat
      BY <1>5, FS_CardinalityType DEF CsvSink
    <3>4. writeAttempts' = Cardinality(DOMAIN customers') + duplicateSkips'
      BY <1>3, <1>5, <3>1, <3>2, <3>3 DEF CsvSink
    <3>5. \A id \in DOMAIN customers' : customers'[id] < CsvResume + ChunkSize
      BY <1>5, <1>6, <3>1 DEF CsvSink
    <3>6. \A j \in Csv!Records : CustomerID[j] = CustomerID[i] => i <= j
      BY <1>3, <1>7, <2>2 DEF Imported, Csv!Records
    <3>7. \A id \in DOMAIN customers' : \A j \in Csv!Records : CustomerID[j] = id => customers'[id] <= j
      BY <1>5, <3>1, <3>6 DEF CsvSink
    <3>8. /\ \A j \in Csv!Records : j < CsvResume' => Imported(j)'
          /\ status' = "completed" => \A j \in Csv!Records : Imported(j)'
      BY <1>2, <1>5, <1>9 DEF CsvSink
    <3> QED
      BY <1>5, <3>2, <3>4, <3>5, <3>7, <3>8 DEF CsvSink
  <2> QED
    BY <2>1, <2>2
<1> QED
  BY <1>2, <1>3, <1>11, <1>12

LEMMA CsvStep ==
    ASSUME StepConstants, Csv!CsvAssumption, CsvInv, [Csv!Next]_Csv!vars
    PROVE  CsvInv'
<1>1. CASE UNCHANGED Csv!vars
  BY <1>1 DEF Csv!vars, Csv!stepVars, Csv!csvVars, CsvInv, CsvRuns, CsvSink, CsvResume, Imported,
     Csv!TypeOK, Csv!StepTypeOK
<1>2. CASE Csv!Next
  <2>1. pc = "process" => cursor > 0
    BY DEF CsvInv, CsvRuns, CsvResume, Csv!TypeOK, Csv!StepTypeOK
  <2>2. Csv!TypeOK'
    BY <1>2, <2>1, CsvTypesStep DEF CsvInv
  <2>3. CsvRuns' /\ CsvSink' /\ ckpt' \in -1 .. N
    BY <1>2, CsvRunsStep, CsvWriteStep
  <2> QED
    BY <2>2, <2>3 DEF CsvInv
<1> QED
  BY <1>1, <1>2

LEMMA CsvParts ==
    ASSUME StepConstants, Csv!CsvAssumption, CsvInv
    PROVE  Csv!TypeOK /\ Csv!NothingLostBehindCheckpoint /\ Csv!FirstRowWins
<1> USE DEF StepConstants
<1>1. Csv!TypeOK /\ CsvSink /\ ckpt \in -1 .. N
  BY DEF CsvInv
<1>2. status = "completed" => DOMAIN customers = Csv!IDs
  BY <1>1 DEF CsvSink, Csv!TypeOK, Csv!IDs, Imported
<1>3. \A i \in Csv!Records : i < ckpt => CustomerID[i] \in DOMAIN customers
  BY <1>1 DEF CsvSink, CsvResume, Imported, Csv!Records
<1>4. Csv!NothingLostBehindCheckpoint
  BY <1>1, <1>2, <1>3 DEF CsvSink, CsvResume, Csv!NothingLostBehindCheckpoint, Csv!NoCheckpoint
<1>5. Csv!FirstRowWins
  BY <1>1, SameSizes DEF CsvSink, Csv!FirstRowWins, Csv!NewCommits
<1> QED
  BY <1>1, <1>4, <1>5

\* RunImport, for every file: whatever runs are cancelled or crash between the chunk's
\* writes and the checkpoint, each row before the checkpoint has its customer in the sink, a
\* completed run has stored them all, and CustomerSink.put keeps the first row of a customer.
THEOREM ImportLosesNothing ==
    ASSUME StepConstants, Csv!CsvAssumption
    PROVE  Csv!Spec => [](Csv!NothingLostBehindCheckpoint /\ Csv!FirstRowWins)
<1>1. Csv!Init => CsvInv
  BY CsvBegins
<1>2. CsvInv /\ [Csv!Next]_Csv!vars => CsvInv'
  BY CsvStep
<1>3. CsvInv => Csv!NothingLostBehindCheckpoint /\ Csv!FirstRowWins
  BY CsvParts
<1> QED
  BY <1>1, <1>2, <1>3, PTL DEF Csv!Spec

--------------------------------------------------------------------------------
(* An SQS queue and the deliveries of its workers.                           *)

MailStates == {"unsent", "visible", "inflight", "deleted"}
Deliveries == [message : Messages \union {"none"}, current : BOOLEAN]

MailTypes(Bodies) ==
    /\ mailbox \in [Messages -> [state : MailStates, body : Bodies]]
    /\ held \in [Workers -> Deliveries]

\* A message changes its state and keeps its body.
LEMMA MailSets ==
    ASSUME NEW Bodies, MailTypes(Bodies), NEW m \in Messages, NEW s \in MailStates,
           mailbox' = [mailbox EXCEPT ![m].state = s]
    PROVE  /\ mailbox' \in [Messages -> [state : MailStates, body : Bodies]]
           /\ mailbox'[m].state = s /\ mailbox'[m].body = mailbox[m].body
           /\ \A k \in Messages : k # m => mailbox'[k] = mailbox[k]
           /\ \A k \in Messages : mailbox'[k].body = mailbox[k].body
  BY DEF MailTypes

\* SendMessage fills a free slot.
LEMMA MailSends ==
    ASSUME NEW Bodies, MailTypes(Bodies), NEW b \in Bodies, NEW free,
           free = {m \in Messages : mailbox[m].state = "unsent"}, free # {},
           mailbox' = [mailbox EXCEPT ![CHOOSE m \in free : TRUE] = [state |-> "visible", body |-> b]]
    PROVE  /\ mailbox' \in [Messages -> [state : MailStates, body : Bodies]]
           /\ \E m \in Messages :
                 /\ mailbox[m].state = "unsent"
                 /\ mailbox'[m].state = "visible" /\ mailbox'[m].body = b
                 /\ \A k \in Messages : k # m => mailbox'[k] = mailbox[k]
<1>1. PICK m : m = CHOOSE x \in free : TRUE
  OBVIOUS
<1>2. m \in free
  BY <1>1
<1>3. mailbox' = [mailbox EXCEPT ![m] = [state |-> "visible", body |-> b]]
  BY <1>1
<1>4. m \in Messages /\ mailbox[m].state = "unsent"
  BY <1>2
<1>5. [state |-> "visible", body |-> b] \in [state : MailStates, body : Bodies]
  BY DEF MailStates
<1>6. mailbox \in [Messages -> [state : MailStates, body : Bodies]]
  BY DEF MailTypes
<1>7. mailbox' \in [Messages -> [state : MailStates, body : Bodies]]
  BY <1>3, <1>4, <1>5, <1>6
<1>8. /\ mailbox'[m] = [state |-> "visible", body |-> b]
      /\ \A k \in Messages : k # m => mailbox'[k] = mailbox[k]
  BY <1>3, <1>4, <1>6
<1>9. mailbox'[m].state = "visible" /\ mailbox'[m].body = b
  BY <1>8
<1> QED
  BY <1>4, <1>7, <1>8, <1>9

\* A delivery to w takes the current receipt handle from the other workers.
LEMMA MailDelivers ==
    ASSUME NEW Bodies, MailTypes(Bodies), NEW w \in Workers, NEW m \in Messages,
           held' = [v \in Workers |->
                       IF v = w THEN [message |-> m, current |-> TRUE]
                       ELSE [held[v] EXCEPT !.current = @ /\ held[v].message # m]]
    PROVE  /\ held' \in [Workers -> Deliveries]
           /\ held'[w].message = m /\ held'[w].current
           /\ \A v \in Workers : v # w => held'[v].message = held[v].message
           /\ \A v \in Workers : v # w /\ held'[v].current => held[v].current /\ held[v].message # m
           /\ \A v \in Workers : v # w /\ held[v].current /\ held[v].message # m => held'[v].current
<1>1. \A v \in Workers : held[v] \in Deliveries
  BY DEF MailTypes
<1>2. held'[w] = [message |-> m, current |-> TRUE]
  OBVIOUS
<1>3. [message |-> m, current |-> TRUE] \in Deliveries
  <2>1. TRUE \in BOOLEAN
    BY Zenon
  <2> QED
    BY <2>1 DEF Deliveries
<1>4. ASSUME NEW v \in Workers, v # w
      PROVE  /\ held'[v] \in Deliveries /\ held'[v].message = held[v].message
             /\ held'[v].current = (held[v].current /\ held[v].message # m)
  <2>1. PICK b : b = (held[v].current /\ held[v].message # m)
    OBVIOUS
  <2>2. b \in BOOLEAN
    BY <2>1, Zenon
  <2>3. held'[v] = [held[v] EXCEPT !.current = b]
    BY <1>4, <2>1, Zenon
  <2>4. held[v] \in Deliveries
    BY <1>1
  <2>5. held'[v] \in Deliveries /\ held'[v].message = held[v].message /\ held'[v].current = b
    BY <2>2, <2>3, <2>4 DEF Deliveries
  <2> QED
    BY <2>1, <2>5, Zenon
<1>5. \A v \in Workers : held'[v] \in Deliveries
  BY <1>2, <1>3, <1>4
<1>6. held' \in [Workers -> Deliveries]
  BY <1>5
<1>7. held'[w].message = m
  BY <1>2
<1>8. held'[w].current
  BY <1>2, Zenon
<1> QED
  BY <1>4, <1>6, <1>7, <1>8, Zenon

\* A worker gives its delivery up.
LEMMA MailReleases ==
    ASSUME NEW Bodies, MailTypes(Bodies), NEW w \in Workers,
           held' = [held EXCEPT ![w] = [message |-> "none", current |-> FALSE]]
    PROVE  /\ held' \in [Workers -> Deliveries]
           /\ held'[w] = [message |-> "none", current |-> FALSE]
           /\ \A v \in Workers : v # w => held'[v] = held[v]
<1>1. [message |-> "none", current |-> FALSE] \in Deliveries
  <2>1. FALSE \in BOOLEAN
    BY Zenon
  <2> QED
    BY <2>1 DEF Deliveries
<1> QED
  BY <1>1 DEF MailTypes

--------------------------------------------------------------------------------
(* The document workflow.                                                    *)

DocBodies == Document!Keys \union Foreign \union {NoBody}
DocSizes == {u.size : u \in Uploads}
DocFiles == {u.file : u \in Uploads} \union {"none"}

DocTypes ==
    /\ MailTypes(DocBodies)
    /\ faults \in 0 .. MaxFaults
    /\ stage \in [Workers \union {"submitter"} ->
                     {"idle", "store", "send", "decode", "read", "record", "ack", "retry"}]
    /\ stage["submitter"] \in {"idle", "store", "send"}
    /\ \A w \in Workers : stage[w] \in {"idle", "decode", "read", "record", "ack", "retry"}
    /\ upload \in Uploads \union {Document!NoUpload}
    /\ stage["submitter"] # "idle" => upload \in Uploads
    /\ objects \in [Document!Keys -> Seq(DocSizes)]
    /\ read \in [Workers -> Nat]
    /\ table \in [Document!Docs -> [file : DocFiles, size : Nat]]
    /\ \A d \in Document!Docs :
          table[d] = Document!NoItem \/ [doc |-> d, file |-> table[d].file] \in Document!Keys

\* What a worker knows of the message it holds.
DocWorker(w) ==
    /\ stage[w] # "idle" =>
          held[w].message \in Messages /\ mailbox[held[w].message].state # "unsent"
    /\ stage[w] \in {"read", "record", "ack"} => Document!Event(w) \in Document!Keys
    /\ stage[w] = "record" => read[w] \in Document!ToSet(objects[Document!Event(w)])
    /\ stage[w] = "ack" => Document!Exists(Document!Event(w).doc)

DocInv ==
    /\ DocTypes
    /\ \A w \in Workers : DocWorker(w)
    /\ stage["submitter"] = "send" => objects[Document!KeyOf(upload)] # <<>>
    /\ Document!AckedMeansRecorded
    /\ Document!RecordsAreOfObjects

\* What no step takes back: a sent body, a stored object and a recorded document.
DocGrows ==
    /\ \A m \in Messages : mailbox[m].state # "unsent" =>
          mailbox'[m].state # "unsent" /\ mailbox'[m].body = mailbox[m].body
    /\ \A k \in Document!Keys :
          /\ Document!ToSet(objects[k]) \subseteq Document!ToSet(objects'[k])
          /\ objects[k] # <<>> => objects'[k] # <<>>
    /\ \A d \in Document!Docs : table[d] # Document!NoItem => table'[d] = table[d]

LEMMA DocKeys ==
    ASSUME Document!DocumentAssumption
    PROVE  /\ \A u \in Uploads : /\ Document!KeyOf(u) \in Document!Keys /\ u.size \in Nat \ {0}
                                 /\ u.size \in DocSizes
           /\ \A k \in Document!Keys : /\ k.doc \in Document!Docs /\ k.file \in DocFiles
                                       /\ [doc |-> k.doc, file |-> k.file] = k
           /\ \A n \in DocSizes : n \in Nat \ {0}
  BY DEF Document!DocumentAssumption, Document!KeyOf, Document!Keys, Document!Docs, DocFiles, DocSizes

\* A worker that does not move keeps what it knows.
LEMMA DocKept ==
    ASSUME Document!DocumentAssumption, DocTypes, DocTypes', DocGrows, NEW w \in Workers, DocWorker(w),
           stage'[w] = stage[w], held'[w].message = held[w].message, read'[w] = read[w]
    PROVE  DocWorker(w)'
<1>1. CASE stage[w] = "idle"
  BY <1>1 DEF DocWorker
<1>2. CASE stage[w] # "idle"
  <2>1. /\ held[w].message \in Messages /\ mailbox[held[w].message].state # "unsent"
        /\ stage[w] \in {"read", "record", "ack"} => Document!Event(w) \in Document!Keys
        /\ stage[w] = "record" => read[w] \in Document!ToSet(objects[Document!Event(w)])
        /\ stage[w] = "ack" => Document!Exists(Document!Event(w).doc)
    BY <1>2 DEF DocWorker
  <2>2. Document!Event(w)' = Document!Event(w) /\ mailbox'[held'[w].message].state # "unsent"
    BY <2>1 DEF DocGrows, Document!Event
  <2>3. stage[w] = "record" => read[w] \in Document!ToSet(objects'[Document!Event(w)])
    BY <2>1 DEF DocGrows
  <2>4. stage[w] = "ack" => Document!Event(w).doc \in Document!Docs
    BY <2>1, DocKeys
  <2>5. stage[w] = "ack" => Document!Exists(Document!Event(w).doc)'
    BY <2>1, <2>2, <2>4 DEF DocGrows, Document!Exists
  <2> QED
    BY <2>1, <2>2, <2>3, <2>5 DEF DocWorker
<1> QED
  BY <1>1, <1>2

\* A step preserves the invariant if it takes nothing back, the workers it moves know what
\* they must, and what it adds to the stores is right.
LEMMA DocCollects ==
    ASSUME Document!DocumentAssumption, DocInv, DocTypes', DocGrows,
           \A w \in Workers : \/ DocWorker(w)'
                              \/ stage'[w] = stage[w] /\ held'[w].message = held[w].message
                                 /\ read'[w] = read[w],
           stage'["submitter"] = "send" => objects'[Document!KeyOf(upload')] # <<>>,
           \A m \in Messages : mailbox'[m].state = "deleted" =>
              \/ mailbox[m].state = "deleted"
              \/ mailbox[m].state # "unsent" /\ mailbox[m].body \in Document!Keys
                 /\ Document!Exists(mailbox[m].body.doc),
           \A m \in Messages : mailbox'[m].state # "unsent" =>
              \/ mailbox[m].state # "unsent"
              \/ mailbox'[m].body \in Document!Keys => objects'[mailbox'[m].body] # <<>>,
           \A d \in Document!Docs : table'[d] # Document!NoItem =>
              \/ table[d] # Document!NoItem
              \/ table'[d].size \in Document!ToSet(objects'[[doc |-> d, file |-> table'[d].file]])
    PROVE  DocInv'
<1>1. \A w \in Workers : DocWorker(w)'
  BY DocKept DEF DocInv
<1>2. Document!AckedMeansRecorded'
  <2>1. ASSUME NEW m \in Messages, mailbox'[m].state = "deleted"
        PROVE  mailbox'[m].body \in Document!Keys /\ table'[mailbox'[m].body.doc] # Document!NoItem
    <3>1. /\ mailbox[m].state # "unsent" /\ mailbox[m].body \in Document!Keys
          /\ Document!Exists(mailbox[m].body.doc)
      BY <2>1 DEF DocInv, Document!AckedMeansRecorded
    <3>2. mailbox'[m].body = mailbox[m].body
      BY <3>1 DEF DocGrows
    <3>3. mailbox[m].body.doc \in Document!Docs
      BY <3>1, DocKeys
    <3> QED
      BY <3>1, <3>2, <3>3 DEF DocGrows, Document!Exists
  <2> QED
    BY <2>1 DEF Document!AckedMeansRecorded, Document!Exists
<1>3. Document!RecordsAreOfObjects'
  <2>1. ASSUME NEW m \in Messages, mailbox'[m].state # "unsent", mailbox'[m].body \in Document!Keys
        PROVE  objects'[mailbox'[m].body] # <<>>
    BY <2>1 DEF DocGrows, DocInv, Document!RecordsAreOfObjects, Document!Sent
  <2>2. ASSUME NEW d \in Document!Docs, table'[d] # Document!NoItem
        PROVE  table'[d].size \in Document!ToSet(objects'[[doc |-> d, file |-> table'[d].file]])
    <3>1. CASE table[d] # Document!NoItem
      <4>1. table'[d] = table[d]
        BY <3>1 DEF DocGrows
      <4>2. table[d].size \in Document!ToSet(objects[[doc |-> d, file |-> table[d].file]])
        BY <3>1 DEF DocInv, Document!RecordsAreOfObjects, Document!Exists
      <4>3. [doc |-> d, file |-> table[d].file] \in Document!Keys
        BY <3>1 DEF DocInv, DocTypes
      <4> QED
        BY <4>1, <4>2, <4>3 DEF DocGrows
    <3> QED
      BY <2>2, <3>1
  <2> QED
    BY <2>1, <2>2 DEF Document!RecordsAreOfObjects, Document!Sent, Document!Exists
<1> QED
  BY <1>1, <1>2, <1>3 DEF DocInv

DocLabels == {"idle", "decode", "read", "record", "ack", "retry"}

\* A worker moves, the submitter moves.
LEMMA DocGoes ==
    ASSUME Document!DocumentAssumption, DocTypes
    PROVE  /\ \A w \in Workers, label \in DocLabels : stage' = [stage EXCEPT ![w] = label] =>
                 /\ stage' \in [Workers \union {"submitter"} ->
                                   {"idle", "store", "send", "decode", "read", "record", "ack", "retry"}]
                 /\ stage'["submitter"] = stage["submitter"]
                 /\ \A v \in Workers : stage'[v] \in DocLabels
                 /\ stage'[w] = label /\ \A v \in Workers : v # w => stage'[v] = stage[v]
           /\ \A label \in {"idle", "store", "send"} : stage' = [stage EXCEPT !["submitter"] = label] =>
                 /\ stage' \in [Workers \union {"submitter"} ->
                                   {"idle", "store", "send", "decode", "read", "record", "ack", "retry"}]
                 /\ stage'["submitter"] = label
                 /\ \A v \in Workers : stage'[v] = stage[v] /\ stage'[v] \in DocLabels
  BY ZenonT(60) DEF Document!DocumentAssumption, DocTypes, DocLabels

\* An object is stored under the key of the upload.
LEMMA DocStores ==
    ASSUME Document!DocumentAssumption, DocTypes, upload \in Uploads,
           objects' = [objects EXCEPT ![Document!KeyOf(upload)] = Append(@, upload.size)]
    PROVE  /\ objects' \in [Document!Keys -> Seq(DocSizes)]
           /\ objects'[Document!KeyOf(upload)] # <<>>
           /\ \A k \in Document!Keys :
                 /\ Document!ToSet(objects[k]) \subseteq Document!ToSet(objects'[k])
                 /\ objects[k] # <<>> => objects'[k] # <<>>
<1>1. PICK q : q = Document!KeyOf(upload)
  OBVIOUS
<1>2. q \in Document!Keys /\ upload.size \in DocSizes
  BY <1>1, DocKeys
<1>3. objects \in [Document!Keys -> Seq(DocSizes)]
  BY DEF DocTypes
<1>4. objects[q] \in Seq(DocSizes)
  BY <1>2, <1>3
<1>5. PICK t : t = Append(objects[q], upload.size)
  OBVIOUS
<1>6. /\ t \in Seq(DocSizes) /\ t # <<>> /\ Len(t) = Len(objects[q]) + 1
      /\ \A i \in 1 .. Len(objects[q]) : t[i] = objects[q][i]
  BY <1>2, <1>4, <1>5
<1>7. objects' = [objects EXCEPT ![q] = t]
  BY <1>1, <1>5
<1>8. /\ objects' \in [Document!Keys -> Seq(DocSizes)] /\ objects'[q] = t
      /\ \A k \in Document!Keys : k # q => objects'[k] = objects[k]
  BY <1>2, <1>3, <1>6, <1>7
<1>9. Document!ToSet(objects[q]) \subseteq Document!ToSet(t)
  BY <1>4, <1>6 DEF Document!ToSet
<1> QED
  BY <1>1, <1>6, <1>8, <1>9

\* The submitter's steps.
LEMMA DocSubmits ==
    ASSUME Document!DocumentAssumption, DocInv,
           \/ \E u \in Uploads : Document!Submit(u)
           \/ Document!SubmitStep \/ Document!SubmitFails
           \/ \E b \in Foreign : Document!ForeignSend(b)
    PROVE  DocInv' /\ UNCHANGED table
<1>1. /\ DocTypes /\ mailbox \in [Messages -> [state : MailStates, body : DocBodies]]
      /\ held \in [Workers -> Deliveries] /\ faults \in 0 .. MaxFaults /\ MaxFaults \in Nat
      /\ objects \in [Document!Keys -> Seq(DocSizes)] /\ read \in [Workers -> Nat]
      /\ MailTypes(DocBodies) /\ upload \in Uploads \union {Document!NoUpload}
      /\ stage["submitter"] # "idle" => upload \in Uploads
  BY DEF DocInv, DocTypes, MailTypes, Document!DocumentAssumption
<1>2. UNCHANGED <<held, read, table>>
  BY DEF Document!Submit, Document!SubmitStep, Document!PutObject, Document!SendEvent,
     Document!SubmitFails, Document!ForeignSend, Document!docVars, Document!queueVars
<1>3. faults' \in 0 .. MaxFaults
  BY <1>1 DEF Document!Submit, Document!SubmitStep, Document!PutObject, Document!SendEvent,
     Document!SubmitFails, Document!ForeignSend, Document!Fault, Document!docVars, Document!queueVars
\* what a sent message leaves
<1>4. ASSUME NEW b \in DocBodies, Document!SendMessage(b)
      PROVE  /\ mailbox' \in [Messages -> [state : MailStates, body : DocBodies]]
             /\ \E m \in Messages :
                   /\ mailbox[m].state = "unsent" /\ mailbox'[m].state = "visible"
                   /\ mailbox'[m].body = b
                   /\ \A k \in Messages : k # m => mailbox'[k] = mailbox[k]
  <2>1. PICK free : free = {m \in Messages : mailbox[m].state = "unsent"}
    OBVIOUS
  <2>2. free = {m \in Messages : ~Document!Sent(m)}
    BY <2>1 DEF Document!Sent
  <2>3. /\ free # {}
        /\ mailbox' = [mailbox EXCEPT ![CHOOSE m \in free : TRUE] = [state |-> "visible", body |-> b]]
    BY <1>4, <2>2 DEF Document!SendMessage
  <2> QED
    BY <1>1, <2>1, <2>3, MailSends, SMTT(30)
<1>5. ASSUME stage' \in [Workers \union {"submitter"} ->
                            {"idle", "store", "send", "decode", "read", "record", "ack", "retry"}],
             stage'["submitter"] \in {"idle", "store", "send"},
             \A v \in Workers : stage'[v] = stage[v] /\ stage'[v] \in DocLabels,
             upload' \in Uploads \union {Document!NoUpload},
             stage'["submitter"] # "idle" => upload' \in Uploads,
             objects' \in [Document!Keys -> Seq(DocSizes)],
             \A k \in Document!Keys :
                /\ Document!ToSet(objects[k]) \subseteq Document!ToSet(objects'[k])
                /\ objects[k] # <<>> => objects'[k] # <<>>,
             stage'["submitter"] = "send" => objects'[Document!KeyOf(upload')] # <<>>,
             mailbox' \in [Messages -> [state : MailStates, body : DocBodies]],
             \A m \in Messages : \/ mailbox'[m] = mailbox[m]
                                 \/ /\ mailbox[m].state = "unsent" /\ mailbox'[m].state = "visible"
                                    /\ mailbox'[m].body \in Document!Keys => objects'[mailbox'[m].body] # <<>>
      PROVE  DocInv'
  <2>1. DocTypes'
    BY <1>1, <1>2, <1>3, <1>5 DEF DocTypes, MailTypes, DocLabels
  <2>2. DocGrows
    BY <1>2, <1>5 DEF DocGrows
  <2> QED
    BY <1>2, <1>5, <2>1, <2>2, DocCollects
<1>6. \A k \in Document!Keys : Document!ToSet(objects[k]) \subseteq Document!ToSet(objects[k])
  OBVIOUS
<1>a. UNCHANGED mailbox =>
        /\ mailbox' \in [Messages -> [state : MailStates, body : DocBodies]]
        /\ \A m \in Messages : mailbox'[m] = mailbox[m]
  BY <1>1
<1>b. ASSUME NEW b \in DocBodies, Document!SendMessage(b), b \in Document!Keys => objects'[b] # <<>>
      PROVE  /\ mailbox' \in [Messages -> [state : MailStates, body : DocBodies]]
             /\ \A m \in Messages :
                   \/ mailbox'[m] = mailbox[m]
                   \/ /\ mailbox[m].state = "unsent" /\ mailbox'[m].state = "visible"
                      /\ mailbox'[m].body \in Document!Keys => objects'[mailbox'[m].body] # <<>>
  BY <1>4, <1>b
<1>7. ASSUME NEW u \in Uploads, Document!Submit(u)
      PROVE  DocInv'
  <2>1. /\ UNCHANGED <<mailbox, objects>> /\ upload' = u
        /\ stage' = [stage EXCEPT !["submitter"] = "store"]
    BY <1>7 DEF Document!Submit, Document!Goto, Document!queueVars
  <2> QED
    BY <1>1, <1>5, <1>6, <2>1, DocGoes
<1>8. CASE Document!PutObject
  <2>1. /\ UNCHANGED <<mailbox, upload>> /\ stage["submitter"] = "store"
        /\ objects' = [objects EXCEPT ![Document!KeyOf(upload)] = Append(@, upload.size)]
        /\ stage' = [stage EXCEPT !["submitter"] = "send"]
    BY <1>8 DEF Document!PutObject, Document!Goto, Document!queueVars
  <2> QED
    <3>1. /\ stage' \in [Workers \union {"submitter"} ->
                             {"idle", "store", "send", "decode", "read", "record", "ack", "retry"}]
          /\ stage'["submitter"] = "send"
          /\ \A v \in Workers : stage'[v] = stage[v] /\ stage'[v] \in DocLabels
      BY <1>1, <2>1, DocGoes
    <3>2. upload \in Uploads
      BY <1>1, <2>1
    <3>3. /\ objects' \in [Document!Keys -> Seq(DocSizes)]
          /\ objects'[Document!KeyOf(upload)] # <<>>
          /\ \A k \in Document!Keys :
                /\ Document!ToSet(objects[k]) \subseteq Document!ToSet(objects'[k])
                /\ objects[k] # <<>> => objects'[k] # <<>>
      BY <1>1, <2>1, <3>2, DocStores
    <3> QED
      <4>1. objects'[Document!KeyOf(upload')] # <<>> /\ upload' \in Uploads /\ UNCHANGED mailbox
        BY <2>1, <3>2, <3>3
      <4>2. stage'["submitter"] \in {"idle", "store", "send"}
        BY <3>1
      <4> QED
        BY <1>2, <1>5, <1>a, <3>1, <3>3, <4>1, <4>2
<1>9. CASE Document!SendEvent
  <2>1. /\ UNCHANGED objects /\ upload' = Document!NoUpload /\ stage["submitter"] = "send"
        /\ Document!SendMessage(Document!KeyOf(upload))
        /\ stage' = [stage EXCEPT !["submitter"] = "idle"]
    BY <1>9 DEF Document!SendEvent, Document!Goto
  <2>2. Document!KeyOf(upload) \in DocBodies /\ objects[Document!KeyOf(upload)] # <<>>
    BY <1>1, <2>1, DocKeys DEF DocBodies, DocInv
  <2> QED
    <3>1. /\ stage' \in [Workers \union {"submitter"} ->
                             {"idle", "store", "send", "decode", "read", "record", "ack", "retry"}]
          /\ stage'["submitter"] = "idle"
          /\ \A v \in Workers : stage'[v] = stage[v] /\ stage'[v] \in DocLabels
      BY <1>1, <2>1, DocGoes
    <3> QED
      <4>1. /\ mailbox' \in [Messages -> [state : MailStates, body : DocBodies]]
            /\ \A m \in Messages :
                  \/ mailbox'[m] = mailbox[m]
                  \/ /\ mailbox[m].state = "unsent" /\ mailbox'[m].state = "visible"
                     /\ mailbox'[m].body \in Document!Keys => objects'[mailbox'[m].body] # <<>>
        BY <1>b, <2>1, <2>2
      <4> QED
        BY <1>1, <1>2, <1>5, <1>6, <2>1, <3>1, <4>1
<1>10. CASE Document!SubmitFails
  <2>1. /\ upload' = Document!NoUpload /\ stage' = [stage EXCEPT !["submitter"] = "idle"]
        /\ stage["submitter"] \in {"store", "send"}
    BY <1>10 DEF Document!SubmitFails, Document!Goto
  <2>2. \/ /\ UNCHANGED mailbox
           /\ \/ UNCHANGED objects
              \/ objects' = [objects EXCEPT ![Document!KeyOf(upload)] = Append(@, upload.size)]
        \/ /\ UNCHANGED objects /\ stage["submitter"] = "send"
           /\ UNCHANGED mailbox \/ Document!SendMessage(Document!KeyOf(upload))
    BY <1>10 DEF Document!SubmitFails
  <2>3. upload \in Uploads
    BY <1>1, <2>1
  <2>4. Document!KeyOf(upload) \in DocBodies
    BY <2>3, DocKeys DEF DocBodies
  <2>5. stage["submitter"] = "send" => objects[Document!KeyOf(upload)] # <<>>
    BY DEF DocInv
  <2>0. /\ stage' \in [Workers \union {"submitter"} ->
                             {"idle", "store", "send", "decode", "read", "record", "ack", "retry"}]
        /\ stage'["submitter"] = "idle"
        /\ \A v \in Workers : stage'[v] = stage[v] /\ stage'[v] \in DocLabels
    BY <1>1, <2>1, DocGoes
  <2>6. CASE UNCHANGED mailbox
    <3>1. /\ objects' \in [Document!Keys -> Seq(DocSizes)]
          /\ \A k \in Document!Keys :
                /\ Document!ToSet(objects[k]) \subseteq Document!ToSet(objects'[k])
                /\ objects[k] # <<>> => objects'[k] # <<>>
      BY <1>1, <1>6, <2>2, <2>3, DocStores
    <3> QED
      BY <1>2, <1>5, <1>a, <2>0, <2>1, <2>6, <3>1
  <2>7. CASE UNCHANGED objects /\ stage["submitter"] = "send" /\ Document!SendMessage(Document!KeyOf(upload))
    <3>1. /\ mailbox' \in [Messages -> [state : MailStates, body : DocBodies]]
          /\ \A m \in Messages :
                \/ mailbox'[m] = mailbox[m]
                \/ /\ mailbox[m].state = "unsent" /\ mailbox'[m].state = "visible"
                   /\ mailbox'[m].body \in Document!Keys => objects'[mailbox'[m].body] # <<>>
      BY <1>b, <2>4, <2>5, <2>7
    <3> QED
      BY <1>1, <1>2, <1>5, <1>6, <2>0, <2>1, <2>7, <3>1
  <2> QED
    BY <2>2, <2>6, <2>7
<1>11. ASSUME NEW b \in Foreign, Document!ForeignSend(b)
       PROVE  DocInv'
  <2>1. UNCHANGED <<objects, upload, stage>> /\ Document!SendMessage(b)
    BY <1>11 DEF Document!ForeignSend, Document!docVars
  <2>2. b \in DocBodies /\ b \notin Document!Keys
    BY DEF DocBodies, Document!DocumentAssumption
  <2>3. /\ stage \in [Workers \union {"submitter"} ->
                         {"idle", "store", "send", "decode", "read", "record", "ack", "retry"}]
        /\ stage["submitter"] \in {"idle", "store", "send"}
        /\ \A v \in Workers : stage[v] \in DocLabels
        /\ stage["submitter"] = "send" => objects[Document!KeyOf(upload)] # <<>>
    BY DEF DocInv, DocTypes, DocLabels
  <2> QED
    <3>1. /\ mailbox' \in [Messages -> [state : MailStates, body : DocBodies]]
          /\ \A m \in Messages :
                \/ mailbox'[m] = mailbox[m]
                \/ /\ mailbox[m].state = "unsent" /\ mailbox'[m].state = "visible"
                   /\ mailbox'[m].body \in Document!Keys => objects'[mailbox'[m].body] # <<>>
      BY <1>b, <2>1, <2>2
    <3> QED
      BY <1>1, <1>5, <1>6, <2>1, <2>3, <3>1
<1> QED
  BY <1>2, <1>7, <1>8, <1>9, <1>10, <1>11 DEF Document!SubmitStep

\* A message that was sent is delivered, shown again or deleted.
LEMMA DocMail ==
    ASSUME DocTypes, NEW m \in Messages, mailbox[m].state # "unsent", NEW s \in MailStates \ {"unsent"},
           Document!SetState(m, s)
    PROVE  /\ mailbox' \in [Messages -> [state : MailStates, body : DocBodies]]
           /\ \A k \in Messages : /\ mailbox'[k].body = mailbox[k].body
                                  /\ mailbox'[k].state = "unsent" <=> mailbox[k].state = "unsent"
                                  /\ mailbox'[k].state = "deleted" =>
                                        mailbox[k].state = "deleted" \/ (k = m /\ s = "deleted")
<1>1. MailTypes(DocBodies) /\ mailbox' = [mailbox EXCEPT ![m].state = s]
  BY DEF DocTypes, Document!SetState
<1>2. /\ mailbox' \in [Messages -> [state : MailStates, body : DocBodies]]
      /\ mailbox'[m].state = s /\ mailbox'[m].body = mailbox[m].body
      /\ \A k \in Messages : k # m => mailbox'[k] = mailbox[k]
      /\ \A k \in Messages : mailbox'[k].body = mailbox[k].body
  BY <1>1, MailSets
<1> QED
  BY <1>2

\* The conditional write keeps the first record of a document.
LEMMA DocPuts ==
    ASSUME Document!DocumentAssumption, DocInv, NEW w \in Workers, stage[w] = "record", Document!PutItem(w)
    PROVE  /\ table' \in [Document!Docs -> [file : DocFiles, size : Nat]]
           /\ \A d \in Document!Docs :
                 /\ table'[d] = Document!NoItem \/ [doc |-> d, file |-> table'[d].file] \in Document!Keys
                 /\ table[d] # Document!NoItem => table'[d] = table[d]
                 /\ table'[d] # Document!NoItem => \/ table[d] # Document!NoItem
                                                   \/ table'[d].size \in Document!ToSet(
                                                         objects[[doc |-> d, file |-> table'[d].file]])
           /\ table'[Document!Event(w).doc] # Document!NoItem
<1>1. PICK e : e = Document!Event(w)
  OBVIOUS
<1>2. e \in Document!Keys /\ read[w] \in Document!ToSet(objects[e])
  BY <1>1 DEF DocInv, DocWorker
<1>3. e.doc \in Document!Docs /\ e.file \in DocFiles /\ [doc |-> e.doc, file |-> e.file] = e
  BY <1>2, DocKeys
<1>4. objects[e] \in Seq(DocSizes)
  BY <1>2 DEF DocInv, DocTypes
<1>5. read[w] \in DocSizes
  BY <1>2, <1>4 DEF Document!ToSet
<1>6. read[w] \in Nat \ {0}
  BY <1>5, DocKeys
<1>7. /\ table \in [Document!Docs -> [file : DocFiles, size : Nat]]
      /\ \A d \in Document!Docs :
            table[d] = Document!NoItem \/ [doc |-> d, file |-> table[d].file] \in Document!Keys
  BY DEF DocInv, DocTypes
<1>8. CASE table[e.doc] # Document!NoItem
  BY <1>1, <1>7, <1>8 DEF Document!PutItem, Document!Exists
<1>9. CASE table[e.doc] = Document!NoItem
  <2>1. PICK item : item = [file |-> e.file, size |-> read[w]]
    OBVIOUS
  <2>2. table' = [table EXCEPT ![e.doc] = item]
    BY <1>1, <1>9, <2>1 DEF Document!PutItem, Document!Exists
  <2>3. item \in [file : DocFiles, size : Nat] /\ item.file = e.file /\ item.size = read[w]
    BY <1>3, <1>6, <2>1
  <2>4. item # Document!NoItem
    BY <1>6, <2>1 DEF Document!NoItem
  <2>5. /\ table' \in [Document!Docs -> [file : DocFiles, size : Nat]] /\ table'[e.doc] = item
        /\ \A d \in Document!Docs : d # e.doc => table'[d] = table[d]
    BY <1>3, <1>7, <2>2, <2>3
  <2> QED
    BY <1>1, <1>2, <1>3, <1>7, <1>9, <2>3, <2>4, <2>5
<1> QED
  BY <1>8, <1>9

LEMMA DocWorks ==
    ASSUME Document!DocumentAssumption, DocInv, NEW w \in Workers,
           \/ \E m \in Messages : Document!Receive(w, m)
           \/ Document!ProcessStep(w) \/ Document!CallFails(w) \/ Document!GiveUp(w)
    PROVE  DocInv' /\ Document!RecordStays
<1>1. /\ DocTypes /\ mailbox \in [Messages -> [state : MailStates, body : DocBodies]]
      /\ held \in [Workers -> Deliveries] /\ faults \in 0 .. MaxFaults /\ MaxFaults \in Nat
      /\ read \in [Workers -> Nat] /\ MailTypes(DocBodies)
      /\ table \in [Document!Docs -> [file : DocFiles, size : Nat]]
      /\ \A d \in Document!Docs :
            table[d] = Document!NoItem \/ [doc |-> d, file |-> table[d].file] \in Document!Keys
  BY DEF DocInv, DocTypes, MailTypes, Document!DocumentAssumption
<1>2. UNCHANGED <<upload, objects>>
  BY DEF Document!Receive, Document!ProcessStep, Document!Decode, Document!ReadObject,
     Document!RecordProcessed, Document!Ack, Document!Retry, Document!CallFails, Document!GiveUp
<1>3. faults' \in 0 .. MaxFaults
  BY <1>1 DEF Document!Receive, Document!ProcessStep, Document!Decode, Document!ReadObject,
     Document!RecordProcessed, Document!Ack, Document!Retry, Document!CallFails, Document!GiveUp,
     Document!Fault, Document!queueVars
<1>4. ASSUME NEW label \in DocLabels, stage' = [stage EXCEPT ![w] = label],
             mailbox' \in [Messages -> [state : MailStates, body : DocBodies]],
             \A k \in Messages : /\ mailbox'[k].body = mailbox[k].body
                                 /\ mailbox'[k].state = "unsent" <=> mailbox[k].state = "unsent",
             \A m \in Messages : mailbox'[m].state = "deleted" =>
                \/ mailbox[m].state = "deleted"
                \/ mailbox[m].state # "unsent" /\ mailbox[m].body \in Document!Keys
                   /\ Document!Exists(mailbox[m].body.doc),
             held' \in [Workers -> Deliveries],
             \A v \in Workers : v # w => held'[v].message = held[v].message,
             read' \in [Workers -> Nat],
             \A v \in Workers : v # w => read'[v] = read[v],
             table' \in [Document!Docs -> [file : DocFiles, size : Nat]],
             \A d \in Document!Docs :
                /\ table'[d] = Document!NoItem \/ [doc |-> d, file |-> table'[d].file] \in Document!Keys
                /\ table[d] # Document!NoItem => table'[d] = table[d]
                /\ table'[d] # Document!NoItem => \/ table[d] # Document!NoItem
                                                  \/ table'[d].size \in Document!ToSet(
                                                        objects[[doc |-> d, file |-> table'[d].file]]),
             DocWorker(w)'
      PROVE  DocInv' /\ Document!RecordStays
  <2>1. /\ stage' \in [Workers \union {"submitter"} ->
                          {"idle", "store", "send", "decode", "read", "record", "ack", "retry"}]
        /\ stage'["submitter"] = stage["submitter"]
        /\ \A v \in Workers : stage'[v] \in DocLabels
        /\ \A v \in Workers : v # w => stage'[v] = stage[v]
    BY <1>1, <1>4, DocGoes
  <2>2. DocTypes'
    BY <1>1, <1>2, <1>3, <1>4, <2>1 DEF DocTypes, MailTypes, DocLabels
  <2>3. DocGrows
    BY <1>2, <1>4 DEF DocGrows
  <2>4. \A v \in Workers : \/ DocWorker(v)'
                           \/ stage'[v] = stage[v] /\ held'[v].message = held[v].message
                              /\ read'[v] = read[v]
    BY <1>4, <2>1
  <2>5. stage'["submitter"] = "send" => objects'[Document!KeyOf(upload')] # <<>>
    BY <1>2, <2>1 DEF DocInv
  <2>6. DocInv'
    BY <1>2, <1>4, <2>2, <2>3, <2>4, <2>5, DocCollects
  <2> QED
    BY <1>4, <2>6 DEF Document!RecordStays, Document!Exists
\* the parts that most steps leave alone
<1>a. UNCHANGED table =>
        /\ table' \in [Document!Docs -> [file : DocFiles, size : Nat]]
        /\ \A d \in Document!Docs :
              /\ table'[d] = Document!NoItem \/ [doc |-> d, file |-> table'[d].file] \in Document!Keys
              /\ table[d] # Document!NoItem => table'[d] = table[d]
              /\ table'[d] # Document!NoItem => table[d] # Document!NoItem
  BY <1>1
<1>b. UNCHANGED mailbox =>
        /\ mailbox' \in [Messages -> [state : MailStates, body : DocBodies]]
        /\ \A k \in Messages : mailbox'[k] = mailbox[k]
  BY <1>1
<1>c. DocWorker(w)
  BY DEF DocInv
<1>d. stage[w] \in DocLabels /\ w \in DOMAIN stage
  BY <1>1 DEF DocTypes, DocLabels
\* a worker that leaves
<1>5. ASSUME Document!Leave(w), UNCHANGED table,
             mailbox' \in [Messages -> [state : MailStates, body : DocBodies]],
             \A k \in Messages : /\ mailbox'[k].body = mailbox[k].body
                                 /\ mailbox'[k].state = "unsent" <=> mailbox[k].state = "unsent",
             \A m \in Messages : mailbox'[m].state = "deleted" =>
                \/ mailbox[m].state = "deleted"
                \/ mailbox[m].state # "unsent" /\ mailbox[m].body \in Document!Keys
                   /\ Document!Exists(mailbox[m].body.doc)
      PROVE  DocInv' /\ Document!RecordStays
  <2>1. /\ stage' = [stage EXCEPT ![w] = "idle"] /\ read' = [read EXCEPT ![w] = 0]
        /\ held' = [held EXCEPT ![w] = [message |-> "none", current |-> FALSE]]
    BY <1>5 DEF Document!Leave, Document!Goto, Document!Release, Document!NoDelivery
  <2>2. /\ held' \in [Workers -> Deliveries] /\ \A v \in Workers : v # w => held'[v].message = held[v].message
    BY <1>1, <2>1, MailReleases
  <2>3. read' \in [Workers -> Nat] /\ \A v \in Workers : v # w => read'[v] = read[v]
    BY <1>1, <2>1
  <2>4. DocWorker(w)'
    BY <1>d, <2>1 DEF DocWorker
  <2> QED
    BY <1>4, <1>5, <1>a, <2>1, <2>2, <2>3, <2>4 DEF DocLabels
\* a worker that goes on with its message
<1>6. ASSUME NEW label \in DocLabels \ {"idle"}, stage' = [stage EXCEPT ![w] = label], stage[w] # "idle",
             UNCHANGED <<mailbox, held>>,
             label \in {"read", "record", "ack"} => Document!Event(w) \in Document!Keys,
             label = "record" => read'[w] \in Document!ToSet(objects[Document!Event(w)]),
             label = "ack" => table'[Document!Event(w).doc] # Document!NoItem,
             read' \in [Workers -> Nat],
             \A v \in Workers : v # w => read'[v] = read[v],
             table' \in [Document!Docs -> [file : DocFiles, size : Nat]],
             \A d \in Document!Docs :
                /\ table'[d] = Document!NoItem \/ [doc |-> d, file |-> table'[d].file] \in Document!Keys
                /\ table[d] # Document!NoItem => table'[d] = table[d]
                /\ table'[d] # Document!NoItem => \/ table[d] # Document!NoItem
                                                  \/ table'[d].size \in Document!ToSet(
                                                        objects[[doc |-> d, file |-> table'[d].file]])
      PROVE  DocInv' /\ Document!RecordStays
  <2>1. Document!Event(w)' = Document!Event(w) /\ stage'[w] = label
    BY <1>6, <1>d DEF Document!Event
  <2>2. DocWorker(w)'
    BY <1>2, <1>6, <1>c, <2>1 DEF DocWorker, Document!Exists
  <2>3. held' \in [Workers -> Deliveries] /\ \A v \in Workers : v # w => held'[v].message = held[v].message
    BY <1>1, <1>6
  <2> QED
    BY <1>4, <1>6, <1>b, <2>2, <2>3
<1>7. ASSUME NEW m \in Messages, Document!Receive(w, m)
      PROVE  DocInv' /\ Document!RecordStays
  <2>1. /\ mailbox[m].state = "visible" /\ Document!SetState(m, "inflight")
        /\ held' = [v \in Workers |->
                       IF v = w THEN [message |-> m, current |-> TRUE]
                       ELSE [held[v] EXCEPT !.current = @ /\ held[v].message # m]]
        /\ stage' = [stage EXCEPT ![w] = "decode"] /\ UNCHANGED <<read, table>>
    BY <1>7 DEF Document!Receive, Document!ReceiveMessage, Document!Goto
  <2>2. /\ held' \in [Workers -> Deliveries] /\ held'[w].message = m
        /\ \A v \in Workers : v # w => held'[v].message = held[v].message
    BY <1>1, <2>1, MailDelivers, ZenonT(60)
  <2>3. /\ mailbox' \in [Messages -> [state : MailStates, body : DocBodies]]
        /\ \A k \in Messages : /\ mailbox'[k].body = mailbox[k].body
                               /\ mailbox'[k].state = "unsent" <=> mailbox[k].state = "unsent"
                               /\ mailbox'[k].state = "deleted" => mailbox[k].state = "deleted"
    BY <1>1, <2>1, DocMail DEF MailStates
  <2>4. DocWorker(w)'
    <3>1. stage'[w] = "decode" /\ mailbox'[m].state # "unsent"
      BY <1>d, <2>1, <2>3
    <3> QED
      BY <2>2, <3>1 DEF DocWorker
  <2>5. read' \in [Workers -> Nat] /\ \A v \in Workers : v # w => read'[v] = read[v]
    BY <1>1, <2>1
  <2> QED
    BY <1>4, <1>a, <2>1, <2>2, <2>3, <2>4, <2>5 DEF DocLabels
<1>8. CASE Document!Decode(w)
  <2>1. /\ stage[w] = "decode" /\ UNCHANGED <<mailbox, held, read, table>>
        /\ stage' = [stage EXCEPT ![w] = IF Document!Event(w) \in Document!Keys THEN "read" ELSE "retry"]
    BY <1>8 DEF Document!Decode, Document!Goto, Document!queueVars
  <2>2. read' \in [Workers -> Nat] /\ \A v \in Workers : v # w => read'[v] = read[v]
    BY <1>1, <2>1
  <2>3. CASE Document!Event(w) \in Document!Keys
    BY <1>6, <1>a, <2>1, <2>2, <2>3 DEF DocLabels
  <2>4. CASE Document!Event(w) \notin Document!Keys
    BY <1>6, <1>a, <2>1, <2>2, <2>4 DEF DocLabels
  <2> QED
    BY <2>3, <2>4
<1>9. CASE Document!ReadObject(w)
  <2>1. stage[w] = "read" /\ UNCHANGED <<mailbox, held, table>>
    BY <1>9 DEF Document!ReadObject, Document!queueVars
  <2>2. CASE objects[Document!Event(w)] = <<>>
    <3>1. stage' = [stage EXCEPT ![w] = "retry"] /\ UNCHANGED read
      BY <1>9, <2>2 DEF Document!ReadObject, Document!Goto
    <3>2. read' \in [Workers -> Nat] /\ \A v \in Workers : v # w => read'[v] = read[v]
      BY <1>1, <3>1
    <3> QED
      BY <1>6, <1>a, <2>1, <3>1, <3>2 DEF DocLabels
  <2>3. CASE objects[Document!Event(w)] # <<>>
    <3>1. PICK s : s = objects[Document!Event(w)]
      OBVIOUS
    <3>2. Document!Event(w) \in Document!Keys
      BY <1>c, <2>1 DEF DocWorker
    <3>3. s \in Seq(DocSizes)
      BY <3>1, <3>2 DEF DocInv, DocTypes
    <3>4. PICK last : last = Document!Last(s)
      OBVIOUS
    <3>5. last = s[Len(s)] /\ Len(s) \in 1 .. Len(s)
      BY <2>3, <3>1, <3>3, <3>4 DEF Document!Last
    <3>6. last \in Document!ToSet(s) /\ last \in DocSizes
      BY <3>3, <3>5 DEF Document!ToSet
    <3>7. last \in Nat
      BY <3>6, DocKeys
    <3>8. stage' = [stage EXCEPT ![w] = "record"] /\ read' = [read EXCEPT ![w] = last]
      BY <1>9, <2>3, <3>1, <3>4 DEF Document!ReadObject, Document!Goto
    <3>9. /\ read' \in [Workers -> Nat] /\ read'[w] = last
          /\ \A v \in Workers : v # w => read'[v] = read[v]
      BY <1>1, <3>7, <3>8
    <3> QED
      BY <1>6, <1>a, <2>1, <3>1, <3>2, <3>6, <3>8, <3>9 DEF DocLabels
  <2> QED
    BY <2>2, <2>3
<1>10. CASE Document!RecordProcessed(w)
  <2>1. /\ stage[w] = "record" /\ Document!PutItem(w) /\ stage' = [stage EXCEPT ![w] = "ack"]
        /\ UNCHANGED <<mailbox, held, read>>
    BY <1>10 DEF Document!RecordProcessed, Document!Goto, Document!queueVars
  <2>2. Document!Event(w) \in Document!Keys
    BY <1>c, <2>1 DEF DocWorker
  <2>3. read' \in [Workers -> Nat] /\ \A v \in Workers : v # w => read'[v] = read[v]
    BY <1>1, <2>1
  <2>4. /\ table' \in [Document!Docs -> [file : DocFiles, size : Nat]]
        /\ \A d \in Document!Docs :
              /\ table'[d] = Document!NoItem \/ [doc |-> d, file |-> table'[d].file] \in Document!Keys
              /\ table[d] # Document!NoItem => table'[d] = table[d]
              /\ table'[d] # Document!NoItem => \/ table[d] # Document!NoItem
                                                \/ table'[d].size \in Document!ToSet(
                                                      objects[[doc |-> d, file |-> table'[d].file]])
        /\ table'[Document!Event(w).doc] # Document!NoItem
    BY <2>1, DocPuts
  <2> QED
    BY <1>6, <2>1, <2>2, <2>3, <2>4 DEF DocLabels
<1>11. CASE Document!CallFails(w)
  <2>1. /\ stage[w] \in {"read", "record"} /\ stage' = [stage EXCEPT ![w] = "retry"]
        /\ UNCHANGED <<mailbox, held, read>>
        /\ UNCHANGED table \/ (stage[w] = "record" /\ Document!PutItem(w))
    BY <1>11 DEF Document!CallFails, Document!Goto
  <2>2. read' \in [Workers -> Nat] /\ \A v \in Workers : v # w => read'[v] = read[v]
    BY <1>1, <2>1
  <2>3. /\ table' \in [Document!Docs -> [file : DocFiles, size : Nat]]
        /\ \A d \in Document!Docs :
              /\ table'[d] = Document!NoItem \/ [doc |-> d, file |-> table'[d].file] \in Document!Keys
              /\ table[d] # Document!NoItem => table'[d] = table[d]
              /\ table'[d] # Document!NoItem => \/ table[d] # Document!NoItem
                                                \/ table'[d].size \in Document!ToSet(
                                                      objects[[doc |-> d, file |-> table'[d].file]])
    BY <1>a, <2>1, DocPuts
  <2> QED
    BY <1>6, <2>1, <2>2, <2>3 DEF DocLabels
\* what the message of a leaving worker may become
<1>12. ASSUME stage[w] # "idle",
              \/ UNCHANGED mailbox
              \/ stage[w] = "ack" /\ Document!DeleteMessage(w)
              \/ stage[w] = "retry" /\ Document!ChangeMessageVisibility(w)
       PROVE  /\ mailbox' \in [Messages -> [state : MailStates, body : DocBodies]]
              /\ \A k \in Messages : /\ mailbox'[k].body = mailbox[k].body
                                     /\ mailbox'[k].state = "unsent" <=> mailbox[k].state = "unsent"
              /\ \A m \in Messages : mailbox'[m].state = "deleted" =>
                    \/ mailbox[m].state = "deleted"
                    \/ mailbox[m].state # "unsent" /\ mailbox[m].body \in Document!Keys
                       /\ Document!Exists(mailbox[m].body.doc)
  <2>1. PICK m : m = held[w].message
    OBVIOUS
  <2>2. m \in Messages /\ mailbox[m].state # "unsent"
    BY <1>12, <1>c, <2>1 DEF DocWorker
  <2>3. CASE UNCHANGED mailbox
    BY <1>b, <2>3
  <2>4. CASE stage[w] = "ack" /\ Document!SetState(m, "deleted")
    <3>1. mailbox[m].body \in Document!Keys /\ Document!Exists(mailbox[m].body.doc)
      BY <1>c, <2>1, <2>4 DEF DocWorker, Document!Event
    <3>2. /\ mailbox' \in [Messages -> [state : MailStates, body : DocBodies]]
          /\ \A k \in Messages : /\ mailbox'[k].body = mailbox[k].body
                                 /\ mailbox'[k].state = "unsent" <=> mailbox[k].state = "unsent"
                                 /\ mailbox'[k].state = "deleted" => mailbox[k].state = "deleted" \/ k = m
      BY <1>1, <2>2, <2>4, DocMail DEF MailStates
    <3> QED
      BY <2>2, <3>1, <3>2
  <2>5. CASE Document!SetState(m, "visible")
    <3>1. /\ mailbox' \in [Messages -> [state : MailStates, body : DocBodies]]
          /\ \A k \in Messages : /\ mailbox'[k].body = mailbox[k].body
                                 /\ mailbox'[k].state = "unsent" <=> mailbox[k].state = "unsent"
                                 /\ mailbox'[k].state = "deleted" => mailbox[k].state = "deleted"
      BY <1>1, <2>2, <2>5, DocMail DEF MailStates
    <3> QED
      BY <3>1
  <2> QED
    BY <1>12, <2>1, <2>3, <2>4, <2>5 DEF Document!DeleteMessage, Document!ChangeMessageVisibility
<1>13. CASE Document!Ack(w)
  <2>1. stage[w] = "ack" /\ Document!DeleteMessage(w) /\ Document!Leave(w) /\ UNCHANGED table
    BY <1>13 DEF Document!Ack
  <2> QED
    BY <1>5, <1>12, <2>1
<1>14. CASE Document!Retry(w)
  <2>1. stage[w] = "retry" /\ Document!ChangeMessageVisibility(w) /\ Document!Leave(w) /\ UNCHANGED table
    BY <1>14 DEF Document!Retry
  <2> QED
    BY <1>5, <1>12, <2>1
<1>15. CASE Document!GiveUp(w)
  <2>1. /\ stage[w] # "idle" /\ Document!Leave(w) /\ UNCHANGED table
        /\ \/ UNCHANGED mailbox
           \/ stage[w] = "ack" /\ Document!DeleteMessage(w)
           \/ stage[w] = "retry" /\ Document!ChangeMessageVisibility(w)
    BY <1>15 DEF Document!GiveUp
  <2> QED
    BY <1>5, <1>12, <2>1
<1> QED
  BY <1>7, <1>8, <1>9, <1>10, <1>11, <1>13, <1>14, <1>15 DEF Document!ProcessStep

LEMMA DocTimesOut ==
    ASSUME Document!DocumentAssumption, DocInv, NEW m \in Messages, Document!Timeout(m)
    PROVE  DocInv' /\ Document!RecordStays
<1>1. /\ DocTypes /\ faults \in 0 .. MaxFaults /\ MaxFaults \in Nat
  BY DEF DocInv, DocTypes, MailTypes, Document!DocumentAssumption
<1>2. /\ mailbox[m].state = "inflight" /\ Document!SetState(m, "visible")
      /\ UNCHANGED <<held, stage, upload, objects, read, table>> /\ faults' \in 0 .. MaxFaults
  BY <1>1 DEF Document!Timeout, Document!VisibilityTimeout, Document!docVars, Document!Fault
<1>3. /\ mailbox' \in [Messages -> [state : MailStates, body : DocBodies]]
      /\ \A k \in Messages : /\ mailbox'[k].body = mailbox[k].body
                             /\ mailbox'[k].state = "unsent" <=> mailbox[k].state = "unsent"
                             /\ mailbox'[k].state = "deleted" => mailbox[k].state = "deleted"
  BY <1>1, <1>2, DocMail DEF MailStates
<1>4. DocTypes'
  BY <1>1, <1>2, <1>3 DEF DocTypes, MailTypes
<1>5. DocGrows
  BY <1>2, <1>3 DEF DocGrows
<1>6. stage'["submitter"] = "send" => objects'[Document!KeyOf(upload')] # <<>>
  BY <1>2 DEF DocInv
<1>7. DocInv'
  BY <1>2, <1>3, <1>4, <1>5, <1>6, DocCollects
<1> QED
  BY <1>2, <1>7 DEF Document!RecordStays

LEMMA DocStep ==
    ASSUME Document!DocumentAssumption, DocInv, [Document!Next]_Document!vars
    PROVE  DocInv' /\ (Document!RecordStays \/ UNCHANGED Document!vars)
<1>1. CASE UNCHANGED Document!vars
  <2>1. UNCHANGED <<mailbox, held, faults, stage, upload, objects, read, table>>
    BY <1>1 DEF Document!vars, Document!queueVars, Document!docVars
  <2>2. DocTypes' /\ \A w \in Workers : DocWorker(w)'
    BY <2>1 DEF DocInv, DocTypes, MailTypes, DocWorker, Document!Event, Document!Exists
  <2> QED
    BY <1>1, <2>1, <2>2 DEF DocInv, Document!AckedMeansRecorded, Document!RecordsAreOfObjects,
       Document!Exists, Document!Sent
<1>2. CASE \/ \E u \in Uploads : Document!Submit(u)
           \/ Document!SubmitStep \/ Document!SubmitFails
           \/ \E b \in Foreign : Document!ForeignSend(b)
  <2>1. DocInv' /\ UNCHANGED table
    BY <1>2, DocSubmits
  <2> QED
    BY <2>1 DEF Document!RecordStays
<1> QED
  BY <1>1, <1>2, DocWorks, DocTimesOut DEF Document!Next

LEMMA DocBegins == Document!DocumentAssumption /\ Document!Init => DocInv
<1> SUFFICES ASSUME Document!DocumentAssumption, Document!Init PROVE DocInv
  OBVIOUS
<1>1. /\ mailbox = [m \in Messages |-> [state |-> "unsent", body |-> NoBody]]
      /\ held = [w \in Workers |-> [message |-> "none", current |-> FALSE]] /\ faults = 0
      /\ stage = [p \in Workers \union {"submitter"} |-> "idle"] /\ upload = Document!NoUpload
      /\ objects = [k \in Document!Keys |-> <<>>] /\ read = [w \in Workers |-> 0]
      /\ table = [d \in Document!Docs |-> Document!NoItem]
  BY DEF Document!Init, Document!QueueInit, Document!Unsent, Document!NoDelivery
<1>2. [message |-> "none", current |-> FALSE] \in Deliveries
  <2>1. FALSE \in BOOLEAN
    BY Zenon
  <2> QED
    BY <2>1 DEF Deliveries
<1>3. MailTypes(DocBodies)
  BY <1>1, <1>2 DEF MailTypes, MailStates, DocBodies, Document!DocumentAssumption
<1>4. Document!NoItem \in [file : DocFiles, size : Nat]
  BY DEF Document!NoItem, DocFiles
<1>5. DocTypes
  BY <1>1, <1>3, <1>4 DEF DocTypes, Document!DocumentAssumption
<1>6. \A w \in Workers : DocWorker(w)
  BY <1>1 DEF DocWorker
<1> QED
  BY <1>1, <1>5, <1>6 DEF DocInv, Document!AckedMeansRecorded, Document!RecordsAreOfObjects, Document!Sent,
     Document!Exists

LEMMA DocParts ==
    ASSUME DocInv
    PROVE  Document!TypeOK /\ Document!AckedMeansRecorded /\ Document!RecordsAreOfObjects
<1>1. DocTypes /\ Document!AckedMeansRecorded /\ Document!RecordsAreOfObjects
  BY DEF DocInv
<1>2. \A w \in Workers : held[w].message \in Messages \union {"none"} /\ held[w].current \in BOOLEAN
  <2>1. \A w \in Workers : held[w] \in Deliveries
    BY <1>1 DEF DocTypes, MailTypes
  <2> QED
    BY <2>1 DEF Deliveries
<1>3. Document!QueueTypeOK
  BY <1>1, <1>2 DEF DocTypes, MailTypes, MailStates, Document!QueueTypeOK
<1> QED
  BY <1>1, <1>3 DEF DocTypes, DocSizes, Document!TypeOK

\* Submit and ProcessOnce with any number of workers, redeliveries, failed calls and late
\* acknowledgements: a message leaves the queue only when its document is in the table, and
\* the table names an object that exists, with a size that was stored under its key.
THEOREM DocumentsAreRecorded ==
    ASSUME Document!DocumentAssumption
    PROVE  Document!Spec => [](Document!AckedMeansRecorded /\ Document!RecordsAreOfObjects)
<1>1. Document!Init => DocInv
  BY DocBegins
<1>2. DocInv /\ [Document!Next]_Document!vars => DocInv'
  BY DocStep
<1>3. DocInv => Document!AckedMeansRecorded /\ Document!RecordsAreOfObjects
  BY DocParts
<1> QED
  BY <1>1, <1>2, <1>3, PTL DEF Document!Spec

\* recordProcessed is a conditional put: no redelivery and no second worker overwrites the
\* record of a document.
THEOREM FirstRecordIsKept ==
    ASSUME Document!DocumentAssumption
    PROVE  Document!Spec => [][Document!RecordStays]_(Document!vars)
<1>1. Document!Init => DocInv
  BY DocBegins
<1>2. DocInv /\ [Document!Next]_Document!vars => DocInv' /\ [Document!RecordStays]_(Document!vars)
  BY DocStep
<1> QED
  BY <1>1, <1>2, PTL DEF Document!Spec

--------------------------------------------------------------------------------
(* The task queue.                                                           *)

TaskBodies == Tasks \union BadTasks \union {NoTask}
TaskLabels == {"idle", "decode", "handle", "ack", "retry"}

\* The workers that may still do the work of a message, and those that have done it.
Working(m) == {w \in Workers : held[w].message = m /\ stage[w] \in {"decode", "handle"}}
Acking(m) == {w \in Workers : held[w].message = m /\ stage[w] = "ack"}

\* The message may be delivered once more without a fault: it is visible or will be, since
\* a worker with the current receipt handle, if there is one, is about to show it.
Claimable(m) ==
    \/ mailbox[m].state \in {"unsent", "visible"}
    \/ /\ mailbox[m].state = "inflight"
       /\ \A w \in Workers : held[w].current /\ held[w].message = m => stage[w] = "retry"

\* Every delivery that may do the work has been paid for by the first one or by a fault.
TaskBudget(m) ==
    effects[m] + Cardinality(Working(m)) + (IF Claimable(m) THEN 1 ELSE 0) <= 1 + faults

TaskWorker(w) ==
    /\ stage[w] = "idle" => ~held[w].current
    /\ stage[w] # "idle" => held[w].message \in Messages /\ mailbox[held[w].message].state # "unsent"
    /\ stage[w] \in {"handle", "ack"} => mailbox[held[w].message].body \in Tasks
    /\ stage[w] = "ack" => effects[held[w].message] > 0

TaskTypes ==
    /\ MailTypes(TaskBodies)
    /\ faults \in 0 .. TaskFaults
    /\ stage \in [Workers -> TaskLabels]
    /\ effects \in [Messages -> Nat]

OneCurrent ==
    \A v, w \in Workers : held[v].current /\ held[w].current /\ held[v].message = held[w].message => v = w

TaskMessage(m) ==
    /\ IsFiniteSet(Working(m)) /\ IsFiniteSet(Acking(m))
    /\ TaskBudget(m)
    /\ Cardinality(Acking(m)) <= effects[m]
    /\ mailbox[m].state = "deleted" => effects[m] > 0 /\ mailbox[m].body \in Tasks

TaskInv ==
    /\ TaskTypes
    /\ \A w \in Workers : TaskWorker(w)
    /\ OneCurrent
    /\ \A m \in Messages : TaskMessage(m)

LEMMA TaskBegins == Task!TaskAssumption /\ Task!Init => TaskInv
<1> SUFFICES ASSUME Task!TaskAssumption, Task!Init PROVE TaskInv
  OBVIOUS
<1>1. /\ mailbox = [m \in Messages |-> [state |-> "unsent", body |-> NoTask]]
      /\ held = [w \in Workers |-> [message |-> "none", current |-> FALSE]] /\ faults = 0
      /\ stage = [w \in Workers |-> "idle"] /\ effects = [m \in Messages |-> 0]
  BY DEF Task!Init, Task!QueueInit, Task!Unsent, Task!NoDelivery
<1>2. [message |-> "none", current |-> FALSE] \in Deliveries
  <2>1. FALSE \in BOOLEAN
    BY Zenon
  <2> QED
    BY <2>1 DEF Deliveries
<1>3. TaskTypes
  BY <1>1, <1>2 DEF TaskTypes, MailTypes, MailStates, TaskBodies, TaskLabels, Task!TaskAssumption
<1>4. \A w \in Workers : ~held[w].current
  BY <1>1
<1>5. (\A w \in Workers : TaskWorker(w)) /\ OneCurrent
  BY <1>1, <1>4 DEF TaskWorker, OneCurrent
<1>6. ASSUME NEW m \in Messages PROVE TaskMessage(m)
  <2>1. Working(m) = {} /\ Acking(m) = {}
    BY <1>1 DEF Working, Acking
  <2>2. /\ IsFiniteSet(Working(m)) /\ IsFiniteSet(Acking(m)) /\ Cardinality(Working(m)) = 0
        /\ Cardinality(Acking(m)) = 0
    BY <2>1, FS_EmptySet
  <2>3. effects[m] = 0 /\ mailbox[m].state = "unsent"
    BY <1>1
  <2> QED
    BY <1>1, <2>2, <2>3 DEF TaskMessage, TaskBudget
<1> QED
  BY <1>3, <1>5, <1>6 DEF TaskInv

\* The size of a set that one member may enter or leave.
LEMMA SetMoves ==
    ASSUME NEW S, NEW T, NEW w, IsFiniteSet(S), S \ {w} = T \ {w}
    PROVE  /\ IsFiniteSet(T) /\ Cardinality(S) \in Nat /\ Cardinality(T) \in Nat
           /\ Cardinality(T) + (IF w \in S THEN 1 ELSE 0) = Cardinality(S) + (IF w \in T THEN 1 ELSE 0)
<1>1. Cardinality(S) \in Nat
  BY FS_CardinalityType
<1>2. CASE (w \in S) <=> (w \in T)
  <2>1. S = T
    BY <1>2
  <2> QED
    BY <1>1, <1>2, <2>1
<1>3. CASE w \in S /\ w \notin T
  <2>1. T = S \ {w}
    BY <1>3
  <2>2. IsFiniteSet(T) /\ Cardinality(T) = Cardinality(S) - 1
    BY <1>3, <2>1, FS_RemoveElement
  <2>3. Cardinality(T) \in Nat
    BY <2>2, FS_CardinalityType
  <2> QED
    BY <1>1, <1>3, <2>2, <2>3
<1>4. CASE w \notin S /\ w \in T
  <2>1. T = S \union {w}
    BY <1>4
  <2>2. IsFiniteSet(T) /\ Cardinality(T) = Cardinality(S) + 1
    BY <1>4, <2>1, FS_AddElement
  <2> QED
    BY <1>1, <1>4, <2>2
<1> QED
  BY <1>2, <1>3, <1>4

\* What one worker's step does to the budget of a message.
LEMMA TaskCounts ==
    ASSUME TaskInv, NEW w \in Workers, NEW m \in Messages,
           \A v \in Workers : v # w => held'[v].message = held[v].message /\ stage'[v] = stage[v],
           faults \in Nat, faults' \in Nat, effects' \in [Messages -> Nat],
           effects'[m] + (IF w \in Working(m)' THEN 1 ELSE 0) + (IF Claimable(m)' THEN 1 ELSE 0) + faults
             <= effects[m] + (IF w \in Working(m) THEN 1 ELSE 0) + (IF Claimable(m) THEN 1 ELSE 0) + faults',
           effects[m] + (IF w \in Acking(m)' THEN 1 ELSE 0)
             <= effects'[m] + (IF w \in Acking(m) THEN 1 ELSE 0),
           mailbox'[m].state = "deleted" => effects'[m] > 0 /\ mailbox'[m].body \in Tasks
    PROVE  TaskMessage(m)'
<1>1. TaskMessage(m) /\ effects[m] \in Nat /\ effects'[m] \in Nat
  BY DEF TaskInv, TaskTypes
<1>2. Working(m) \ {w} = Working(m)' \ {w} /\ Acking(m) \ {w} = Acking(m)' \ {w}
  BY DEF Working, Acking
<1>3. IsFiniteSet(Working(m)) /\ IsFiniteSet(Acking(m))
  BY <1>1 DEF TaskMessage
<1>4. PICK S, T : S = Working(m) /\ T = Working(m)'
  OBVIOUS
<1>5. /\ IsFiniteSet(T) /\ Cardinality(S) \in Nat /\ Cardinality(T) \in Nat
      /\ Cardinality(T) + (IF w \in S THEN 1 ELSE 0) = Cardinality(S) + (IF w \in T THEN 1 ELSE 0)
  BY <1>2, <1>3, <1>4, SetMoves
<1>6. PICK A, B : A = Acking(m) /\ B = Acking(m)'
  OBVIOUS
<1>7. /\ IsFiniteSet(B) /\ Cardinality(A) \in Nat /\ Cardinality(B) \in Nat
      /\ Cardinality(B) + (IF w \in A THEN 1 ELSE 0) = Cardinality(A) + (IF w \in B THEN 1 ELSE 0)
  BY <1>2, <1>3, <1>6, SetMoves
<1>8. effects[m] + Cardinality(S) + (IF Claimable(m) THEN 1 ELSE 0) <= 1 + faults
  BY <1>1, <1>4 DEF TaskMessage, TaskBudget
<1>9. Cardinality(A) <= effects[m]
  BY <1>1, <1>6 DEF TaskMessage
<1>10. TaskBudget(m)'
  BY <1>1, <1>4, <1>5, <1>8 DEF TaskBudget
<1>11. (Cardinality(Acking(m)) <= effects[m])'
  BY <1>1, <1>6, <1>7, <1>9
<1> QED
  BY <1>4, <1>5, <1>6, <1>7, <1>10, <1>11 DEF TaskMessage

\* A message that the step is not about.
LEMMA TaskOther ==
    ASSUME TaskInv, NEW w \in Workers, NEW k \in Messages,
           \A v \in Workers : v # w => held'[v].message = held[v].message /\ stage'[v] = stage[v],
           faults \in Nat, faults' \in Nat, faults <= faults', effects' \in [Messages -> Nat],
           mailbox'[k] = mailbox[k], effects'[k] = effects[k],
           w \notin Working(k), w \notin Working(k)', w \notin Acking(k), w \notin Acking(k)',
           ~(held[w].current /\ held[w].message = k),
           \A v \in Workers : v # w /\ held[v].current /\ held[v].message = k => held'[v].current
    PROVE  TaskMessage(k)'
<1>1. TaskMessage(k) /\ effects[k] \in Nat
  BY DEF TaskInv, TaskTypes
<1>2. Claimable(k)' => Claimable(k)
  <2>1. ASSUME Claimable(k)', ~Claimable(k) PROVE FALSE
    <3>1. mailbox[k].state = "inflight"
      BY <2>1 DEF Claimable
    <3>2. PICK v \in Workers : held[v].current /\ held[v].message = k /\ stage[v] # "retry"
      BY <2>1, <3>1 DEF Claimable
    <3>3. v # w
      BY <3>2
    <3> QED
      BY <2>1, <3>1, <3>2, <3>3 DEF Claimable
  <2> QED
    BY <2>1
<1>3. mailbox'[k].state = "deleted" => effects'[k] > 0 /\ mailbox'[k].body \in Tasks
  BY <1>1 DEF TaskMessage
<1>4. /\ effects'[k] + 0 + (IF Claimable(k)' THEN 1 ELSE 0) + faults
           <= effects[k] + 0 + (IF Claimable(k) THEN 1 ELSE 0) + faults'
      /\ effects[k] + 0 <= effects'[k] + 0
  BY <1>1, <1>2
<1>5. /\ effects'[k] + (IF w \in Working(k)' THEN 1 ELSE 0) + (IF Claimable(k)' THEN 1 ELSE 0) + faults
           <= effects[k] + (IF w \in Working(k) THEN 1 ELSE 0) + (IF Claimable(k) THEN 1 ELSE 0) + faults'
      /\ effects[k] + (IF w \in Acking(k)' THEN 1 ELSE 0) <= effects'[k] + (IF w \in Acking(k) THEN 1 ELSE 0)
  BY <1>4
<1> QED
  BY <1>3, <1>5, TaskCounts

LEMMA TaskMail ==
    ASSUME TaskTypes, NEW m \in Messages, mailbox[m].state # "unsent", NEW s \in MailStates \ {"unsent"},
           Task!SetState(m, s)
    PROVE  /\ mailbox' \in [Messages -> [state : MailStates, body : TaskBodies]]
           /\ mailbox'[m].state = s
           /\ \A k \in Messages : /\ mailbox'[k].body = mailbox[k].body
                                  /\ mailbox'[k].state = "unsent" <=> mailbox[k].state = "unsent"
                                  /\ k # m => mailbox'[k] = mailbox[k]
<1>1. MailTypes(TaskBodies) /\ mailbox' = [mailbox EXCEPT ![m].state = s]
  BY DEF TaskTypes, Task!SetState
<1>2. /\ mailbox' \in [Messages -> [state : MailStates, body : TaskBodies]]
      /\ mailbox'[m].state = s /\ mailbox'[m].body = mailbox[m].body
      /\ \A k \in Messages : k # m => mailbox'[k] = mailbox[k]
      /\ \A k \in Messages : mailbox'[k].body = mailbox[k].body
  BY <1>1, MailSets
<1> QED
  BY <1>2

\* A step of worker w with message m.
LEMMA TaskCollects ==
    ASSUME TaskInv, TaskTypes', NEW w \in Workers, NEW m \in Messages,
           faults \in Nat, faults' \in Nat, faults <= faults',
           \A v \in Workers : v # w => /\ held'[v].message = held[v].message /\ stage'[v] = stage[v]
                                       /\ held'[v].current => held[v].current
                                       /\ held[v].message # m => (held[v].current => held'[v].current),
           stage[w] # "idle" => held[w].message = m,
           stage'[w] # "idle" => held'[w].message = m,
           \A k \in Messages : /\ mailbox'[k].body = mailbox[k].body
                               /\ mailbox'[k].state = "unsent" <=> mailbox[k].state = "unsent"
                               /\ effects[k] <= effects'[k]
                               /\ k # m => mailbox'[k] = mailbox[k] /\ effects'[k] = effects[k],
           TaskWorker(w)', TaskMessage(m)',
           held'[w].current =>
              \/ held[w].current /\ held[w].message = held'[w].message
              \/ \A v \in Workers : v # w /\ held'[v].current => held'[v].message # held'[w].message
    PROVE  TaskInv'
<1>1. TaskTypes /\ (\A v \in Workers : TaskWorker(v)) /\ OneCurrent
  BY DEF TaskInv
<1>2. ASSUME NEW v \in Workers, v # w PROVE TaskWorker(v)'
  <2>1. /\ held'[v].message = held[v].message /\ stage'[v] = stage[v] /\ (held'[v].current => held[v].current)
        /\ TaskWorker(v)
    BY <1>1, <1>2
  <2>2. CASE stage[v] = "idle"
    BY <2>1, <2>2 DEF TaskWorker
  <2>3. CASE stage[v] # "idle"
    <3>1. held[v].message \in Messages
      BY <2>1, <2>3 DEF TaskWorker
    <3>2. effects[held[v].message] \in Nat /\ effects'[held[v].message] \in Nat
      BY <1>1, <3>1 DEF TaskTypes
    <3> QED
      BY <2>1, <2>3, <3>1, <3>2 DEF TaskWorker
  <2> QED
    BY <2>2, <2>3
<1>3. OneCurrent'
  BY <1>1 DEF OneCurrent
<1>4. ASSUME NEW k \in Messages, k # m PROVE TaskMessage(k)'
  <2>1. stage[w] = "idle" => ~held[w].current
    BY <1>1 DEF TaskWorker
  <2>2. w \notin Working(k) /\ w \notin Acking(k) /\ ~(held[w].current /\ held[w].message = k)
    BY <1>4, <2>1 DEF Working, Acking
  <2>3. w \notin Working(k)' /\ w \notin Acking(k)'
    BY <1>4 DEF Working, Acking
  <2>4. \A v \in Workers : v # w /\ held[v].current /\ held[v].message = k => held'[v].current
    BY <1>4
  <2> QED
    BY <1>4, <2>2, <2>3, <2>4, TaskOther DEF TaskTypes
<1> QED
  BY <1>2, <1>3, <1>4 DEF TaskInv

\* Steps without a worker: the sets of workers stay.
LEMMA TaskQuiet ==
    ASSUME Task!TaskAssumption, TaskInv,
           \/ \E t \in Tasks \union BadTasks : Task!Enqueue(t)
           \/ \E t \in Tasks : Task!EnqueueFails(t)
           \/ \E m \in Messages : Task!Timeout(m)
    PROVE  TaskInv'
<1>1. /\ TaskTypes /\ MailTypes(TaskBodies) /\ faults \in 0 .. TaskFaults /\ TaskFaults \in Nat
      /\ mailbox \in [Messages -> [state : MailStates, body : TaskBodies]] /\ OneCurrent
      /\ \A w \in Workers : TaskWorker(w)
  BY DEF TaskInv, TaskTypes, MailTypes, Task!TaskAssumption
<1>2. UNCHANGED <<held, stage, effects>>
  BY DEF Task!Enqueue, Task!EnqueueFails, Task!Timeout, Task!VisibilityTimeout
<1>3. faults' \in 0 .. TaskFaults /\ faults <= faults'
  <2>1. UNCHANGED faults \/ Task!Fault
    BY Zenon DEF Task!Enqueue, Task!EnqueueFails, Task!Timeout, Task!VisibilityTimeout
  <2> QED
    BY <1>1, <2>1 DEF Task!Fault
<1>4. ASSUME NEW k \in Messages,
             /\ mailbox'[k].state = "deleted" => mailbox[k].state = "deleted"
             /\ mailbox[k].state = "deleted" => mailbox'[k].body = mailbox[k].body,
             \/ Claimable(k)' => Claimable(k)
             \/ faults' = faults + 1
      PROVE  TaskMessage(k)'
  <2>1. TaskMessage(k) /\ effects[k] \in Nat /\ effects'[k] = effects[k]
    BY <1>1, <1>2 DEF TaskInv, TaskTypes
  <2>2. Working(k)' = Working(k) /\ Acking(k)' = Acking(k)
    BY <1>2 DEF Working, Acking
  <2>3. Cardinality(Working(k)) \in Nat
    BY <2>1, FS_CardinalityType DEF TaskMessage
  <2>4. TaskBudget(k)'
    BY <1>1, <1>3, <1>4, <2>1, <2>2, <2>3 DEF TaskMessage, TaskBudget
  <2> QED
    BY <1>2, <1>4, <2>1, <2>2, <2>4 DEF TaskMessage
<1>5. ASSUME mailbox' \in [Messages -> [state : MailStates, body : TaskBodies]],
             \A k \in Messages : mailbox[k].state # "unsent" =>
                mailbox'[k].state # "unsent" /\ mailbox'[k].body = mailbox[k].body,
             \A k \in Messages : TaskMessage(k)'
      PROVE  TaskInv'
  <2>1. TaskTypes'
    BY <1>1, <1>2, <1>3, <1>5 DEF TaskTypes, MailTypes
  <2>2. \A w \in Workers : TaskWorker(w)'
    BY <1>1, <1>2, <1>5 DEF TaskWorker
  <2>3. OneCurrent'
    BY <1>1, <1>2 DEF OneCurrent
  <2> QED
    BY <1>5, <2>1, <2>2, <2>3 DEF TaskInv
<1>6. ASSUME NEW t \in Tasks \union BadTasks, Task!SendMessage(t) PROVE TaskInv'
  <2>1. PICK free : free = {m \in Messages : mailbox[m].state = "unsent"}
    OBVIOUS
  <2>2. free = {m \in Messages : ~Task!Sent(m)}
    BY <2>1 DEF Task!Sent
  <2>3. /\ free # {}
        /\ mailbox' = [mailbox EXCEPT ![CHOOSE m \in free : TRUE] = [state |-> "visible", body |-> t]]
    BY <1>6, <2>2 DEF Task!SendMessage
  <2>4. t \in TaskBodies
    BY DEF TaskBodies
  <2>5. /\ mailbox' \in [Messages -> [state : MailStates, body : TaskBodies]]
        /\ \E m \in Messages :
              /\ mailbox[m].state = "unsent" /\ mailbox'[m].state = "visible" /\ mailbox'[m].body = t
              /\ \A k \in Messages : k # m => mailbox'[k] = mailbox[k]
    BY <1>1, <2>1, <2>3, <2>4, MailSends
  <2>6. PICK m \in Messages :
              /\ mailbox[m].state = "unsent" /\ mailbox'[m].state = "visible" /\ mailbox'[m].body = t
              /\ \A k \in Messages : k # m => mailbox'[k] = mailbox[k]
    BY <2>5
  <2>7. \A k \in Messages : Claimable(k)' => Claimable(k)
    BY <1>2, <2>6 DEF Claimable
  <2>8. \A k \in Messages : TaskMessage(k)'
    BY <1>4, <2>6, <2>7
  <2> QED
    BY <1>5, <2>5, <2>6, <2>8
<1>7. ASSUME NEW m \in Messages, Task!Timeout(m) PROVE TaskInv'
  <2>1. mailbox[m].state = "inflight" /\ Task!SetState(m, "visible")
    BY <1>7 DEF Task!Timeout, Task!VisibilityTimeout
  <2>2. /\ mailbox' \in [Messages -> [state : MailStates, body : TaskBodies]]
        /\ mailbox'[m].state = "visible"
        /\ \A k \in Messages : /\ mailbox'[k].body = mailbox[k].body
                               /\ mailbox'[k].state = "unsent" <=> mailbox[k].state = "unsent"
                               /\ k # m => mailbox'[k] = mailbox[k]
    BY <1>1, <2>1, TaskMail DEF MailStates
  <2>3. ASSUME NEW k \in Messages, k # m PROVE Claimable(k)' => Claimable(k)
    BY <1>2, <2>2, <2>3 DEF Claimable
  <2>4. CASE \E w \in Workers : held[w] = [message |-> m, current |-> TRUE]
    <3>1. faults' = faults + 1
      BY <1>7, <2>4 DEF Task!Timeout, Task!VisibilityTimeout, Task!Fault
    <3>2. \A k \in Messages : TaskMessage(k)'
      BY <1>4, <2>2, <3>1
    <3> QED
      BY <1>5, <2>2, <3>2
  <2>5. CASE ~\E w \in Workers : held[w] = [message |-> m, current |-> TRUE]
    <3>1. ASSUME NEW w \in Workers, held[w].current, held[w].message = m PROVE FALSE
      <4>1. held[w] \in Deliveries
        BY <1>1 DEF MailTypes
      <4>2. held[w].current = TRUE
        <5>1. held[w].current \in BOOLEAN
          BY <4>1 DEF Deliveries
        <5> QED
          BY <3>1, <5>1, Zenon
      <4>3. held[w] = [message |-> m, current |-> TRUE]
        <5>1. held[w] = [message |-> held[w].message, current |-> held[w].current]
          BY <4>1 DEF Deliveries
        <5> QED
          BY <3>1, <4>2, <5>1, Zenon
      <4> QED
        BY <2>5, <4>3
    <3>2. Claimable(m)
      BY <2>1, <3>1 DEF Claimable
    <3>3. \A k \in Messages : TaskMessage(k)'
      BY <1>4, <2>2, <2>3, <3>2
    <3> QED
      BY <1>5, <2>2, <3>3
  <2> QED
    BY <2>4, <2>5
<1> QED
  BY <1>6, <1>7 DEF Task!Enqueue, Task!EnqueueFails

LEMMA TaskWorks ==
    ASSUME Task!TaskAssumption, TaskInv, NEW w \in Workers,
           \/ \E m \in Messages : Task!Receive(w, m)
           \/ Task!PollStep(w) \/ Task!HandlerFails(w) \/ Task!GiveUp(w)
    PROVE  TaskInv'
<1>1. /\ TaskTypes /\ MailTypes(TaskBodies) /\ faults \in 0 .. TaskFaults /\ TaskFaults \in Nat
      /\ mailbox \in [Messages -> [state : MailStates, body : TaskBodies]]
      /\ held \in [Workers -> Deliveries] /\ stage \in [Workers -> TaskLabels]
      /\ effects \in [Messages -> Nat] /\ OneCurrent /\ TaskWorker(w)
  BY DEF TaskInv, TaskTypes, MailTypes, Task!TaskAssumption
<1>2. faults' \in 0 .. TaskFaults /\ (faults' = faults \/ faults' = faults + 1)
  BY <1>1 DEF Task!Receive, Task!PollStep, Task!decodeTask, Task!Handle, Task!Ack, Task!RetrySoon,
     Task!HandlerFails, Task!GiveUp, Task!Fault, Task!queueVars
<1>3. faults \in Nat /\ faults' \in Nat /\ faults <= faults'
  BY <1>1, <1>2
<1>4. \A label \in TaskLabels : stage' = [stage EXCEPT ![w] = label] =>
         /\ stage' \in [Workers -> TaskLabels] /\ stage'[w] = label
         /\ \A v \in Workers : v # w => stage'[v] = stage[v]
  BY <1>1
<1>a. {"idle", "decode", "handle", "ack", "retry"} = TaskLabels
  BY DEF TaskLabels
<1>5. ASSUME NEW m \in Messages, Task!Receive(w, m) PROVE TaskInv'
  <2>1. /\ mailbox[m].state = "visible" /\ Task!SetState(m, "inflight") /\ stage[w] = "idle"
        /\ held' = [v \in Workers |->
                       IF v = w THEN [message |-> m, current |-> TRUE]
                       ELSE [held[v] EXCEPT !.current = @ /\ held[v].message # m]]
        /\ stage' = [stage EXCEPT ![w] = "decode"] /\ UNCHANGED <<faults, effects>>
    BY <1>5 DEF Task!Receive, Task!ReceiveMessage, Task!Goto
  <2>2. /\ held' \in [Workers -> Deliveries] /\ held'[w].message = m /\ held'[w].current
        /\ \A v \in Workers : v # w => held'[v].message = held[v].message
        /\ \A v \in Workers : v # w /\ held'[v].current => held[v].current /\ held[v].message # m
        /\ \A v \in Workers : v # w /\ held[v].current /\ held[v].message # m => held'[v].current
    <3>1. held' = [v \in Workers |->
                      IF v = w THEN [message |-> m, current |-> TRUE]
                      ELSE [held[v] EXCEPT !.current = @ /\ held[v].message # m]]
      BY <2>1
    <3>2. MailTypes(TaskBodies)
      BY <1>1
    <3>3. held' \in [Workers -> Deliveries] /\ held'[w].message = m
      BY <3>1, <3>2, MailDelivers
    <3>4. held'[w].current
      BY <3>1, <3>2, MailDelivers
    <3>5. \A v \in Workers : v # w => held'[v].message = held[v].message
      BY <3>1, <3>2, MailDelivers, ZenonT(60)
    <3>6. \A v \in Workers : v # w /\ held'[v].current => held[v].current /\ held[v].message # m
      BY <3>1, <3>2, MailDelivers, ZenonT(60)
    <3>7. \A v \in Workers : v # w /\ held[v].current /\ held[v].message # m => held'[v].current
      BY <3>1, <3>2, MailDelivers, ZenonT(60)
    <3> QED
      BY <3>3, <3>4, <3>5, <3>6, <3>7
  <2>3. /\ mailbox' \in [Messages -> [state : MailStates, body : TaskBodies]]
        /\ mailbox'[m].state = "inflight"
        /\ \A k \in Messages : /\ mailbox'[k].body = mailbox[k].body
                               /\ mailbox'[k].state = "unsent" <=> mailbox[k].state = "unsent"
                               /\ k # m => mailbox'[k] = mailbox[k]
    BY <1>1, <2>1, TaskMail DEF MailStates
  <2>4. /\ stage' \in [Workers -> TaskLabels] /\ stage'[w] = "decode"
        /\ \A v \in Workers : v # w => stage'[v] = stage[v]
    BY <1>4, <1>a, <2>1
  <2>5. TaskTypes'
    BY <1>1, <1>2, <2>1, <2>2, <2>3, <2>4 DEF TaskTypes, MailTypes
  <2>6. TaskWorker(w)'
    BY <2>2, <2>3, <2>4 DEF TaskWorker
  <2>7. TaskMessage(m)'
    <3>1. w \in Working(m)' /\ w \notin Working(m) /\ w \notin Acking(m)'
      BY <2>1, <2>2, <2>4 DEF Working, Acking
    <3>2. Claimable(m) /\ ~Claimable(m)'
      BY <2>1, <2>2, <2>3, <2>4 DEF Claimable
    <3>3. effects[m] \in Nat /\ effects'[m] = effects[m]
      BY <1>1, <2>1
    <3>4. effects'[m] + (IF w \in Working(m)' THEN 1 ELSE 0) + (IF Claimable(m)' THEN 1 ELSE 0) + faults
             <= effects[m] + (IF w \in Working(m) THEN 1 ELSE 0) + (IF Claimable(m) THEN 1 ELSE 0) + faults'
      BY <1>3, <2>1, <3>1, <3>2, <3>3
    <3>5. effects[m] + (IF w \in Acking(m)' THEN 1 ELSE 0)
             <= effects'[m] + (IF w \in Acking(m) THEN 1 ELSE 0)
      BY <3>1, <3>3
    <3> QED
      BY <1>1, <1>3, <2>1, <2>2, <2>3, <2>4, <3>4, <3>5, TaskCounts
  <2>8. \A v \in Workers : v # w => /\ held'[v].message = held[v].message /\ stage'[v] = stage[v]
                                    /\ held'[v].current => held[v].current
                                    /\ held[v].message # m => (held[v].current => held'[v].current)
    BY <2>2, <2>4
  <2>9. \A v \in Workers : v # w /\ held'[v].current => held'[v].message # held'[w].message
    BY <2>2
  <2>10. \A k \in Messages : effects[k] <= effects'[k] /\ effects'[k] = effects[k]
    BY <1>1, <2>1
  <2>11. stage[w] # "idle" => held[w].message = m
    BY <2>1
  <2>12. \A k \in Messages : /\ mailbox'[k].body = mailbox[k].body
                             /\ mailbox'[k].state = "unsent" <=> mailbox[k].state = "unsent"
                             /\ effects[k] <= effects'[k]
                             /\ k # m => mailbox'[k] = mailbox[k] /\ effects'[k] = effects[k]
    BY <2>3, <2>10
  <2>13. stage'[w] # "idle" => held'[w].message = m
    BY <2>2
  <2> QED
    BY <1>3, <2>5, <2>6, <2>7, <2>8, <2>9, <2>11, <2>12, <2>13, TaskCollects
\* the message of a worker that is busy
<1>6. ASSUME stage[w] # "idle"
      PROVE  /\ held[w].message \in Messages /\ mailbox[held[w].message].state # "unsent"
             /\ effects[held[w].message] \in Nat
  BY <1>1, <1>6 DEF TaskWorker
\* a worker that goes on with its message
<1>7. ASSUME stage[w] # "idle", UNCHANGED <<mailbox, held>>, NEW label \in TaskLabels \ {"idle"},
             stage' = [stage EXCEPT ![w] = label], NEW m, m = held[w].message,
             effects' \in [Messages -> Nat], effects[m] <= effects'[m],
             \A k \in Messages : k # m => effects'[k] = effects[k],
             label \in {"handle", "ack"} => mailbox[m].body \in Tasks,
             label = "ack" => effects'[m] > 0,
             effects'[m] + (IF label \in {"decode", "handle"} THEN 1 ELSE 0)
                + (IF Claimable(m)' THEN 1 ELSE 0) + faults
               <= effects[m] + (IF stage[w] \in {"decode", "handle"} THEN 1 ELSE 0)
                     + (IF Claimable(m) THEN 1 ELSE 0) + faults',
             effects[m] + (IF label = "ack" THEN 1 ELSE 0)
               <= effects'[m] + (IF stage[w] = "ack" THEN 1 ELSE 0)
      PROVE  TaskInv'
  <2>1. m \in Messages /\ mailbox[m].state # "unsent"
    BY <1>6, <1>7
  <2>2. /\ stage' \in [Workers -> TaskLabels] /\ stage'[w] = label
        /\ \A v \in Workers : v # w => stage'[v] = stage[v]
    BY <1>4, <1>7
  <2>3. TaskTypes'
    BY <1>1, <1>2, <1>7, <2>2 DEF TaskTypes, MailTypes
  <2>4. TaskWorker(w)'
    BY <1>1, <1>7, <2>1, <2>2 DEF TaskWorker
  <2>5. /\ (w \in Working(m)') <=> label \in {"decode", "handle"}
        /\ (w \in Working(m)) <=> stage[w] \in {"decode", "handle"}
        /\ (w \in Acking(m)') <=> label = "ack"
        /\ (w \in Acking(m)) <=> stage[w] = "ack"
    BY <1>7, <2>2 DEF Working, Acking
  <2>6. /\ effects'[m] + (IF w \in Working(m)' THEN 1 ELSE 0) + (IF Claimable(m)' THEN 1 ELSE 0) + faults
             <= effects[m] + (IF w \in Working(m) THEN 1 ELSE 0) + (IF Claimable(m) THEN 1 ELSE 0) + faults'
        /\ effects[m] + (IF w \in Acking(m)' THEN 1 ELSE 0)
             <= effects'[m] + (IF w \in Acking(m) THEN 1 ELSE 0)
    BY <1>7, <2>5
  <2>7. mailbox'[m].state = "deleted" => effects'[m] > 0 /\ mailbox'[m].body \in Tasks
    <3>1. TaskMessage(m) /\ effects[m] \in Nat /\ effects'[m] \in Nat
      BY <1>1, <1>7, <2>1 DEF TaskInv
    <3> QED
      BY <1>7, <3>1 DEF TaskMessage
  <2>8. \A v \in Workers : v # w => held'[v].message = held[v].message /\ stage'[v] = stage[v]
    BY <1>7, <2>2
  <2>9. TaskMessage(m)'
    BY <1>3, <1>7, <2>1, <2>6, <2>7, <2>8, TaskCounts
  <2>10. \A v \in Workers : v # w => /\ held'[v].message = held[v].message /\ stage'[v] = stage[v]
                                     /\ held'[v].current => held[v].current
                                     /\ held[v].message # m => (held[v].current => held'[v].current)
    BY <1>7, <2>2
  <2>11. \A k \in Messages : /\ mailbox'[k].body = mailbox[k].body
                             /\ mailbox'[k].state = "unsent" <=> mailbox[k].state = "unsent"
                             /\ effects[k] <= effects'[k]
                             /\ k # m => mailbox'[k] = mailbox[k] /\ effects'[k] = effects[k]
    BY <1>1, <1>7
  <2>12. held'[w].message = m /\ held[w].message = m /\ (held'[w].current => held[w].current)
    BY <1>7
  <2> QED
    BY <1>3, <2>1, <2>3, <2>4, <2>9, <2>10, <2>11, <2>12, TaskCollects
\* moving to retry is the only way a message becomes claimable here
<1>8. ASSUME stage[w] # "idle", UNCHANGED <<mailbox, held>>, NEW label \in TaskLabels,
             stage' = [stage EXCEPT ![w] = label], label # "retry", NEW m, m = held[w].message
      PROVE  Claimable(m)' => Claimable(m)
  <2>1. stage'[w] = label /\ \A v \in Workers : v # w => stage'[v] = stage[v]
    BY <1>4, <1>8
  <2> QED
    BY <1>8, <2>1 DEF Claimable
<1>9. CASE Task!decodeTask(w)
  <2>1. /\ stage[w] = "decode" /\ UNCHANGED <<mailbox, held, faults, effects>>
        /\ stage' = [stage EXCEPT ![w] = IF mailbox[held[w].message].body \in Tasks
                                         THEN "handle" ELSE "retry"]
    BY <1>9 DEF Task!decodeTask, Task!Goto, Task!queueVars
  <2>2. PICK m : m = held[w].message
    OBVIOUS
  <2>3. m \in Messages /\ effects[m] \in Nat /\ effects' \in [Messages -> Nat]
    BY <1>1, <1>6, <2>1, <2>2
  <2>4. CASE mailbox[m].body \in Tasks
    <3>1. stage' = [stage EXCEPT ![w] = "handle"]
      BY <2>1, <2>2, <2>4
    <3>2. Claimable(m)' => Claimable(m)
      BY <1>8, <1>a, <2>1, <2>2, <3>1
    <3>3. effects'[m] + 1 + (IF Claimable(m)' THEN 1 ELSE 0) + faults
            <= effects[m] + 1 + (IF Claimable(m) THEN 1 ELSE 0) + faults'
      BY <1>3, <2>1, <2>3, <3>2
    <3> QED
      <4>1. /\ effects'[m] + (IF "handle" \in {"decode", "handle"} THEN 1 ELSE 0)
               + (IF Claimable(m)' THEN 1 ELSE 0) + faults
              <= effects[m] + (IF stage[w] \in {"decode", "handle"} THEN 1 ELSE 0)
                   + (IF Claimable(m) THEN 1 ELSE 0) + faults'
            /\ effects[m] + (IF "handle" = "ack" THEN 1 ELSE 0) <= effects'[m] + (IF stage[w] = "ack" THEN 1 ELSE 0)
            /\ effects[m] <= effects'[m] /\ \A k \in Messages : k # m => effects'[k] = effects[k]
            /\ "handle" \in TaskLabels \ {"idle"}
        BY <1>1, <1>a, <2>1, <2>3, <3>3
      <4> QED
        BY <1>7, <2>1, <2>2, <2>3, <2>4, <3>1, <4>1
  <2>5. CASE mailbox[m].body \notin Tasks
    <3>1. stage' = [stage EXCEPT ![w] = "retry"]
      BY <2>1, <2>2, <2>5
    <3>2. Claimable(m)' => 1 <= 1 + (IF Claimable(m) THEN 1 ELSE 0)
      OBVIOUS
    <3>3. effects'[m] + 0 + (IF Claimable(m)' THEN 1 ELSE 0) + faults
            <= effects[m] + 1 + (IF Claimable(m) THEN 1 ELSE 0) + faults'
      BY <1>3, <2>1, <2>3, <3>2
    <3> QED
      <4>1. /\ effects'[m] + (IF "retry" \in {"decode", "handle"} THEN 1 ELSE 0)
               + (IF Claimable(m)' THEN 1 ELSE 0) + faults
              <= effects[m] + (IF stage[w] \in {"decode", "handle"} THEN 1 ELSE 0)
                   + (IF Claimable(m) THEN 1 ELSE 0) + faults'
            /\ effects[m] + (IF "retry" = "ack" THEN 1 ELSE 0) <= effects'[m] + (IF stage[w] = "ack" THEN 1 ELSE 0)
            /\ effects[m] <= effects'[m] /\ \A k \in Messages : k # m => effects'[k] = effects[k]
            /\ "retry" \in TaskLabels \ {"idle"}
        BY <1>1, <1>a, <2>1, <2>3, <3>3
      <4> QED
        BY <1>7, <2>1, <2>2, <2>3, <2>5, <3>1, <4>1
  <2> QED
    BY <2>4, <2>5
<1>10. CASE Task!Handle(w)
  <2>1. /\ stage[w] = "handle" /\ UNCHANGED <<mailbox, held, faults>>
        /\ stage' = [stage EXCEPT ![w] = "ack"]
        /\ effects' = [effects EXCEPT ![held[w].message] = @ + 1]
    BY <1>10 DEF Task!Handle, Task!Handled, Task!Goto, Task!queueVars
  <2>2. PICK m : m = held[w].message
    OBVIOUS
  <2>3. /\ m \in Messages /\ effects[m] \in Nat /\ effects' \in [Messages -> Nat]
        /\ effects'[m] = effects[m] + 1 /\ \A k \in Messages : k # m => effects'[k] = effects[k]
    BY <1>1, <1>6, <2>1, <2>2
  <2>4. mailbox[m].body \in Tasks
    BY <1>1, <2>1, <2>2 DEF TaskWorker
  <2>5. Claimable(m)' => Claimable(m)
    BY <1>8, <1>a, <2>1, <2>2
  <2>6. effects'[m] + 0 + (IF Claimable(m)' THEN 1 ELSE 0) + faults
            <= effects[m] + 1 + (IF Claimable(m) THEN 1 ELSE 0) + faults'
    BY <1>3, <2>1, <2>3, <2>5
  <2> QED
    <3>1. /\ effects'[m] + (IF "ack" \in {"decode", "handle"} THEN 1 ELSE 0)
             + (IF Claimable(m)' THEN 1 ELSE 0) + faults
            <= effects[m] + (IF stage[w] \in {"decode", "handle"} THEN 1 ELSE 0)
                 + (IF Claimable(m) THEN 1 ELSE 0) + faults'
          /\ effects[m] + (IF "ack" = "ack" THEN 1 ELSE 0) <= effects'[m] + (IF stage[w] = "ack" THEN 1 ELSE 0)
          /\ effects[m] <= effects'[m] /\ \A k \in Messages : k # m => effects'[k] = effects[k]
          /\ "ack" \in TaskLabels \ {"idle"}
      BY <1>a, <2>1, <2>3, <2>6
    <3> QED
      <4>1. effects'[m] > 0
        BY <2>3
      <4>2. /\ stage[w] # "idle" /\ UNCHANGED <<mailbox, held>> /\ m = held[w].message
            /\ stage' = [stage EXCEPT ![w] = "ack"] /\ effects' \in [Messages -> Nat]
            /\ effects[m] <= effects'[m]
            /\ "ack" \in {"handle", "ack"} => mailbox[m].body \in Tasks
            /\ "ack" = "ack" => effects'[m] > 0
        BY <2>1, <2>2, <2>3, <2>4, <3>1, <4>1
      <4> QED
        BY <1>7, <3>1, <4>2
<1>11. CASE Task!HandlerFails(w)
  <2>1. /\ stage[w] = "handle" /\ UNCHANGED <<mailbox, held>> /\ faults' = faults + 1
        /\ stage' = [stage EXCEPT ![w] = "retry"]
        /\ UNCHANGED effects \/ effects' = [effects EXCEPT ![held[w].message] = @ + 1]
    BY <1>11 DEF Task!HandlerFails, Task!Handled, Task!Goto, Task!Fault
  <2>2. PICK m : m = held[w].message
    OBVIOUS
  <2>3. /\ m \in Messages /\ effects[m] \in Nat /\ effects' \in [Messages -> Nat]
        /\ effects'[m] \in {effects[m], effects[m] + 1}
        /\ \A k \in Messages : k # m => effects'[k] = effects[k]
    BY <1>1, <1>6, <2>1, <2>2
  <2>4. effects'[m] + 0 + (IF Claimable(m)' THEN 1 ELSE 0) + faults
            <= effects[m] + 1 + (IF Claimable(m) THEN 1 ELSE 0) + faults'
    BY <1>3, <2>1, <2>3
  <2>5. effects[m] <= effects'[m]
    BY <2>3
  <2> QED
    <3>1. /\ effects'[m] + (IF "retry" \in {"decode", "handle"} THEN 1 ELSE 0)
             + (IF Claimable(m)' THEN 1 ELSE 0) + faults
            <= effects[m] + (IF stage[w] \in {"decode", "handle"} THEN 1 ELSE 0)
                 + (IF Claimable(m) THEN 1 ELSE 0) + faults'
          /\ effects[m] + (IF "retry" = "ack" THEN 1 ELSE 0) <= effects'[m] + (IF stage[w] = "ack" THEN 1 ELSE 0)
          /\ effects[m] <= effects'[m] /\ \A k \in Messages : k # m => effects'[k] = effects[k]
          /\ "retry" \in TaskLabels \ {"idle"}
      BY <1>a, <2>1, <2>3, <2>4, <2>5
    <3> QED
      BY <1>7, <2>1, <2>2, <2>3, <3>1
\* a worker that leaves its message
<1>12. ASSUME stage[w] # "idle", Task!Release(w), Task!Goto(w, "idle"), UNCHANGED effects,
              NEW m, m = held[w].message,
              mailbox' \in [Messages -> [state : MailStates, body : TaskBodies]],
              \A k \in Messages : /\ mailbox'[k].body = mailbox[k].body
                                  /\ mailbox'[k].state = "unsent" <=> mailbox[k].state = "unsent"
                                  /\ k # m => mailbox'[k] = mailbox[k],
              mailbox'[m].state = "deleted" => mailbox[m].state = "deleted" \/ stage[w] = "ack",
              (Claimable(m)' => Claimable(m)) \/ faults' = faults + 1
       PROVE  TaskInv'
  <2>1. /\ stage' = [stage EXCEPT ![w] = "idle"]
        /\ held' = [held EXCEPT ![w] = [message |-> "none", current |-> FALSE]]
    BY <1>12 DEF Task!Goto, Task!Release, Task!NoDelivery
  <2>2. /\ held' \in [Workers -> Deliveries] /\ held'[w] = [message |-> "none", current |-> FALSE]
        /\ \A v \in Workers : v # w => held'[v] = held[v]
    BY <1>1, <2>1, MailReleases
  <2>3. ~held'[w].current
    BY <2>2
  <2>4. /\ stage' \in [Workers -> TaskLabels] /\ stage'[w] = "idle"
        /\ \A v \in Workers : v # w => stage'[v] = stage[v]
    BY <1>4, <1>a, <2>1
  <2>5. TaskTypes'
    BY <1>1, <1>2, <1>12, <2>2, <2>4 DEF TaskTypes, MailTypes
  <2>6. TaskWorker(w)'
    BY <2>3, <2>4 DEF TaskWorker
  <2>7. m \in Messages /\ effects[m] \in Nat /\ TaskMessage(m) /\ effects'[m] = effects[m]
    BY <1>6, <1>12 DEF TaskInv
  <2>8. w \notin Working(m)' /\ w \notin Acking(m)'
    BY <2>4 DEF Working, Acking
  <2>9. mailbox'[m].state = "deleted" => effects'[m] > 0 /\ mailbox'[m].body \in Tasks
    BY <1>1, <1>12, <2>7 DEF TaskMessage, TaskWorker
  <2>10. effects'[m] + (IF w \in Working(m)' THEN 1 ELSE 0) + (IF Claimable(m)' THEN 1 ELSE 0) + faults
           <= effects[m] + (IF w \in Working(m) THEN 1 ELSE 0) + (IF Claimable(m) THEN 1 ELSE 0) + faults'
    BY <1>2, <1>3, <1>12, <2>7, <2>8
  <2>11. effects[m] + (IF w \in Acking(m)' THEN 1 ELSE 0) <= effects'[m] + (IF w \in Acking(m) THEN 1 ELSE 0)
    BY <2>7, <2>8
  <2>12. \A v \in Workers : v # w => held'[v].message = held[v].message /\ stage'[v] = stage[v]
    BY <2>2, <2>4
  <2>13. TaskMessage(m)'
    BY <1>1, <1>3, <1>12, <2>7, <2>9, <2>10, <2>11, <2>12, TaskCounts
  <2>14. \A v \in Workers : v # w => /\ held'[v].message = held[v].message /\ stage'[v] = stage[v]
                                     /\ held'[v].current => held[v].current
                                     /\ held[v].message # m => (held[v].current => held'[v].current)
    BY <2>2, <2>4
  <2>15. \A k \in Messages : /\ mailbox'[k].body = mailbox[k].body
                             /\ mailbox'[k].state = "unsent" <=> mailbox[k].state = "unsent"
                             /\ effects[k] <= effects'[k]
                             /\ k # m => mailbox'[k] = mailbox[k] /\ effects'[k] = effects[k]
    BY <1>1, <1>12
  <2> QED
    BY <1>3, <1>12, <2>3, <2>4, <2>5, <2>6, <2>7, <2>13, <2>14, <2>15, TaskCollects
\* what the message of a leaving worker may become
<1>13. ASSUME stage[w] # "idle", Task!Release(w), Task!Goto(w, "idle"), NEW m, m = held[w].message,
              \/ UNCHANGED mailbox
              \/ stage[w] = "ack" /\ Task!DeleteMessage(w)
              \/ stage[w] = "retry" /\ Task!ChangeMessageVisibility(w)
       PROVE  /\ mailbox' \in [Messages -> [state : MailStates, body : TaskBodies]]
              /\ \A k \in Messages : /\ mailbox'[k].body = mailbox[k].body
                                     /\ mailbox'[k].state = "unsent" <=> mailbox[k].state = "unsent"
                                     /\ k # m => mailbox'[k] = mailbox[k]
              /\ mailbox'[m].state = "deleted" => mailbox[m].state = "deleted" \/ stage[w] = "ack"
              /\ \/ UNCHANGED mailbox \/ mailbox'[m].state = "deleted"
                 \/ mailbox'[m].state = "visible" /\ mailbox[m].state = "inflight" /\ held[w].current
                    /\ stage[w] = "retry"
  <2>1. m \in Messages /\ mailbox[m].state # "unsent"
    BY <1>6, <1>13
  <2>2. CASE UNCHANGED mailbox
    BY <1>1, <2>2
  <2>3. CASE stage[w] = "ack" /\ Task!SetState(m, "deleted")
    BY <1>1, <2>1, <2>3, TaskMail DEF MailStates
  <2>4. CASE /\ stage[w] = "retry" /\ held[w].current /\ mailbox[m].state = "inflight"
             /\ Task!SetState(m, "visible")
    BY <1>1, <2>1, <2>4, TaskMail DEF MailStates
  <2> QED
    BY <1>13, <2>2, <2>3, <2>4 DEF Task!DeleteMessage, Task!ChangeMessageVisibility
\* a worker without the current receipt handle leaves the message as claimable as it was
<1>14. ASSUME Task!Release(w), Task!Goto(w, "idle"), NEW m \in Messages, ~held[w].current, UNCHANGED mailbox
       PROVE  Claimable(m)' => Claimable(m)
  <2>1. \A v \in Workers : v # w => held'[v] = held[v] /\ stage'[v] = stage[v]
    BY <1>1, <1>14 DEF Task!Goto, Task!Release
  <2> QED
    BY <1>14, <2>1 DEF Claimable
<1>15. CASE Task!Ack(w)
  <2>1. /\ stage[w] = "ack" /\ Task!DeleteMessage(w) /\ Task!Release(w) /\ Task!Goto(w, "idle")
        /\ UNCHANGED <<faults, effects>>
    BY <1>15 DEF Task!Ack
  <2>2. PICK m : m = held[w].message
    OBVIOUS
  <2>3. m \in Messages
    BY <1>6, <2>1, <2>2
  <2>4. /\ mailbox' \in [Messages -> [state : MailStates, body : TaskBodies]]
        /\ \A k \in Messages : /\ mailbox'[k].body = mailbox[k].body
                               /\ mailbox'[k].state = "unsent" <=> mailbox[k].state = "unsent"
                               /\ k # m => mailbox'[k] = mailbox[k]
    BY <1>13, <2>1, <2>2
  <2>5. Claimable(m)' => Claimable(m)
    <3>1. CASE ~held[w].current /\ UNCHANGED mailbox
      BY <1>14, <2>1, <2>3, <3>1
    <3>2. CASE Task!SetState(m, "deleted")
      <4>1. mailbox'[m].state = "deleted"
        BY <1>1, <1>6, <2>1, <2>2, <3>2, TaskMail DEF MailStates
      <4> QED
        BY <4>1 DEF Claimable
    <3> QED
      BY <2>1, <2>2, <3>1, <3>2 DEF Task!DeleteMessage
  <2> QED
    BY <1>12, <2>1, <2>2, <2>4, <2>5
<1>16. CASE Task!RetrySoon(w)
  <2>1. /\ stage[w] = "retry" /\ Task!ChangeMessageVisibility(w) /\ Task!Release(w) /\ Task!Goto(w, "idle")
        /\ UNCHANGED <<faults, effects>>
    BY <1>16 DEF Task!RetrySoon
  <2>2. PICK m : m = held[w].message
    OBVIOUS
  <2>3. m \in Messages
    BY <1>6, <2>1, <2>2
  <2>4. /\ mailbox' \in [Messages -> [state : MailStates, body : TaskBodies]]
        /\ \A k \in Messages : /\ mailbox'[k].body = mailbox[k].body
                               /\ mailbox'[k].state = "unsent" <=> mailbox[k].state = "unsent"
                               /\ k # m => mailbox'[k] = mailbox[k]
        /\ mailbox'[m].state = "deleted" => mailbox[m].state = "deleted" \/ stage[w] = "ack"
    BY <1>13, <2>1, <2>2
  <2>5. Claimable(m)' => Claimable(m)
    <3>1. CASE held[w].current /\ mailbox[m].state = "inflight"
      <4>1. \A v \in Workers : held[v].current /\ held[v].message = m => v = w
        BY <1>1, <2>2, <3>1 DEF OneCurrent
      <4> QED
        BY <2>1, <3>1, <4>1 DEF Claimable
    <3>2. CASE ~(held[w].current /\ mailbox[m].state = "inflight")
      <4>1. UNCHANGED mailbox
        BY <2>1, <2>2, <3>2 DEF Task!ChangeMessageVisibility
      <4>2. CASE ~held[w].current
        BY <1>14, <2>1, <2>3, <4>1, <4>2
      <4>3. CASE mailbox[m].state # "inflight"
        BY <4>1, <4>3 DEF Claimable
      <4> QED
        BY <3>2, <4>2, <4>3
    <3> QED
      BY <3>1, <3>2
  <2> QED
    BY <1>12, <2>1, <2>2, <2>4, <2>5
<1>17. CASE Task!GiveUp(w)
  <2>1. /\ stage[w] # "idle" /\ Task!Release(w) /\ Task!Goto(w, "idle") /\ UNCHANGED effects
        /\ faults' = faults + 1
        /\ \/ UNCHANGED mailbox
           \/ stage[w] = "ack" /\ Task!DeleteMessage(w)
           \/ stage[w] = "retry" /\ Task!ChangeMessageVisibility(w)
    BY <1>17 DEF Task!GiveUp, Task!Fault
  <2>2. PICK m : m = held[w].message
    OBVIOUS
  <2>3. /\ mailbox' \in [Messages -> [state : MailStates, body : TaskBodies]]
        /\ \A k \in Messages : /\ mailbox'[k].body = mailbox[k].body
                               /\ mailbox'[k].state = "unsent" <=> mailbox[k].state = "unsent"
                               /\ k # m => mailbox'[k] = mailbox[k]
        /\ mailbox'[m].state = "deleted" => mailbox[m].state = "deleted" \/ stage[w] = "ack"
    BY <1>13, <2>1, <2>2
  <2> QED
    BY <1>12, <2>1, <2>2, <2>3
<1> QED
  BY <1>5, <1>9, <1>10, <1>11, <1>15, <1>16, <1>17 DEF Task!PollStep

LEMMA TaskStep ==
    ASSUME Task!TaskAssumption, TaskInv, [Task!Next]_Task!vars
    PROVE  TaskInv'
<1>1. CASE UNCHANGED Task!vars
  <2>1. UNCHANGED <<mailbox, held, faults, stage, effects>>
    BY <1>1 DEF Task!vars, Task!queueVars
  <2> QED
    <3>1. TaskTypes' /\ (\A w \in Workers : TaskWorker(w)') /\ OneCurrent'
      BY <2>1 DEF TaskInv, TaskTypes, MailTypes, TaskWorker, OneCurrent
    <3>2. ASSUME NEW m \in Messages PROVE TaskMessage(m)'
      <4>1. Working(m)' = Working(m) /\ Acking(m)' = Acking(m)
        BY <2>1 DEF Working, Acking
      <4>2. Claimable(m)' <=> Claimable(m)
        BY <2>1 DEF Claimable
      <4>3. TaskMessage(m)
        BY DEF TaskInv
      <4> QED
        BY <2>1, <4>1, <4>2, <4>3 DEF TaskMessage, TaskBudget
    <3> QED
      BY <3>1, <3>2 DEF TaskInv
<1> QED
  BY <1>1, TaskQuiet, TaskWorks DEF Task!Next

LEMMA TaskParts ==
    ASSUME Task!TaskAssumption, TaskInv
    PROVE  Task!TypeOK /\ Task!WorkedBeforeAck
<1>1. TaskTypes /\ \A m \in Messages : TaskMessage(m)
  BY DEF TaskInv
<1>2. \A w \in Workers : held[w].message \in Messages \union {"none"} /\ held[w].current \in BOOLEAN
  <2>1. \A w \in Workers : held[w] \in Deliveries
    BY <1>1 DEF TaskTypes, MailTypes
  <2> QED
    BY <2>1 DEF Deliveries
<1>3. Task!QueueTypeOK
  BY <1>1, <1>2 DEF TaskTypes, MailTypes, MailStates, Task!QueueTypeOK
<1>4. ASSUME NEW m \in Messages
      PROVE  /\ mailbox[m].state = "deleted" => effects[m] > 0 /\ mailbox[m].body \in Tasks
             /\ effects[m] <= 1 + faults
             /\ Task!Busy(m) # {} => effects[m] >= Task!Cardinality(Task!Busy(m))
  <2>1. TaskMessage(m) /\ effects[m] \in Nat /\ faults \in 0 .. TaskFaults /\ TaskFaults \in Nat
    BY <1>1 DEF TaskTypes, MailTypes, Task!TaskAssumption
  <2>2. Task!Busy(m) = Acking(m)
    BY DEF Task!Busy, Acking
  <2>3. Cardinality(Working(m)) \in Nat /\ Cardinality(Acking(m)) \in Nat
    BY <2>1, FS_CardinalityType DEF TaskMessage
  <2>4. Cardinality(Acking(m)) = Task!Cardinality(Task!Busy(m))
    BY <2>2, SameSizes
  <2>5. effects[m] <= 1 + faults
    BY <2>1, <2>3 DEF TaskMessage, TaskBudget
  <2> QED
    BY <2>1, <2>3, <2>4, <2>5 DEF TaskMessage
<1> QED
  BY <1>1, <1>3, <1>4 DEF TaskTypes, TaskLabels, Task!TypeOK, Task!WorkedBeforeAck

\* PollOnce with any number of workers: a message is deleted only after its handler ran, and
\* it runs again only after a failed call, a dead worker or an early visibility timeout.
THEOREM TasksAreWorkedOn ==
    ASSUME Task!TaskAssumption
    PROVE  Task!Spec => []Task!WorkedBeforeAck
<1>1. Task!Init => TaskInv
  BY TaskBegins
<1>2. TaskInv /\ [Task!Next]_Task!vars => TaskInv'
  BY TaskStep
<1>3. TaskInv => Task!WorkedBeforeAck
  BY TaskParts
<1> QED
  BY <1>1, <1>2, <1>3, PTL DEF Task!Spec

--------------------------------------------------------------------------------
(* The ticket worker.                                                        *)

\* The ticket at a position has been processed or has a dead letter.
Handled(i) == queue.id[i] \in DOMAIN processed \union DOMAIN dead

TicketRuns ==
    /\ pc = "process" => cursor > 0
    /\ pc \in {"read", "write"} =>
          \A i \in Ticket!Records : i < cursor => Handled(i) \/ i \in chunk
    /\ pc = "process" => \A i \in Ticket!Records : i < cursor - 1 => Handled(i) \/ i \in chunk
    /\ pc = "close" \/ (pc = "finish" /\ err = "none") => \A i \in Ticket!Records : Handled(i)
    /\ pc \in {"open", "close"} => chunk = {}
    /\ eof => cursor = N
    /\ pc \in {"open", "read", "process"} => ~eof
    /\ err # "none" => pc \in {"finish", "idle"}
    /\ err = "permanent" => Ticket!ID \in DOMAIN dead
    /\ pc = "idle" /\ status = "completed" => \A i \in Ticket!Records : Handled(i)

TicketSink == IsFiniteSet(DOMAIN processed) /\ writes <= Cardinality(DOMAIN processed)

TicketInv == Ticket!TypeOK /\ TicketRuns /\ TicketSink

LEMMA TicketBegins == StepConstants /\ Ticket!TicketAssumption /\ Ticket!Init => TicketInv
<1> SUFFICES ASSUME StepConstants, Ticket!TicketAssumption, Ticket!Init
             PROVE  TicketInv
  OBVIOUS
<1> USE DEF StepConstants
<1>1. /\ pc = "idle" /\ cursor = 0 /\ eof = FALSE /\ chunk = {} /\ ckpt = -1
      /\ cancelled = FALSE /\ err = "none" /\ queue \in Queues /\ processed = [id \in {} |-> 0]
      /\ dead = [id \in {} |-> 0] /\ attempts = [id \in Ticket!IDs |-> 0] /\ retries = 0
      /\ skips = 0 /\ writes = 0 /\ status = "none" /\ runs = 0
  BY DEF Ticket!Init, Ticket!StepInit, Ticket!NoCheckpoint
<1>2. eof \in BOOLEAN /\ cancelled \in BOOLEAN
  BY <1>1, Zenon
<1>3. DOMAIN processed = {} /\ DOMAIN dead = {}
  BY <1>1
<1>4. MaxSkips \in Nat /\ MaxRuns \in Nat
  BY DEF Ticket!TicketAssumption
<1>5. Ticket!TypeOK
  BY <1>1, <1>2, <1>3, <1>4 DEF Ticket!TypeOK, Ticket!StepTypeOK, Ticket!Errors
<1>6. TicketRuns
  BY <1>1 DEF TicketRuns
<1>7. TicketSink
  BY <1>1, <1>3, FS_EmptySet DEF TicketSink
<1> QED
  BY <1>5, <1>6, <1>7 DEF TicketInv

LEMMA TicketTypesStep ==
    ASSUME StepConstants, Ticket!TicketAssumption, Ticket!TypeOK, Ticket!Next,
           pc = "process" => cursor > 0
    PROVE  Ticket!TypeOK'
<1> USE DEF StepConstants
<1>1. /\ queue \in Queues /\ DOMAIN processed \subseteq Ticket!IDs /\ DOMAIN dead \subseteq Ticket!IDs
      /\ attempts \in [Ticket!IDs -> Nat] /\ retries \in Nat /\ skips \in 0 .. MaxSkips
      /\ writes \in Nat /\ status \in {"none", "completed", "cancelled", "failed"}
      /\ runs \in 0 .. MaxRuns /\ MaxSkips \in Nat /\ MaxRuns \in Nat
  BY DEF Ticket!TypeOK, Ticket!TicketAssumption
<1>2. /\ pc \in {"idle", "open", "read", "process", "write", "save", "close", "finish"}
      /\ cursor \in 0 .. N /\ eof \in BOOLEAN /\ chunk \in SUBSET Ticket!Records /\ ckpt \in Int
      /\ cancelled \in BOOLEAN /\ err \in Ticket!Errors
  BY DEF Ticket!TypeOK, Ticket!StepTypeOK
<1>3. eof' \in BOOLEAN /\ cancelled' \in BOOLEAN
  BY <1>2, Zenon DEF Ticket!Next, Ticket!RunStep, Ticket!StartRun, Ticket!StepBegin, Ticket!Cancel,
     Ticket!CancelContext, Ticket!NoticeCancel, Ticket!AbortIfCancelled, Ticket!Abort, Ticket!Open,
     Ticket!Restore, Ticket!Read, Ticket!ReadRecord, Ticket!ReadEnd, Ticket!ProcessAccepts,
     Ticket!Accept, Ticket!ProcessThrottled, Ticket!RetryRecord, Ticket!stepVars, Ticket!FailRecord,
     Ticket!ProcessDeadLetters, Ticket!SkipRecord, Ticket!Write, Ticket!FailWrite,
     Ticket!WroteRecord, Ticket!Close, Ticket!CloseStep, Ticket!FinishRun
<1>4. ASSUME UNCHANGED <<queue, processed, dead, status, runs>>, attempts' \in [Ticket!IDs -> Nat],
             retries' \in Nat, skips' \in 0 .. MaxSkips, UNCHANGED writes,
             pc' \in {"idle", "open", "read", "process", "write", "save", "close", "finish"},
             cursor' \in 0 .. N, chunk' \in SUBSET Ticket!Records, ckpt' \in Int, err' \in Ticket!Errors
      PROVE  Ticket!TypeOK'
  BY <1>1, <1>3, <1>4 DEF Ticket!TypeOK, Ticket!StepTypeOK
<1>5. ASSUME NEW ctxDone, NEW tickets \in Queues, Ticket!StartRun(ctxDone, tickets)
      PROVE  Ticket!TypeOK'
  <2>1. /\ queue' \in Queues /\ runs' \in 0 .. MaxRuns /\ attempts' \in [Ticket!IDs -> Nat]
        /\ skips' = 0 /\ writes' = 0
    BY <1>1, <1>5 DEF Ticket!StartRun
  <2>2. UNCHANGED <<processed, dead, retries, status, ckpt>>
    BY <1>5 DEF Ticket!StartRun, Ticket!StepBegin
  <2>3. pc' = "open" /\ cursor' = 0 /\ chunk' = {} /\ err' = "none"
    BY <1>5 DEF Ticket!StartRun, Ticket!StepBegin, Ticket!Goto
  <2> QED
    BY <1>1, <1>2, <1>3, <2>1, <2>2, <2>3 DEF Ticket!TypeOK, Ticket!StepTypeOK, Ticket!Errors
<1>6. CASE Ticket!Cancel
  BY <1>1, <1>2, <1>4, <1>6 DEF Ticket!Cancel, Ticket!CancelContext, Ticket!ticketVars
<1>7. CASE Ticket!NoticeCancel
  BY <1>1, <1>2, <1>4, <1>7 DEF Ticket!NoticeCancel, Ticket!AbortIfCancelled, Ticket!Abort, Ticket!Goto,
     Ticket!ticketVars, Ticket!Errors
<1>8. CASE Ticket!Open
  BY <1>1, <1>2, <1>4, <1>8 DEF Ticket!Open, Ticket!Restore, Ticket!Goto, Ticket!ticketVars
<1>9. CASE Ticket!Read
  BY <1>1, <1>2, <1>4, <1>9 DEF Ticket!Read, Ticket!ReadRecord, Ticket!ReadEnd, Ticket!Goto
<1>10. ASSUME Ticket!NextAttempt
       PROVE  attempts' \in [Ticket!IDs -> Nat] /\ retries' \in Nat
  <2>1. PICK id : id = Ticket!ID
    OBVIOUS
  <2>2. attempts' = [attempts EXCEPT ![id] = @ + 1] /\ retries' = retries + 1
    BY <1>10, <2>1 DEF Ticket!NextAttempt
  <2>3. \A k \in Ticket!IDs : attempts'[k] = (IF k = id THEN attempts[k] + 1 ELSE attempts[k])
    BY <1>1, <2>2
  <2>4. \A k \in Ticket!IDs : attempts'[k] \in Nat
    BY <1>1, <2>3
  <2>5. attempts' = [k \in Ticket!IDs |-> attempts'[k]]
    BY <1>1, <2>2
  <2>6. attempts' \in [Ticket!IDs -> Nat]
    BY <2>4, <2>5
  <2>7. retries' \in Nat
    BY <1>1, <2>2
  <2> QED
    BY <2>6, <2>7
<1>11. pc = "process" => cursor - 1 \in Ticket!Records
  BY <1>2 DEF Ticket!Records
<1>12. CASE Ticket!ProcessAccepts
  BY <1>1, <1>2, <1>4, <1>10, <1>11, <1>12 DEF Ticket!ProcessAccepts, Ticket!Processing, Ticket!Accept,
     Ticket!Current, Ticket!Goto
<1>13. CASE Ticket!ProcessThrottled
  BY <1>1, <1>2, <1>4, <1>10, <1>13 DEF Ticket!ProcessThrottled, Ticket!RetryRecord, Ticket!stepVars,
     Ticket!FailRecord, Ticket!Abort, Ticket!Goto, Ticket!Errors
<1>14. ASSUME NEW i \in Ticket!Records
       PROVE  queue.id[i] \in Ticket!IDs
  BY <1>1 DEF Ticket!IDs, Ticket!IDsOf
<1>15. CASE Ticket!ProcessDeadLetters
  <2>1. /\ pc = "process" /\ Ticket!NextAttempt /\ Ticket!Record(Ticket!ID, attempts[Ticket!ID] + 1)
        /\ UNCHANGED <<queue, processed, writes, status, runs>>
    BY <1>15 DEF Ticket!ProcessDeadLetters, Ticket!Processing
  <2>2. DOMAIN dead' \subseteq Ticket!IDs
    <3>1. Ticket!ID \in Ticket!IDs
      BY <1>11, <1>14, <2>1 DEF Ticket!ID, Ticket!Current
    <3> QED
      BY <1>1, <2>1, <3>1 DEF Ticket!Record
  <2>3. /\ skips' \in 0 .. MaxSkips /\ cursor' \in 0 .. N /\ chunk' \in SUBSET Ticket!Records
        /\ ckpt' \in Int /\ err' \in Ticket!Errors
        /\ pc' \in {"idle", "open", "read", "process", "write", "save", "close", "finish"}
    BY <1>1, <1>2, <1>15 DEF Ticket!ProcessDeadLetters, Ticket!SkipRecord, Ticket!FailRecord,
       Ticket!Abort, Ticket!Goto, Ticket!Errors
  <2> QED
    BY <1>1, <1>3, <1>10, <2>1, <2>2, <2>3 DEF Ticket!TypeOK, Ticket!StepTypeOK
<1>16. CASE Ticket!Write
  <2>1. /\ UNCHANGED <<queue, dead, attempts, retries, skips, status, runs>>
        /\ \E i \in chunk :
              IF queue.id[i] \in DOMAIN processed
              THEN Ticket!FailWrite(i, "duplicate") /\ UNCHANGED <<processed, writes>>
              ELSE Ticket!WroteRecord(i) /\ Ticket!Put(i) /\ writes' = writes + 1
    BY <1>16 DEF Ticket!Write
  <2>2. PICK i \in chunk :
              IF queue.id[i] \in DOMAIN processed
              THEN Ticket!FailWrite(i, "duplicate") /\ UNCHANGED <<processed, writes>>
              ELSE Ticket!WroteRecord(i) /\ Ticket!Put(i) /\ writes' = writes + 1
    BY <2>1
  <2>3. queue.id[i] \in Ticket!IDs
    BY <1>2, <1>14
  <2>4. DOMAIN processed' \subseteq Ticket!IDs /\ writes' \in Nat
    BY <1>1, <2>2, <2>3 DEF Ticket!Put
  <2>5. /\ cursor' \in 0 .. N /\ chunk' \in SUBSET Ticket!Records /\ ckpt' \in Int
        /\ err' \in Ticket!Errors
        /\ pc' \in {"idle", "open", "read", "process", "write", "save", "close", "finish"}
    BY <1>2, <2>2 DEF Ticket!FailWrite, Ticket!WroteRecord, Ticket!Abort, Ticket!Goto, Ticket!Errors
  <2> QED
    BY <1>1, <1>3, <2>1, <2>4, <2>5 DEF Ticket!TypeOK, Ticket!StepTypeOK
<1>17. CASE Ticket!Close
  BY <1>1, <1>2, <1>4, <1>17 DEF Ticket!Close, Ticket!CloseStep, Ticket!Goto, Ticket!ticketVars,
     Ticket!Errors
<1>18. CASE Ticket!FinishRun
  <2>1. status' \in {"none", "completed", "cancelled", "failed"}
    BY <1>18, StatusKinds DEF Ticket!FinishRun
  <2> QED
    BY <1>1, <1>2, <1>3, <1>18, <2>1 DEF Ticket!FinishRun, Ticket!Goto, Ticket!TypeOK, Ticket!StepTypeOK
<1> QED
  BY <1>5, <1>6, <1>7, <1>8, <1>9, <1>12, <1>13, <1>15, <1>16, <1>17, <1>18
     DEF Ticket!Next, Ticket!RunStep

LEMMA TicketRunsStep ==
    ASSUME StepConstants, Ticket!TicketAssumption, TicketInv, Ticket!Next
    PROVE  TicketRuns'
<1> USE DEF StepConstants
<1>1. /\ pc \in {"idle", "open", "read", "process", "write", "save", "close", "finish"}
      /\ cursor \in 0 .. N /\ chunk \in SUBSET Ticket!Records
  BY DEF TicketInv, Ticket!TypeOK, Ticket!StepTypeOK
<1>2. TicketRuns
  BY DEF TicketInv
<1>3. ASSUME UNCHANGED <<queue, processed, dead>>
      PROVE  \A i : Handled(i)' <=> Handled(i)
  BY <1>3 DEF Handled
\* the step stops with an error that is not about the ticket
<1>4. ASSUME NEW e, e \notin {"none", "permanent"}, Ticket!Abort(e)
      PROVE  TicketRuns'
  BY <1>2, <1>4 DEF Ticket!Abort, Ticket!Goto, TicketRuns
<1>5. ASSUME NEW ctxDone, NEW tickets \in Queues, Ticket!StartRun(ctxDone, tickets)
      PROVE  TicketRuns'
  <2>1. pc' = "open" /\ chunk' = {} /\ err' = "none" /\ ~eof'
    BY <1>5 DEF Ticket!StartRun, Ticket!StepBegin, Ticket!Goto
  <2> QED
    BY <2>1 DEF TicketRuns
<1>6. CASE Ticket!Cancel
  <2>1. UNCHANGED <<pc, cursor, eof, chunk, err, queue, processed, dead, status>>
    BY <1>6 DEF Ticket!Cancel, Ticket!CancelContext, Ticket!ticketVars
  <2> QED
    BY <1>2, <1>3, <2>1 DEF TicketRuns, Ticket!ID, Ticket!Current
<1>7. CASE Ticket!NoticeCancel
  <2>1. Ticket!Abort("cancelled")
    BY <1>7 DEF Ticket!NoticeCancel, Ticket!AbortIfCancelled
  <2> QED
    BY <1>4, <2>1
<1>8. CASE Ticket!Open
  <2>1. /\ pc = "open" /\ pc' = "read" /\ cursor' = 0
        /\ UNCHANGED <<eof, chunk, err, queue, processed, dead, status>>
    BY <1>8 DEF Ticket!Open, Ticket!Restore, Ticket!Goto, Ticket!ticketVars
  <2>2. \A i \in Ticket!Records : ~(i < 0)
    BY DEF Ticket!Records
  <2> QED
    BY <1>2, <2>1, <2>2 DEF TicketRuns
<1>9. CASE Ticket!Read
  <2>0. UNCHANGED <<queue, processed, dead, status>>
    BY <1>9 DEF Ticket!Read
  <2>1. CASE Ticket!ReadRecord
    <3>1. /\ pc = "read" /\ cursor' = cursor + 1 /\ pc' = "process" /\ UNCHANGED <<eof, chunk, err>>
      BY <2>1 DEF Ticket!ReadRecord, Ticket!Goto
    <3>2. err = "none" /\ cursor' - 1 = cursor /\ cursor' > 0
      BY <1>1, <1>2, <3>1 DEF TicketRuns
    <3> QED
      BY <1>2, <1>3, <2>0, <3>1, <3>2 DEF TicketRuns
  <2>2. CASE Ticket!ReadEnd
    <3>1. /\ pc = "read" /\ cursor >= N /\ eof' /\ pc' = (IF chunk = {} THEN "close" ELSE "write")
          /\ UNCHANGED <<cursor, chunk, err>>
      BY <2>2 DEF Ticket!ReadEnd, Ticket!Goto
    <3>2. cursor = N /\ err = "none" /\ \A i \in Ticket!Records : i < cursor
      BY <1>1, <1>2, <3>1 DEF TicketRuns, Ticket!Records
    <3>3. \A i \in Ticket!Records : Handled(i) \/ i \in chunk
      BY <1>2, <3>1, <3>2 DEF TicketRuns
    <3> QED
      BY <1>3, <2>0, <3>1, <3>2, <3>3 DEF TicketRuns
  <2> QED
    BY <1>9, <2>1, <2>2 DEF Ticket!Read
<1>10. ASSUME pc = "process"
       PROVE  /\ cursor - 1 \in Ticket!Records /\ err = "none" /\ ~eof
              /\ \A i \in Ticket!Records : i < cursor => i < cursor - 1 \/ i = cursor - 1
              /\ \A i \in Ticket!Records : i < cursor - 1 => Handled(i) \/ i \in chunk
  BY <1>1, <1>2, <1>10 DEF TicketRuns, Ticket!Records
<1>11. CASE Ticket!ProcessAccepts
  <2>1. /\ pc = "process" /\ chunk' = chunk \union {cursor - 1} /\ pc' \in {"write", "read"}
        /\ UNCHANGED <<cursor, eof, err, queue, processed, dead, status>>
    BY <1>11 DEF Ticket!ProcessAccepts, Ticket!Accept, Ticket!Processing, Ticket!Current, Ticket!Goto
  <2>2. \A i \in Ticket!Records : i < cursor' => Handled(i)' \/ i \in chunk'
    BY <1>3, <1>10, <2>1
  <2> QED
    BY <1>10, <2>1, <2>2 DEF TicketRuns
<1>12. CASE Ticket!ProcessThrottled
  <2>1. UNCHANGED <<queue, processed, dead, status>>
    BY <1>12 DEF Ticket!ProcessThrottled
  <2>2. CASE Ticket!RetryRecord
    <3>1. UNCHANGED <<pc, cursor, eof, chunk, err>>
      BY <2>2 DEF Ticket!RetryRecord, Ticket!stepVars
    <3> QED
      BY <1>2, <1>3, <2>1, <3>1 DEF TicketRuns, Ticket!ID, Ticket!Current
  <2>3. CASE Ticket!FailRecord("transient")
    <3>1. Ticket!Abort("transient")
      BY <2>3 DEF Ticket!FailRecord
    <3> QED
      BY <1>4, <3>1
  <2> QED
    BY <1>12, <2>2, <2>3 DEF Ticket!ProcessThrottled
<1>13. CASE Ticket!ProcessDeadLetters
  <2>1. /\ pc = "process" /\ Ticket!Record(Ticket!ID, attempts[Ticket!ID] + 1)
        /\ UNCHANGED <<queue, processed, status>>
        /\ Ticket!SkipRecord \/ Ticket!FailRecord("permanent")
    BY <1>13 DEF Ticket!ProcessDeadLetters, Ticket!Processing
  <2>2. DOMAIN dead' = DOMAIN dead \union {Ticket!ID}
    BY <2>1 DEF Ticket!Record
  <2>3. Ticket!ID = queue.id[cursor - 1]
    BY DEF Ticket!ID, Ticket!Current
  <2>4. \A i : Handled(i) \/ i = cursor - 1 => Handled(i)'
    BY <2>1, <2>2, <2>3 DEF Handled
  <2>5. CASE Ticket!SkipRecord
    <3>1. pc' = "read" /\ UNCHANGED <<cursor, eof, chunk, err>>
      BY <2>5 DEF Ticket!SkipRecord, Ticket!Goto
    <3>2. \A i \in Ticket!Records : i < cursor' => Handled(i)' \/ i \in chunk'
      BY <1>10, <2>1, <2>4, <3>1
    <3> QED
      BY <1>10, <2>1, <3>1, <3>2 DEF TicketRuns
  <2>6. CASE Ticket!FailRecord("permanent")
    <3>1. /\ pc' = "finish" /\ err' = "permanent" /\ chunk' = {} /\ UNCHANGED <<cursor, eof>>
      BY <2>6 DEF Ticket!FailRecord, Ticket!Abort, Ticket!Goto
    <3>2. (Ticket!ID)' = Ticket!ID
      BY <2>1, <3>1 DEF Ticket!ID, Ticket!Current
    <3> QED
      BY <1>10, <2>1, <2>2, <3>1, <3>2 DEF TicketRuns
  <2> QED
    BY <2>1, <2>5, <2>6
<1>14. CASE Ticket!Write
  <2>1. /\ UNCHANGED <<queue, dead, status>>
        /\ \E i \in chunk :
              IF queue.id[i] \in DOMAIN processed
              THEN Ticket!FailWrite(i, "duplicate") /\ UNCHANGED <<processed, writes>>
              ELSE Ticket!WroteRecord(i) /\ Ticket!Put(i) /\ writes' = writes + 1
    BY <1>14 DEF Ticket!Write
  <2>2. PICK i \in chunk :
              IF queue.id[i] \in DOMAIN processed
              THEN Ticket!FailWrite(i, "duplicate") /\ UNCHANGED <<processed, writes>>
              ELSE Ticket!WroteRecord(i) /\ Ticket!Put(i) /\ writes' = writes + 1
    BY <2>1
  <2>3. CASE Ticket!FailWrite(i, "duplicate")
    <3>1. Ticket!Abort("duplicate")
      BY <2>3 DEF Ticket!FailWrite
    <3> QED
      BY <1>4, <3>1
  <2>4. CASE Ticket!WroteRecord(i) /\ Ticket!Put(i)
    <3>1. /\ pc = "write" /\ chunk' = chunk \ {i} /\ UNCHANGED <<cursor, eof, err>>
          /\ pc' = (IF chunk' # {} THEN "write" ELSE IF eof THEN "close" ELSE "read")
      BY <2>4 DEF Ticket!WroteRecord, Ticket!Goto
    <3>2. DOMAIN processed' = DOMAIN processed \union {queue.id[i]}
      BY <2>4 DEF Ticket!Put
    <3>3. (\A k : Handled(k) => Handled(k)') /\ Handled(i)'
      BY <2>1, <3>2 DEF Handled
    <3>4. \A k \in Ticket!Records : k < cursor => Handled(k)' \/ k \in chunk'
      BY <1>2, <3>1, <3>3 DEF TicketRuns
    <3>5. err = "none" /\ (eof => cursor = N) /\ (eof => \A k \in Ticket!Records : k < cursor)
      BY <1>2, <3>1 DEF TicketRuns, Ticket!Records
    <3>6. CASE chunk' # {}
      BY <3>1, <3>4, <3>5, <3>6 DEF TicketRuns
    <3>7. CASE chunk' = {} /\ eof
      BY <3>1, <3>4, <3>5, <3>7 DEF TicketRuns
    <3>8. CASE chunk' = {} /\ ~eof
      BY <3>1, <3>4, <3>5, <3>8 DEF TicketRuns
    <3> QED
      BY <3>6, <3>7, <3>8
  <2> QED
    BY <2>2, <2>3, <2>4
<1>15. CASE Ticket!Close
  <2>1. /\ pc = "close" /\ pc' = "finish" /\ err' \in {"none", "cancelled"}
        /\ UNCHANGED <<cursor, eof, chunk, queue, processed, dead, status>>
    BY <1>15 DEF Ticket!Close, Ticket!CloseStep, Ticket!Goto, Ticket!ticketVars
  <2> QED
    BY <1>2, <1>3, <2>1 DEF TicketRuns
<1>16. CASE Ticket!FinishRun
  <2>1. /\ pc = "finish" /\ pc' = "idle"
        /\ UNCHANGED <<cursor, eof, chunk, err, queue, processed, dead>>
    BY <1>16 DEF Ticket!FinishRun, Ticket!Goto
  <2>2. status' = "completed" => err = "none"
    BY <1>16 DEF Ticket!FinishRun, Ticket!StatusOf
  <2> QED
    BY <1>2, <1>3, <2>1, <2>2 DEF TicketRuns, Ticket!ID, Ticket!Current
<1> QED
  BY <1>5, <1>6, <1>7, <1>8, <1>9, <1>11, <1>12, <1>13, <1>14, <1>15, <1>16
     DEF Ticket!Next, Ticket!RunStep

\* Put counts a ticket and stores it under a new id.
LEMMA TicketSinkStep ==
    ASSUME StepConstants, Ticket!TicketAssumption, TicketInv, Ticket!Next
    PROVE  TicketSink'
<1>1. IsFiniteSet(DOMAIN processed) /\ writes \in Nat /\ writes <= Cardinality(DOMAIN processed)
  BY DEF TicketInv, TicketSink, Ticket!TypeOK
<1>2. Cardinality(DOMAIN processed) \in Nat
  BY <1>1, FS_CardinalityType
<1>3. ASSUME UNCHANGED processed, writes' = writes \/ writes' = 0
      PROVE  TicketSink'
  BY <1>1, <1>2, <1>3 DEF TicketSink
<1>4. CASE Ticket!Write
  <2>1. PICK i \in chunk :
              IF queue.id[i] \in DOMAIN processed
              THEN Ticket!FailWrite(i, "duplicate") /\ UNCHANGED <<processed, writes>>
              ELSE Ticket!WroteRecord(i) /\ Ticket!Put(i) /\ writes' = writes + 1
    BY <1>4 DEF Ticket!Write
  <2>2. CASE queue.id[i] \in DOMAIN processed
    BY <1>3, <2>1, <2>2
  <2>3. CASE queue.id[i] \notin DOMAIN processed
    <3>1. Ticket!Put(i) /\ writes' = writes + 1
      BY <2>1, <2>3
    <3>2. DOMAIN processed' = DOMAIN processed \union {queue.id[i]}
      BY <3>1 DEF Ticket!Put
    <3>3. /\ IsFiniteSet(DOMAIN processed')
          /\ Cardinality(DOMAIN processed') = Cardinality(DOMAIN processed) + 1
      BY <1>1, <2>3, <3>2, FS_AddElement
    <3> QED
      BY <1>1, <1>2, <3>1, <3>3 DEF TicketSink
  <2> QED
    BY <2>2, <2>3
<1>5. CASE ~Ticket!Write
  BY <1>3, <1>5 DEF Ticket!Next, Ticket!RunStep, Ticket!StartRun, Ticket!Cancel, Ticket!NoticeCancel,
     Ticket!Open, Ticket!Read, Ticket!ProcessAccepts, Ticket!ProcessThrottled,
     Ticket!ProcessDeadLetters, Ticket!Close, Ticket!FinishRun, Ticket!ticketVars
<1> QED
  BY <1>4, <1>5

LEMMA TicketStep ==
    ASSUME StepConstants, Ticket!TicketAssumption, TicketInv, [Ticket!Next]_(Ticket!vars)
    PROVE  TicketInv'
<1>1. CASE Ticket!Next
  <2>1. pc = "process" => cursor > 0
    BY DEF TicketInv, TicketRuns
  <2>2. Ticket!TypeOK'
    BY <1>1, <2>1, TicketTypesStep DEF TicketInv
  <2> QED
    BY <1>1, <2>2, TicketRunsStep, TicketSinkStep DEF TicketInv
<1>2. CASE UNCHANGED Ticket!vars
  <2>1. UNCHANGED <<pc, cursor, eof, chunk, ckpt, cancelled, err, queue, processed, dead, attempts,
                    retries, skips, writes, status, runs>>
    BY <1>2 DEF Ticket!vars, Ticket!stepVars, Ticket!ticketVars
  <2>2. Ticket!TypeOK'
    <3>1. eof' \in BOOLEAN /\ cancelled' \in BOOLEAN
      BY <2>1, Zenon DEF TicketInv, Ticket!TypeOK, Ticket!StepTypeOK
    <3> QED
      BY <2>1, <3>1 DEF TicketInv, Ticket!TypeOK, Ticket!StepTypeOK
  <2>3. TicketRuns'
    BY <2>1 DEF TicketInv, TicketRuns, Handled, Ticket!ID, Ticket!Current
  <2> QED
    BY <2>1, <2>2, <2>3 DEF TicketInv, TicketSink
<1> QED
  BY <1>1, <1>2

LEMMA TicketParts ==
    ASSUME TicketInv
    PROVE  Ticket!TypeOK /\ Ticket!NoTicketIsLost /\ Ticket!WritesAreStored
<1>1. Ticket!NoTicketIsLost
  <2>1. pc = "idle" /\ status = "completed" =>
           Ticket!IDsOf(queue) \subseteq DOMAIN processed \union DOMAIN dead
    BY DEF TicketInv, TicketRuns, Handled, Ticket!IDsOf
  <2> QED
    BY <2>1 DEF TicketInv, TicketRuns, Ticket!NoTicketIsLost
<1> QED
  BY <1>1, SameSizes DEF TicketInv, TicketSink, Ticket!WritesAreStored

\* Run of the retry / dead-letter worker: between runs no ticket of the queue is lost. After
\* a completed run each one was processed or has a dead letter, and the ticket that exhausts
\* the skip budget and fails the run has one too.
THEOREM TicketsAreNotLost ==
    StepConstants /\ Ticket!TicketAssumption /\ Ticket!Spec => [](Ticket!NoTicketIsLost)
<1> SUFFICES ASSUME StepConstants, Ticket!TicketAssumption
             PROVE  Ticket!Spec => [](Ticket!NoTicketIsLost)
  OBVIOUS
<1>1. Ticket!Init => TicketInv
  BY TicketBegins
<1>2. TicketInv /\ [Ticket!Next]_(Ticket!vars) => TicketInv'
  BY TicketStep
<1>3. TicketInv => Ticket!NoTicketIsLost
  BY TicketParts
<1> QED
  BY <1>1, <1>2, <1>3, PTL DEF Ticket!Spec

\* ProcessedSink.Put refuses a stored id, so every write a run reports is a stored ticket of
\* its own, also when the queue repeats an id.
THEOREM ReportedWritesAreStored ==
    StepConstants /\ Ticket!TicketAssumption /\ Ticket!Spec => [](Ticket!WritesAreStored)
<1> SUFFICES ASSUME StepConstants, Ticket!TicketAssumption
             PROVE  Ticket!Spec => [](Ticket!WritesAreStored)
  OBVIOUS
<1>1. Ticket!Init => TicketInv
  BY TicketBegins
<1>2. TicketInv /\ [Ticket!Next]_(Ticket!vars) => TicketInv'
  BY TicketStep
<1>3. TicketInv => Ticket!WritesAreStored
  BY TicketParts
<1> QED
  BY <1>1, <1>2, <1>3, PTL DEF Ticket!Spec

--------------------------------------------------------------------------------
(* Sums over finite sets.                                                    *)

\* Induction over a set of numbers.
LEMMA Least ==
    ASSUME NEW S, S \subseteq Nat, S # {}
    PROVE  \E x \in S : \A y \in S : x <= y
<1> DEFINE Less == OpToRel(<, Nat)
<1>1. IsWellFoundedOn(Less, Nat)
  BY NatLessThanWellFounded
<1>2. \A x, y \in Nat : x < y => <<x, y>> \in Less
  BY DEF OpToRel
<1> HIDE DEF Less
<1>3. PICK x \in S : \A y \in S : ~(<<y, x>> \in Less)
  BY <1>1, WFMin
<1>4. \A y \in S : ~(y < x)
  BY <1>2, <1>3, Zenon
<1> QED
  BY <1>4

LEMMA AllNumbers ==
    ASSUME NEW S, S \subseteq Nat, 0 \in S, \A n \in S : n + 1 \in S
    PROVE  S = Nat
<1> SUFFICES ASSUME Nat \ S # {}
             PROVE  FALSE
  OBVIOUS
<1>1. PICK x \in Nat \ S : \A y \in Nat \ S : x <= y
  BY Least
<1>2. x # 0
  OBVIOUS
<1>3. x - 1 \in Nat /\ x - 1 \in S
  BY <1>1, <1>2
<1> QED
  BY <1>1, <1>3

First(s) == CHOOSE x \in s : TRUE
TakeOne(g, h, s) == IF s = {} THEN 0 ELSE h[First(s)] + g[s \ {First(s)}]
IsIter(g, h, S) == g = [s \in SUBSET S |-> TakeOne(g, h, s)]
Iter(h, S) == CHOOSE g : IsIter(g, h, S)
SumOver(h, S) == Iter(h, S)[S]

LEMMA FirstIsIn == \A s : s # {} => First(s) \in s
BY DEF First

Small(S, n) == {s \in SUBSET S : Cardinality(s) <= n}

LEMMA SmallerIs ==
    ASSUME NEW S, IsFiniteSet(S), NEW n \in Nat, NEW s \in Small(S, n + 1), s # {}
    PROVE  s \ {First(s)} \in Small(S, n)
<1>1. IsFiniteSet(s) /\ First(s) \in s
  BY FS_Subset, FirstIsIn DEF Small
<1>2. Cardinality(s \ {First(s)}) = Cardinality(s) - 1 /\ Cardinality(s) \in Nat
  BY <1>1, FS_RemoveElement, FS_CardinalityType
<1> QED
  BY <1>2 DEF Small

LEMMA IterExists ==
    ASSUME NEW h, NEW S, IsFiniteSet(S)
    PROVE  \E g : IsIter(g, h, S)
<1> DEFINE Upto(n) == \E g : g = [s \in Small(S, n) |-> TakeOne(g, h, s)]
           Good == {n \in Nat : Upto(n)}
<1>1. 0 \in Good
  <2>1. \A s \in Small(S, 0) : s = {}
    BY FS_Subset, FS_EmptySet, FS_CardinalityType DEF Small
  <2>2. PICK g : g = [s \in Small(S, 0) |-> 0]
    OBVIOUS
  <2>3. \A s \in Small(S, 0) : TakeOne(g, h, s) = 0
    BY <2>1 DEF TakeOne
  <2>4. g = [s \in Small(S, 0) |-> TakeOne(g, h, s)]
    BY <2>2, <2>3
  <2> QED
    BY <2>4
<1>2. ASSUME NEW n \in Good
      PROVE  n + 1 \in Good
  <2>1. PICK g : g = [s \in Small(S, n) |-> TakeOne(g, h, s)]
    OBVIOUS
  <2>2. PICK f : f = [s \in Small(S, n + 1) |-> TakeOne(g, h, s)]
    OBVIOUS
  <2>3. Small(S, n) \subseteq Small(S, n + 1)
    BY FS_Subset, FS_CardinalityType DEF Small
  <2>4. \A s \in Small(S, n) : f[s] = g[s]
    BY <2>1, <2>2, <2>3
  <2>5. ASSUME NEW s \in Small(S, n + 1)
        PROVE  TakeOne(f, h, s) = TakeOne(g, h, s)
    <3>1. s # {} => s \ {First(s)} \in Small(S, n)
      BY SmallerIs
    <3> QED
      BY <2>4, <3>1 DEF TakeOne
  <2>6. f = [s \in Small(S, n + 1) |-> TakeOne(f, h, s)]
    BY <2>2, <2>5
  <2> QED
    BY <2>6
<1>3. Good = Nat
  BY <1>1, <1>2, AllNumbers
<1>4. Cardinality(S) \in Nat
  BY FS_CardinalityType
<1>5. Small(S, Cardinality(S)) = SUBSET S
  BY FS_Subset DEF Small
<1>6. Upto(Cardinality(S))
  BY <1>3, <1>4
<1>7. PICK g : g = [s \in Small(S, Cardinality(S)) |-> TakeOne(g, h, s)]
  BY <1>6
<1>8. g = [s \in SUBSET S |-> TakeOne(g, h, s)]
  BY <1>5, <1>7
<1> QED
  BY <1>8 DEF IsIter

LEMMA IterIs == ASSUME NEW h, NEW S, IsFiniteSet(S) PROVE IsIter(Iter(h, S), h, S)
BY IterExists DEF Iter

LEMMA IterAgrees ==
    ASSUME NEW h, NEW T, IsFiniteSet(T), NEW S \in SUBSET T
    PROVE  \A s \in SUBSET S : Iter(h, S)[s] = Iter(h, T)[s]
<1> DEFINE Good == {n \in Nat : \A s \in Small(S, n) : Iter(h, S)[s] = Iter(h, T)[s]}
<1>1. IsFiniteSet(S) /\ IsIter(Iter(h, S), h, S) /\ IsIter(Iter(h, T), h, T)
  BY FS_Subset, IterIs
<1>2. \A s \in SUBSET S : /\ Iter(h, S)[s] = TakeOne(Iter(h, S), h, s)
                          /\ Iter(h, T)[s] = TakeOne(Iter(h, T), h, s)
  BY <1>1 DEF IsIter
<1>3. 0 \in Good
  <2>1. \A s \in Small(S, 0) : s = {}
    BY <1>1, FS_Subset, FS_EmptySet, FS_CardinalityType DEF Small
  <2> QED
    BY <1>2, <2>1 DEF TakeOne
<1>4. ASSUME NEW n \in Good
      PROVE  n + 1 \in Good
  <2> SUFFICES ASSUME NEW s \in Small(S, n + 1)
               PROVE  Iter(h, S)[s] = Iter(h, T)[s]
    OBVIOUS
  <2>1. s # {} => s \ {First(s)} \in Small(S, n)
    BY <1>1, SmallerIs
  <2>2. s # {} => Iter(h, S)[s \ {First(s)}] = Iter(h, T)[s \ {First(s)}]
    BY <2>1
  <2>3. TakeOne(Iter(h, S), h, s) = TakeOne(Iter(h, T), h, s)
    BY <2>2 DEF TakeOne
  <2>4. s \in SUBSET S
    BY DEF Small
  <2> QED
    BY <1>2, <2>3, <2>4
<1>5. Good = Nat
  BY <1>3, <1>4, AllNumbers
<1>6. ASSUME NEW s \in SUBSET S
      PROVE  Iter(h, S)[s] = Iter(h, T)[s]
  <2>1. Cardinality(s) \in Nat /\ s \in Small(S, Cardinality(s))
    BY <1>1, FS_Subset, FS_CardinalityType DEF Small
  <2> QED
    BY <1>5, <2>1
<1> QED
  BY <1>6

LEMMA SumStep ==
    ASSUME NEW h, NEW S, IsFiniteSet(S)
    PROVE  /\ S = {} => SumOver(h, S) = 0
           /\ S # {} => First(S) \in S /\ SumOver(h, S) = h[First(S)] + SumOver(h, S \ {First(S)})
<1>1. Iter(h, S)[S] = TakeOne(Iter(h, S), h, S)
  <2>1. IsIter(Iter(h, S), h, S)
    BY IterIs
  <2>2. \A s \in SUBSET S : Iter(h, S)[s] = TakeOne(Iter(h, S), h, s)
    BY <2>1 DEF IsIter
  <2> QED
    BY <2>2
<1>2. S # {} => Iter(h, S \ {First(S)})[S \ {First(S)}] = Iter(h, S)[S \ {First(S)}]
  BY IterAgrees
<1> QED
  BY <1>1, <1>2, FirstIsIn DEF SumOver, TakeOne

LEMMA SumIsNumber ==
    ASSUME NEW S, IsFiniteSet(S), NEW h, \A x \in S : h[x] \in Nat
    PROVE  SumOver(h, S) \in Nat
<1> DEFINE Good == {n \in Nat : \A s \in Small(S, n) : SumOver(h, s) \in Nat}
<1>1. \A s \in SUBSET S : IsFiniteSet(s)
  BY FS_Subset
<1>2. 0 \in Good
  <2>1. \A s \in Small(S, 0) : s = {}
    BY <1>1, FS_Subset, FS_EmptySet, FS_CardinalityType DEF Small
  <2>2. SumOver(h, {}) = 0
    BY FS_EmptySet, SumStep
  <2> QED
    BY <2>1, <2>2
<1>3. ASSUME NEW n \in Good
      PROVE  n + 1 \in Good
  <2> SUFFICES ASSUME NEW s \in Small(S, n + 1)
               PROVE  SumOver(h, s) \in Nat
    OBVIOUS
  <2>1. s \in SUBSET S /\ IsFiniteSet(s)
    BY <1>1 DEF Small
  <2>2. s # {} => SumOver(h, s \ {First(s)}) \in Nat
    BY SmallerIs
  <2>3. CASE s = {}
    <3>1. SumOver(h, s) = 0
      BY <2>1, <2>3, SumStep
    <3> QED
      BY <3>1
  <2>4. CASE s # {}
    <3>1. First(s) \in s /\ SumOver(h, s) = h[First(s)] + SumOver(h, s \ {First(s)})
      BY <2>1, <2>4, SumStep
    <3>2. h[First(s)] \in Nat
      BY <2>1, <3>1
    <3> QED
      BY <2>2, <2>4, <3>1, <3>2
  <2> QED
    BY <2>3, <2>4
<1>4. Good = Nat
  BY <1>2, <1>3, AllNumbers
<1>5. Cardinality(S) \in Nat /\ S \in Small(S, Cardinality(S))
  BY FS_CardinalityType DEF Small
<1> QED
  BY <1>4, <1>5

\* The order in which the elements are taken does not matter.
LEMMA SumAdds ==
    ASSUME NEW T, IsFiniteSet(T), NEW h, \A x \in T : h[x] \in Nat,
           NEW S \in SUBSET T, NEW x \in T \ S
    PROVE  SumOver(h, S \union {x}) = SumOver(h, S) + h[x]
<1> DEFINE Good == {n \in Nat : \A s \in Small(T, n) : \A y \in T \ s :
                                   SumOver(h, s \union {y}) = SumOver(h, s) + h[y]}
<1>1. \A s \in SUBSET T : IsFiniteSet(s) /\ SumOver(h, s) \in Nat
  <2>1. ASSUME NEW s \in SUBSET T
        PROVE  IsFiniteSet(s) /\ SumOver(h, s) \in Nat
    BY FS_Subset, SumIsNumber
  <2> QED
    BY <2>1
<1>2. 0 \in Good
  <2> SUFFICES ASSUME NEW s \in Small(T, 0), NEW y \in T \ s
               PROVE  SumOver(h, s \union {y}) = SumOver(h, s) + h[y]
    OBVIOUS
  <2>1. s = {} /\ IsFiniteSet(s)
    BY <1>1, FS_EmptySet, FS_CardinalityType DEF Small
  <2>2. s \union {y} = {y} /\ {y} \in SUBSET T
    BY <2>1
  <2>3. First({y}) = y /\ {y} \ {y} = {}
    BY FirstIsIn
  <2>4. SumOver(h, {y}) = h[y] + SumOver(h, {})
    BY <1>1, <2>2, <2>3, SumStep
  <2>5. SumOver(h, {}) = 0 /\ h[y] \in Nat
    BY FS_EmptySet, SumStep
  <2> QED
    BY <2>1, <2>2, <2>4, <2>5
<1>3. ASSUME NEW n \in Good
      PROVE  n + 1 \in Good
  <2> SUFFICES ASSUME NEW s \in Small(T, n + 1), NEW y \in T \ s
               PROVE  SumOver(h, s \union {y}) = SumOver(h, s) + h[y]
    OBVIOUS
  <2>1. PICK all : all = s \union {y}
    OBVIOUS
  <2>2. all \in SUBSET T /\ s \in SUBSET T /\ all # {} /\ all \ {y} = s
    BY <2>1 DEF Small
  <2>3. PICK z : z = First(all)
    OBVIOUS
  <2>4. z \in all /\ SumOver(h, all) = h[z] + SumOver(h, all \ {z})
    BY <1>1, <2>2, <2>3, SumStep
  <2>5. CASE z = y
    <3>1. SumOver(h, all) = h[y] + SumOver(h, s) /\ h[y] \in Nat /\ SumOver(h, s) \in Nat
      BY <1>1, <2>2, <2>4, <2>5
    <3> QED
      BY <2>1, <3>1
  <2>6. CASE z # y
    <3>1. z \in s /\ z \in T
      BY <2>1, <2>2, <2>4, <2>6
    <3>2. PICK rest : rest = s \ {z}
      OBVIOUS
    <3>3. rest \in Small(T, n)
      <4>1. IsFiniteSet(s) /\ Cardinality(s) <= n + 1
        BY <1>1, <2>2 DEF Small
      <4>2. Cardinality(rest) = Cardinality(s) - 1 /\ Cardinality(s) \in Nat
        BY <3>1, <3>2, <4>1, FS_RemoveElement, FS_CardinalityType
      <4> QED
        BY <2>2, <3>2, <4>1, <4>2 DEF Small
    <3>4. all \ {z} = rest \union {y} /\ y \in T \ rest
      BY <2>1, <2>6, <3>2
    <3>5. rest \union {z} = s /\ z \in T \ rest
      BY <3>1, <3>2
    <3>6. SumOver(h, rest \union {y}) = SumOver(h, rest) + h[y]
      BY <3>3, <3>4
    <3>7. SumOver(h, rest \union {z}) = SumOver(h, rest) + h[z]
      BY <3>3, <3>5
    <3>8. SumOver(h, all \ {z}) = SumOver(h, rest) + h[y] /\ SumOver(h, s) = SumOver(h, rest) + h[z]
      BY <3>4, <3>5, <3>6, <3>7
    <3>9. SumOver(h, rest) \in Nat /\ h[y] \in Nat /\ h[z] \in Nat
      BY <1>1, <2>2, <3>1, <3>2
    <3> QED
      BY <2>1, <2>4, <3>8, <3>9
  <2> QED
    BY <2>5, <2>6
<1>4. Good = Nat
  BY <1>2, <1>3, AllNumbers
<1>5. Cardinality(S) \in Nat /\ S \in Small(T, Cardinality(S))
  BY <1>1, FS_CardinalityType DEF Small
<1> QED
  BY <1>4, <1>5

--------------------------------------------------------------------------------
(* The order placement.                                                      *)

\* The quantity of product p in some lines, and in the lines of a set of orders.
Quantity(lines, p) ==
    Placing!MapThenSumSet(LAMBDA i : lines[i].quantity, {i \in DOMAIN lines : lines[i].product = p})
SoldIn(orders, p) == Placing!MapThenSumSet(LAMBDA o : Quantity(o.lines, p), orders)

\* What the lines cost.
Cost(lines) ==
    Placing!MapThenSumSet(LAMBDA i : lines[i].quantity * UnitPrice[lines[i].product], DOMAIN lines)

LEMMA QuantityIsSum ==
    ASSUME NEW lines, NEW p
    PROVE  Quantity(lines, p) = SumOver([i \in DOMAIN lines |-> lines[i].quantity],
                                        {i \in DOMAIN lines : lines[i].product = p})
<1> DEFINE S == {i \in DOMAIN lines : lines[i].product = p}
           h == [i \in DOMAIN lines |-> lines[i].quantity]
           G(g) == [s \in SUBSET S |->
                      IF s = {} THEN 0
                      ELSE lines[CHOOSE x \in s : TRUE].quantity + g[s \ {CHOOSE x \in s : TRUE}]]
<1>1. Quantity(lines, p) = (CHOOSE g : g = G(g))[S]
  BY Zenon DEF Quantity, Placing!MapThenSumSet, Placing!MapThenFoldSet
<1>2. ASSUME NEW g, NEW s \in SUBSET S
      PROVE  TakeOne(g, h, s) =
               IF s = {} THEN 0
               ELSE lines[CHOOSE x \in s : TRUE].quantity + g[s \ {CHOOSE x \in s : TRUE}]
  <2>1. s # {} => First(s) \in DOMAIN lines
    BY FirstIsIn
  <2>2. s # {} => h[First(s)] = lines[First(s)].quantity
    BY <2>1
  <2>3. CASE s = {}
    BY <2>3 DEF TakeOne
  <2>4. CASE s # {}
    <3>1. TakeOne(g, h, s) = lines[First(s)].quantity + g[s \ {First(s)}]
      BY <2>2, <2>4 DEF TakeOne
    <3> QED
      BY <2>4, <3>1 DEF First
  <2> QED
    BY <2>3, <2>4
<1>3. \A g : G(g) = [s \in SUBSET S |-> TakeOne(g, h, s)]
  BY <1>2
<1>4. \A g : g = G(g) <=> IsIter(g, h, S)
  BY <1>3 DEF IsIter
<1> HIDE DEF G, h, S
<1>5. (CHOOSE g : g = G(g)) = (CHOOSE g : IsIter(g, h, S))
  BY <1>4, Zenon
<1> QED
  BY <1>1, <1>5 DEF SumOver, Iter, h, S

LEMMA CostIsSum ==
    ASSUME NEW lines
    PROVE  Cost(lines) = SumOver([i \in DOMAIN lines |-> lines[i].quantity * UnitPrice[lines[i].product]],
                                 DOMAIN lines)
<1> DEFINE S == DOMAIN lines
           h == [i \in DOMAIN lines |-> lines[i].quantity * UnitPrice[lines[i].product]]
           F(x) == lines[x].quantity * UnitPrice[lines[x].product]
           G(g) == [s \in SUBSET S |->
                      IF s = {} THEN 0
                      ELSE F(CHOOSE x \in s : TRUE) + g[s \ {CHOOSE x \in s : TRUE}]]
<1>1. Cost(lines) = (CHOOSE g : g = G(g))[S]
  BY Zenon DEF Cost, Placing!MapThenSumSet, Placing!MapThenFoldSet
<1> HIDE DEF F
<1>2. ASSUME NEW g, NEW s \in SUBSET S
      PROVE  TakeOne(g, h, s) =
               IF s = {} THEN 0
               ELSE F(CHOOSE x \in s : TRUE) + g[s \ {CHOOSE x \in s : TRUE}]
  <2>1. s # {} => First(s) \in DOMAIN lines
    BY FirstIsIn
  <2>2. s # {} => h[First(s)] = F(First(s))
    BY <2>1 DEF F
  <2> HIDE DEF h
  <2>3. CASE s = {}
    BY <2>3 DEF TakeOne
  <2>4. CASE s # {}
    <3>1. TakeOne(g, h, s) = F(First(s)) + g[s \ {First(s)}]
      BY <2>2, <2>4 DEF TakeOne
    <3> QED
      BY <2>4, <3>1 DEF First
  <2> QED
    BY <2>3, <2>4
<1>3. \A g : G(g) = [s \in SUBSET S |-> TakeOne(g, h, s)]
  BY <1>2
<1>4. \A g : g = G(g) <=> IsIter(g, h, S)
  BY <1>3 DEF IsIter
<1> HIDE DEF G, h, S
<1>5. (CHOOSE g : g = G(g)) = (CHOOSE g : IsIter(g, h, S))
  BY <1>4, Zenon
<1> QED
  BY <1>1, <1>5 DEF SumOver, Iter, h, S

LEMMA SoldIsSum ==
    ASSUME NEW T, NEW S \in SUBSET T, NEW p
    PROVE  SoldIn(S, p) = SumOver([o \in T |-> Quantity(o.lines, p)], S)
<1> DEFINE h == [o \in T |-> Quantity(o.lines, p)]
           F(o) == Quantity(o.lines, p)
           G(g) == [s \in SUBSET S |->
                      IF s = {} THEN 0
                      ELSE F(CHOOSE x \in s : TRUE) + g[s \ {CHOOSE x \in s : TRUE}]]
<1>1. SoldIn(S, p) = (CHOOSE g : g = G(g))[S]
  BY Zenon DEF SoldIn, Placing!MapThenSumSet, Placing!MapThenFoldSet
<1> HIDE DEF F
<1>2. ASSUME NEW g, NEW s \in SUBSET S
      PROVE  TakeOne(g, h, s) =
               IF s = {} THEN 0
               ELSE F(CHOOSE x \in s : TRUE) + g[s \ {CHOOSE x \in s : TRUE}]
  <2>1. s # {} => First(s) \in T
    BY FirstIsIn
  <2>2. s # {} => h[First(s)] = F(First(s))
    BY <2>1 DEF F
  <2> HIDE DEF h
  <2>3. CASE s = {}
    BY <2>3 DEF TakeOne
  <2>4. CASE s # {}
    <3>1. TakeOne(g, h, s) = F(First(s)) + g[s \ {First(s)}]
      BY <2>2, <2>4 DEF TakeOne
    <3> QED
      BY <2>4, <3>1 DEF First
  <2> QED
    BY <2>3, <2>4
<1>3. \A g : G(g) = [s \in SUBSET S |-> TakeOne(g, h, s)]
  BY <1>2
<1>4. \A g : g = G(g) <=> IsIter(g, h, S)
  BY <1>3 DEF IsIter
<1> HIDE DEF G, h
<1>5. (CHOOSE g : g = G(g)) = (CHOOSE g : IsIter(g, h, S))
  BY <1>4, Zenon
<1> QED
  BY <1>1, <1>5 DEF SumOver, Iter, h

LEMMA LineTypes ==
    ASSUME NEW lines \in Seq(Placing!Lines), NEW i \in DOMAIN lines
    PROVE  lines[i].quantity \in Nat /\ lines[i].product \in Nat
<1>1. lines[i] \in Placing!Lines
  <2>1. i \in 1 .. Len(lines)
    OBVIOUS
  <2> HIDE DEF Placing!Lines
  <2> QED
    BY <2>1
<1> QED
  BY <1>1 DEF Placing!Lines

LEMMA QuantityFacts ==
    ASSUME NEW lines \in Seq(Placing!Lines), NEW p
    PROVE  /\ Quantity(lines, p) \in Nat
           /\ (\A i \in DOMAIN lines : lines[i].product # p) => Quantity(lines, p) = 0
<1> DEFINE S == {i \in DOMAIN lines : lines[i].product = p}
           h == [i \in DOMAIN lines |-> lines[i].quantity]
<1>1. IsFiniteSet(DOMAIN lines) /\ S \in SUBSET DOMAIN lines
  <2>1. DOMAIN lines = 1 .. Len(lines) /\ Len(lines) \in Nat
    OBVIOUS
  <2> QED
    BY <2>1, FS_Interval
<1>2. IsFiniteSet(S)
  BY <1>1, FS_Subset
<1>3. \A i \in S : h[i] \in Nat
  BY LineTypes
<1>4. Quantity(lines, p) = SumOver(h, S)
  BY QuantityIsSum
<1>5. (\A i \in DOMAIN lines : lines[i].product # p) => S = {}
  OBVIOUS
<1> HIDE DEF S, h
<1>6. SumOver(h, S) \in Nat
  BY <1>2, <1>3, SumIsNumber
<1>7. S = {} => SumOver(h, S) = 0
  BY <1>2, SumStep
<1> QED
  BY <1>4, <1>5, <1>6, <1>7

LEMMA CostIsNumber ==
    ASSUME NEW lines \in Seq(Placing!Lines), UnitPrice \in [Products -> Nat],
           \A i \in DOMAIN lines : lines[i].product \in Products
    PROVE  Cost(lines) \in Nat
<1> DEFINE S == DOMAIN lines
           h == [i \in DOMAIN lines |-> lines[i].quantity * UnitPrice[lines[i].product]]
<1>1. IsFiniteSet(S)
  <2>1. DOMAIN lines = 1 .. Len(lines) /\ Len(lines) \in Nat
    OBVIOUS
  <2> QED
    BY <2>1, FS_Interval
<1>2. \A i \in S : h[i] \in Nat
  <2>1. ASSUME NEW i \in S
        PROVE  h[i] \in Nat
    <3>1. lines[i].quantity \in Nat /\ UnitPrice[lines[i].product] \in Nat
      BY LineTypes
    <3>2. \A a, b \in Nat : a * b \in Nat
      OBVIOUS
    <3>3. h[i] = lines[i].quantity * UnitPrice[lines[i].product]
      OBVIOUS
    <3> QED
      BY <3>1, <3>2, <3>3
  <2> QED
    BY <2>1
<1>3. Cost(lines) = SumOver(h, S)
  BY CostIsSum
<1> HIDE DEF S, h
<1> QED
  BY <1>1, <1>2, <1>3, SumIsNumber

\* One more order: what was sold grows by its quantities.
LEMMA OneMoreSold ==
    ASSUME NEW orders, IsFiniteSet(orders), \A o \in orders : o.lines \in Seq(Placing!Lines),
           NEW new, new \notin orders, new.lines \in Seq(Placing!Lines), NEW p
    PROVE  /\ SoldIn(orders \union {new}, p) = SoldIn(orders, p) + Quantity(new.lines, p)
           /\ SoldIn(orders, p) \in Nat
<1> DEFINE all == orders \union {new}
           h == [o \in all |-> Quantity(o.lines, p)]
<1>1. IsFiniteSet(all)
  BY FS_AddElement
<1>2. \A o \in all : h[o] \in Nat
  BY QuantityFacts
<1>3. SoldIn(orders, p) = SumOver(h, orders) /\ SoldIn(all, p) = SumOver(h, all)
  BY SoldIsSum
<1>4. h[new] = Quantity(new.lines, p)
  OBVIOUS
<1>5. orders \in SUBSET all /\ new \in all \ orders
  OBVIOUS
<1> HIDE DEF h, all
<1>6. SumOver(h, orders \union {new}) = SumOver(h, orders) + h[new]
  BY <1>1, <1>2, <1>5, SumAdds
<1>7. SumOver(h, orders) \in Nat
  BY <1>2, <1>5, SumIsNumber
<1> QED
  BY <1>3, <1>4, <1>6, <1>7 DEF all

--------------------------------------------------------------------------------
ProductsOf(lines) == {lines[i].product : i \in DOMAIN lines}

LEMMA PlacingSums ==
    /\ \A r, p : Placing!Demand(r, p) = Quantity(want[r].lines, p)
    /\ \A p : Placing!Sold(p) = SoldIn(placed, p)
    /\ \A r : Placing!Total(r) = Cost(want[r].lines)
    /\ \A r : Placing!ProductIDs(r) = ProductsOf(want[r].lines)
<1>1. \A r, p : Placing!Demand(r, p) = Quantity(want[r].lines, p)
  BY Zenon DEF Placing!Demand, Placing!Indices, Quantity
<1>2. \A p : Placing!Sold(p) = SoldIn(placed, p)
  BY Zenon DEF Placing!Sold, SoldIn, Quantity
<1>3. \A r : Placing!Total(r) = Cost(want[r].lines)
  BY Zenon DEF Placing!Total, Placing!Indices, Cost
<1>4. \A r : Placing!ProductIDs(r) = ProductsOf(want[r].lines)
  BY Zenon DEF Placing!ProductIDs, Placing!Indices, ProductsOf
<1> QED
  BY <1>1, <1>2, <1>3, <1>4

PlacingLabels == {"idle", "lock", "debit", "insert", "payment", "commit", "return"}

PlacingTypes ==
    /\ stage \in [Requests -> PlacingLabels]
    /\ want \in [Requests -> Placements \union {Placing!NoWant}]
    /\ locked \in [Requests -> SUBSET Products]
    /\ expired \in [Requests -> BOOLEAN]
    /\ outcome \in [Requests -> Placing!Outcomes]
    /\ stock \in [Products -> Nat]
    /\ \A o \in placed : o.lines \in Seq(Placing!Lines) /\ o.total \in Nat
    /\ IsFiniteSet(placed)

\* The order of a caller is stored.
IsStored(r) ==
    \E o \in placed : /\ o.order = want[r].order /\ o.lines = want[r].lines
                      /\ o.total = Cost(want[r].lines)

\* Where a transaction stands: it holds the rows of its products from the debits on, so
\* the stock it saw stays; from the insert of the order on its order id is its own.
PlacingCaller(r) ==
    /\ stage[r] \in {"debit", "insert", "payment", "commit"} =>
          ProductsOf(want[r].lines) \intersect Products \subseteq locked[r]
    /\ stage[r] \in {"insert", "payment", "commit"} =>
          /\ ProductsOf(want[r].lines) \subseteq Products
          /\ \A p \in ProductsOf(want[r].lines) : Quantity(want[r].lines, p) <= stock[p]
    /\ stage[r] \in {"payment", "commit"} => \A o \in placed : o.order # want[r].order
    /\ stage[r] = "commit" => ~want[r].reject
    /\ stage[r] # "return" => outcome[r] = "none"
    /\ outcome[r] = "placed" => IsStored(r)

\* No row and no open order id has two owners.
PlacingApart(q, r) ==
    /\ locked[q] \intersect locked[r] = {}
    /\ stage[q] \in {"payment", "commit"} /\ stage[r] \in {"payment", "commit"}
          => want[q].order # want[r].order

PlacingStock ==
    /\ \A p \in Products : stock[p] + SoldIn(placed, p) = Stock[p]
    /\ \A o \in placed : ~o.reject
    /\ \A o, p \in placed : o.order = p.order => o = p

PlacingInv ==
    /\ PlacingTypes
    /\ \A r \in Requests : PlacingCaller(r)
    /\ \A q, r \in Requests : q # r => PlacingApart(q, r)
    /\ PlacingStock

LEMMA WantTypes ==
    ASSUME Placing!PlacementAssumption, NEW w \in Placements \union {Placing!NoWant}
    PROVE  w.lines \in Seq(Placing!Lines)
<1>1. CASE w \in Placements
  BY <1>1 DEF Placing!PlacementAssumption
<1>2. CASE w = Placing!NoWant
  <2>1. w.lines = <<>>
    BY <1>2 DEF Placing!NoWant
  <2> QED
    BY <2>1
<1> QED
  BY <1>1, <1>2

LEMMA PlacingBegins ==
    Placing!PlacementAssumption /\ Placing!Init => PlacingInv
<1> SUFFICES ASSUME Placing!PlacementAssumption, Placing!Init
             PROVE  PlacingInv
  OBVIOUS
<1>1. /\ stage = [r \in Requests |-> "idle"] /\ want = [r \in Requests |-> Placing!NoWant]
      /\ locked = [r \in Requests |-> {}] /\ outcome = [r \in Requests |-> "none"]
      /\ stock = Stock /\ placed = {}
  BY DEF Placing!Init
<1>2. expired \in [Requests -> BOOLEAN]
  <2>1. expired = [r \in Requests |-> FALSE]
    BY DEF Placing!Init
  <2> QED
    BY <2>1, Zenon
<1>3. Stock \in [Products -> Nat]
  BY DEF Placing!PlacementAssumption
<1>4. PlacingTypes
  BY <1>1, <1>2, <1>3, FS_EmptySet DEF PlacingTypes, PlacingLabels, Placing!Outcomes
<1>5. \A r \in Requests : PlacingCaller(r)
  BY <1>1 DEF PlacingCaller
<1>6. \A q, r \in Requests : q # r => PlacingApart(q, r)
  BY <1>1 DEF PlacingApart
<1>7. PlacingStock
  <2>1. \A p : SoldIn({}, p) = 0
    <3>1. ASSUME NEW p
          PROVE  SoldIn({}, p) = 0
      <4>1. SoldIn({}, p) = SumOver([o \in {} |-> Quantity(o.lines, p)], {})
        BY SoldIsSum
      <4>2. SumOver([o \in {} |-> Quantity(o.lines, p)], {}) = 0
        BY FS_EmptySet, SumStep
      <4> QED
        BY <4>1, <4>2
    <3> QED
      BY <3>1
  <2> QED
    BY <1>1, <1>3, <2>1 DEF PlacingStock
<1> QED
  BY <1>4, <1>5, <1>6, <1>7 DEF PlacingInv

\* A caller moves and the committed tables stay as they are.
LEMMA PlacingMoves ==
    ASSUME PlacingInv, UNCHANGED <<stock, placed>>, NEW r \in Requests,
           stage' \in [Requests -> PlacingLabels], expired' \in [Requests -> BOOLEAN],
           want' \in [Requests -> Placements \union {Placing!NoWant}],
           locked' \in [Requests -> SUBSET Products], outcome' \in [Requests -> Placing!Outcomes],
           \A q \in Requests : q # r => /\ stage'[q] = stage[q] /\ want'[q] = want[q]
                                        /\ locked'[q] = locked[q] /\ outcome'[q] = outcome[q],
           PlacingCaller(r)',
           \A q \in Requests : q # r => PlacingApart(q, r)'
    PROVE  PlacingInv'
<1>1. PlacingTypes'
  BY DEF PlacingInv, PlacingTypes
<1>2. ASSUME NEW q \in Requests, q # r
      PROVE  PlacingCaller(q)'
  <2>1. PlacingCaller(q)
    BY DEF PlacingInv
  <2>2. /\ stage'[q] = stage[q] /\ want'[q] = want[q] /\ locked'[q] = locked[q]
        /\ outcome'[q] = outcome[q] /\ stock' = stock /\ placed' = placed
    BY <1>2
  <2>3. IsStored(q) => IsStored(q)'
    BY <2>2 DEF IsStored
  <2> QED
    BY <2>1, <2>2, <2>3 DEF PlacingCaller
<1>3. ASSUME NEW p \in Requests, NEW q \in Requests, p # q
      PROVE  PlacingApart(p, q)'
  <2>1. CASE p # r /\ q # r
    <3>1. PlacingApart(p, q)
      BY <1>3 DEF PlacingInv
    <3> QED
      BY <2>1, <3>1 DEF PlacingApart
  <2>2. CASE q = r
    BY <1>3, <2>2
  <2>3. CASE p = r
    <3>1. PlacingApart(q, r)'
      BY <1>3, <2>3
    <3> QED
      BY <2>3, <3>1 DEF PlacingApart
  <2> QED
    BY <2>1, <2>2, <2>3
<1>4. PlacingStock'
  BY DEF PlacingInv, PlacingStock
<1> QED
  BY <1>1, <1>2, <1>3, <1>4 DEF PlacingInv

\* PlaceOrder returns without having changed the tables.
LEMMA PlacingReturns ==
    ASSUME PlacingInv, UNCHANGED <<stock, placed>>, NEW r \in Requests,
           NEW x \in Placing!Outcomes \ {"placed"}, Placing!Return(r, x)
    PROVE  PlacingInv'
<1>1. /\ outcome' = [outcome EXCEPT ![r] = x] /\ locked' = [locked EXCEPT ![r] = {}]
      /\ stage' = [stage EXCEPT ![r] = "return"] /\ want' = want /\ expired' = expired
  BY DEF Placing!Return, Placing!Goto
<1>2. PlacingTypes
  BY DEF PlacingInv
<1>3. /\ stage' \in [Requests -> PlacingLabels] /\ outcome' \in [Requests -> Placing!Outcomes]
      /\ want' \in [Requests -> Placements \union {Placing!NoWant}]
      /\ locked' \in [Requests -> SUBSET Products] /\ expired' \in [Requests -> BOOLEAN]
  BY <1>1, <1>2 DEF PlacingTypes, PlacingLabels
<1>4. /\ stage'[r] = "return" /\ outcome'[r] = x /\ locked'[r] = {} /\ want'[r] = want[r]
      /\ \A q \in Requests : q # r => /\ stage'[q] = stage[q] /\ want'[q] = want[q]
                                      /\ locked'[q] = locked[q] /\ outcome'[q] = outcome[q]
  BY <1>1, <1>2 DEF PlacingTypes
<1>5. PlacingCaller(r)'
  BY <1>4 DEF PlacingCaller
<1>6. \A q \in Requests : q # r => PlacingApart(q, r)'
  BY <1>4 DEF PlacingApart
<1> QED
  BY <1>3, <1>4, <1>5, <1>6, PlacingMoves

\* A transaction goes on to its next statement.
LEMMA PlacingGoesOn ==
    ASSUME PlacingInv, UNCHANGED <<stock, placed, want, locked, expired, outcome>>,
           NEW r \in Requests, NEW label \in PlacingLabels \ {"return"}, Placing!Goto(r, label),
           stage[r] # "return", PlacingCaller(r)',
           label \in {"payment", "commit"} =>
              \A q \in Requests : q # r /\ stage[q] \in {"payment", "commit"} =>
                                     want[q].order # want[r].order
    PROVE  PlacingInv'
<1>1. stage' = [stage EXCEPT ![r] = label]
  BY DEF Placing!Goto
<1>2. PlacingTypes
  BY DEF PlacingInv
<1>3. /\ stage' \in [Requests -> PlacingLabels] /\ outcome' \in [Requests -> Placing!Outcomes]
      /\ want' \in [Requests -> Placements \union {Placing!NoWant}]
      /\ locked' \in [Requests -> SUBSET Products] /\ expired' \in [Requests -> BOOLEAN]
  BY <1>1, <1>2 DEF PlacingTypes
<1>4. /\ stage'[r] = label
      /\ \A q \in Requests : q # r => /\ stage'[q] = stage[q] /\ want'[q] = want[q]
                                      /\ locked'[q] = locked[q] /\ outcome'[q] = outcome[q]
  BY <1>1, <1>2 DEF PlacingTypes
<1>5. ASSUME NEW q \in Requests, q # r
      PROVE  PlacingApart(q, r)'
  <2>1. PlacingApart(q, r)
    BY <1>5 DEF PlacingInv
  <2> QED
    BY <1>4, <1>5, <2>1 DEF PlacingApart
<1> QED
  BY <1>3, <1>4, <1>5, PlacingMoves

\* The commit: the stock and the order change together.
LEMMA PlacingCommits ==
    ASSUME Placing!PlacementAssumption, PlacingInv, NEW r \in Requests, stage[r] = "commit",
           NEW x \in {"placed", "error"}, Placing!CommitTables(r), Placing!Return(r, x)
    PROVE  PlacingInv' /\ placed \subseteq placed'
<1>1. /\ outcome' = [outcome EXCEPT ![r] = x] /\ locked' = [locked EXCEPT ![r] = {}]
      /\ stage' = [stage EXCEPT ![r] = "return"] /\ want' = want /\ expired' = expired
  BY DEF Placing!Return, Placing!Goto
<1>2. PlacingTypes /\ PlacingCaller(r) /\ PlacingStock
  BY DEF PlacingInv
<1>3. PICK lines : lines = want[r].lines
  OBVIOUS
<1>4. PICK new : new = [order |-> want[r].order, lines |-> lines, total |-> Cost(lines),
                        reject |-> want[r].reject]
  OBVIOUS
<1>5. /\ new.order = want[r].order /\ new.lines = lines /\ new.total = Cost(lines)
      /\ new.reject = want[r].reject
  BY <1>4, Zenon
<1>6. lines \in Seq(Placing!Lines)
  <2>1. want[r] \in Placements \union {Placing!NoWant}
    BY <1>2 DEF PlacingTypes
  <2> QED
    BY <1>3, <2>1, WantTypes
<1>7. /\ stock' = [p \in Products |-> stock[p] - Quantity(lines, p)]
      /\ placed' = placed \union {new}
  BY <1>3, <1>4, PlacingSums DEF Placing!CommitTables
<1>8. /\ ProductsOf(lines) \subseteq Products /\ ProductsOf(lines) \subseteq locked[r]
      /\ \A p \in ProductsOf(lines) : Quantity(lines, p) <= stock[p]
      /\ \A o \in placed : o.order # new.order
      /\ ~new.reject
  BY <1>2, <1>3, <1>5 DEF PlacingCaller
<1>9. \A p \in Products : /\ Quantity(lines, p) \in Nat /\ stock[p] \in Nat
                          /\ p \notin ProductsOf(lines) => Quantity(lines, p) = 0
  <2>1. ASSUME NEW p \in Products
        PROVE  /\ Quantity(lines, p) \in Nat
               /\ p \notin ProductsOf(lines) => Quantity(lines, p) = 0
    <3>1. p \notin ProductsOf(lines) => \A i \in DOMAIN lines : lines[i].product # p
      BY DEF ProductsOf
    <3> QED
      BY <1>6, <3>1, QuantityFacts
  <2> QED
    BY <1>2, <2>1 DEF PlacingTypes
<1>10. \A p \in Products : stock'[p] = stock[p] - Quantity(lines, p) /\ stock'[p] \in Nat
  <2>1. \A p \in Products : stock'[p] = stock[p] - Quantity(lines, p)
    BY <1>7
  <2> QED
    BY <1>8, <1>9, <2>1
<1>11. stock' \in [Products -> Nat]
  BY <1>7, <1>10
<1>12. Cost(lines) \in Nat
  <2>1. \A i \in DOMAIN lines : lines[i].product \in Products
    BY <1>8 DEF ProductsOf
  <2>2. UnitPrice \in [Products -> Nat]
    BY DEF Placing!PlacementAssumption
  <2> QED
    BY <1>6, <2>1, <2>2, CostIsNumber
<1>13. /\ \A o \in placed : o.lines \in Seq(Placing!Lines) /\ o.total \in Nat
       /\ IsFiniteSet(placed) /\ new \notin placed
  BY <1>2, <1>8 DEF PlacingTypes
<1>14. IsFiniteSet(placed')
  BY <1>7, <1>13, FS_AddElement
<1>15. PlacingTypes'
  <2>1. \A o \in placed' : o.lines \in Seq(Placing!Lines) /\ o.total \in Nat
    BY <1>5, <1>6, <1>7, <1>12, <1>13
  <2>2. /\ stage' \in [Requests -> PlacingLabels] /\ outcome' \in [Requests -> Placing!Outcomes]
        /\ want' \in [Requests -> Placements \union {Placing!NoWant}]
        /\ locked' \in [Requests -> SUBSET Products] /\ expired' \in [Requests -> BOOLEAN]
    BY <1>1, <1>2 DEF PlacingTypes, PlacingLabels, Placing!Outcomes
  <2> QED
    BY <1>11, <1>14, <2>1, <2>2 DEF PlacingTypes
<1>16. /\ stage'[r] = "return" /\ outcome'[r] = x /\ locked'[r] = {}
       /\ \A q \in Requests : q # r => /\ stage'[q] = stage[q] /\ want'[q] = want[q]
                                       /\ locked'[q] = locked[q] /\ outcome'[q] = outcome[q]
  BY <1>1, <1>2 DEF PlacingTypes
<1>17. ASSUME NEW q \in Requests
       PROVE  PlacingCaller(q)'
  <2>1. PlacingCaller(q)
    BY DEF PlacingInv
  <2>2. CASE q = r
    <3>1. new \in placed' /\ want' = want
      BY <1>1, <1>7
    <3>2. IsStored(r)'
      BY <1>3, <1>5, <3>1 DEF IsStored
    <3> QED
      BY <1>16, <2>2, <3>2 DEF PlacingCaller
  <2>3. CASE q # r
    <3>1. PlacingApart(q, r) /\ PlacingApart(r, q)
      BY <2>3 DEF PlacingInv
    <3>2. stage[q] \in {"insert", "payment", "commit"} =>
             \A p \in ProductsOf(want[q].lines) : stock'[p] = stock[p]
      <4>1. ASSUME stage[q] \in {"insert", "payment", "commit"}, NEW p \in ProductsOf(want[q].lines)
            PROVE  stock'[p] = stock[p]
        <5>1. p \in Products /\ p \in locked[q]
          BY <2>1, <4>1 DEF PlacingCaller
        <5>2. p \notin ProductsOf(lines)
          BY <1>8, <3>1, <5>1 DEF PlacingApart
        <5> QED
          BY <1>9, <1>10, <5>1, <5>2
      <4> QED
        BY <4>1
    <3>3. stage[q] \in {"payment", "commit"} => \A o \in placed' : o.order # want[q].order
      BY <1>5, <1>7, <2>1, <3>1 DEF PlacingApart, PlacingCaller
    <3>4. IsStored(q) => IsStored(q)'
      BY <1>1, <1>7 DEF IsStored
    <3> QED
      BY <1>16, <2>1, <2>3, <3>2, <3>3, <3>4 DEF PlacingCaller
  <2> QED
    BY <2>2, <2>3
<1>18. ASSUME NEW p \in Requests, NEW q \in Requests, p # q
       PROVE  PlacingApart(p, q)'
  <2>1. PlacingApart(p, q)
    BY <1>18 DEF PlacingInv
  <2>2. CASE p # r /\ q # r
    BY <1>16, <2>1, <2>2 DEF PlacingApart
  <2>3. CASE p = r \/ q = r
    BY <1>16, <2>3 DEF PlacingApart
  <2> QED
    BY <2>2, <2>3
<1>19. PlacingStock'
  <2>1. ASSUME NEW p \in Products
        PROVE  stock'[p] + SoldIn(placed', p) = Stock[p]
    <3>1. SoldIn(placed', p) = SoldIn(placed, p) + Quantity(lines, p) /\ SoldIn(placed, p) \in Nat
      BY <1>5, <1>6, <1>7, <1>13, OneMoreSold
    <3>2. stock[p] + SoldIn(placed, p) = Stock[p]
      BY <1>2 DEF PlacingStock
    <3> QED
      BY <1>9, <1>10, <3>1, <3>2
  <2>2. \A o \in placed' : ~o.reject
    BY <1>2, <1>7, <1>8 DEF PlacingStock
  <2>3. \A o, p \in placed' : o.order = p.order => o = p
    BY <1>2, <1>7, <1>8 DEF PlacingStock
  <2> QED
    BY <2>1, <2>2, <2>3 DEF PlacingStock
<1> QED
  BY <1>7, <1>15, <1>17, <1>18, <1>19 DEF PlacingInv

LEMMA PlacingLocks ==
    ASSUME Placing!PlacementAssumption, PlacingInv, NEW r \in Requests, Placing!LockByID(r)
    PROVE  PlacingInv'
<1>1. /\ stage[r] = "lock" /\ UNCHANGED <<want, expired, outcome, stock, placed>>
      /\ IF Placing!Unlocked(r) = {}
         THEN Placing!Goto(r, "debit") /\ UNCHANGED locked
         ELSE /\ \A q \in Requests \ {r} : Placing!Min(Placing!Unlocked(r)) \notin locked[q]
              /\ locked' = [locked EXCEPT ![r] = @ \union {Placing!Min(Placing!Unlocked(r))}]
              /\ UNCHANGED stage
  BY DEF Placing!LockByID
<1>2. Placing!Unlocked(r) = (ProductsOf(want[r].lines) \intersect Products) \ locked[r]
  BY PlacingSums DEF Placing!Unlocked
<1>3. PlacingTypes /\ PlacingCaller(r)
  BY DEF PlacingInv
<1>4. CASE Placing!Unlocked(r) = {}
  <2>1. Placing!Goto(r, "debit") /\ locked' = locked
    BY <1>1, <1>4
  <2>2. stage'[r] = "debit"
    BY <1>3, <2>1 DEF Placing!Goto, PlacingTypes
  <2>3. ProductsOf(want[r].lines) \intersect Products \subseteq locked[r]
    BY <1>2, <1>4
  <2>4. PlacingCaller(r)'
    BY <1>1, <1>3, <2>1, <2>2, <2>3 DEF PlacingCaller
  <2>5. "debit" \in PlacingLabels \ {"return"} /\ stage[r] # "return"
    BY <1>1 DEF PlacingLabels
  <2>6. "debit" \in {"payment", "commit"} =>
           \A q \in Requests : q # r /\ stage[q] \in {"payment", "commit"} =>
                                  want[q].order # want[r].order
    OBVIOUS
  <2> QED
    BY <1>1, <2>1, <2>4, <2>5, <2>6, PlacingGoesOn
<1>5. CASE Placing!Unlocked(r) # {}
  <2>1. PICK p : p = Placing!Min(Placing!Unlocked(r))
    OBVIOUS
  <2>2. p \in Placing!Unlocked(r)
    <3>1. Placing!Unlocked(r) \subseteq Nat
      BY <1>2 DEF Placing!PlacementAssumption
    <3>2. \E x \in Placing!Unlocked(r) : \A y \in Placing!Unlocked(r) : x <= y
      BY <1>5, <3>1, Least
    <3> QED
      BY <2>1, <3>2 DEF Placing!Min
  <2>3. /\ \A q \in Requests \ {r} : p \notin locked[q]
        /\ locked' = [locked EXCEPT ![r] = @ \union {p}] /\ stage' = stage
    BY <1>1, <1>5, <2>1
  <2>4. /\ locked' \in [Requests -> SUBSET Products]
        /\ locked'[r] = locked[r] \union {p}
        /\ \A q \in Requests : q # r => locked'[q] = locked[q]
    BY <1>2, <1>3, <2>2, <2>3 DEF PlacingTypes
  <2>5. PlacingCaller(r)'
    BY <1>1, <1>3, <2>3 DEF PlacingCaller
  <2>6. ASSUME NEW q \in Requests, q # r
        PROVE  PlacingApart(q, r)'
    <3>1. PlacingApart(q, r)
      BY <2>6 DEF PlacingInv
    <3> QED
      BY <1>1, <2>3, <2>4, <2>6, <3>1 DEF PlacingApart
  <2>7. /\ stage' \in [Requests -> PlacingLabels] /\ outcome' \in [Requests -> Placing!Outcomes]
        /\ want' \in [Requests -> Placements \union {Placing!NoWant}]
        /\ expired' \in [Requests -> BOOLEAN]
    BY <1>1, <1>3, <2>3 DEF PlacingTypes
  <2>8. \A q \in Requests : q # r => /\ stage'[q] = stage[q] /\ want'[q] = want[q]
                                     /\ locked'[q] = locked[q] /\ outcome'[q] = outcome[q]
    BY <1>1, <2>3, <2>4
  <2> QED
    BY <1>1, <2>4, <2>5, <2>6, <2>7, <2>8, PlacingMoves
<1> QED
  BY <1>4, <1>5

LEMMA PlacingStep ==
    ASSUME Placing!PlacementAssumption, PlacingInv, [Placing!Next]_(Placing!vars)
    PROVE  PlacingInv' /\ placed \subseteq placed'
<1>1. PlacingTypes
  BY DEF PlacingInv
<1>2. CASE UNCHANGED Placing!vars
  <2>1. UNCHANGED <<stage, want, locked, expired, outcome, stock, placed>>
    BY <1>2 DEF Placing!vars, Placing!callVars
  <2>2. PlacingTypes' /\ PlacingStock'
    BY <2>1 DEF PlacingInv, PlacingTypes, PlacingStock
  <2>3. \A r \in Requests : PlacingCaller(r)'
    BY <2>1 DEF PlacingInv, PlacingCaller, IsStored
  <2>4. \A q, r \in Requests : q # r => PlacingApart(q, r)'
    BY <2>1 DEF PlacingInv, PlacingApart
  <2> QED
    BY <2>1, <2>2, <2>3, <2>4 DEF PlacingInv
\* every other step is one of a caller
<1>3. ASSUME NEW r \in Requests, NEW w \in Placements, Placing!Call(r, w)
      PROVE  PlacingInv' /\ placed' = placed
  <2>1. /\ stage[r] = "idle" /\ want' = [want EXCEPT ![r] = w]
        /\ UNCHANGED <<locked, expired, stock, placed>>
        /\ \/ stage' = [stage EXCEPT ![r] = "lock"] /\ outcome' = outcome
           \/ /\ stage' = [stage EXCEPT ![r] = "return"]
              /\ outcome' = [outcome EXCEPT ![r] = "invalid_order"]
    BY <1>3 DEF Placing!Call, Placing!Goto
  <2>2. /\ stage' \in [Requests -> PlacingLabels] /\ outcome' \in [Requests -> Placing!Outcomes]
        /\ want' \in [Requests -> Placements \union {Placing!NoWant}]
        /\ locked' \in [Requests -> SUBSET Products] /\ expired' \in [Requests -> BOOLEAN]
    BY <1>1, <2>1 DEF PlacingTypes, PlacingLabels, Placing!Outcomes
  <2>3. /\ stage'[r] \in {"lock", "return"} /\ (stage'[r] = "lock" => outcome'[r] = outcome[r])
        /\ (stage'[r] = "return" => outcome'[r] = "invalid_order")
        /\ \A q \in Requests : q # r => /\ stage'[q] = stage[q] /\ want'[q] = want[q]
                                        /\ locked'[q] = locked[q] /\ outcome'[q] = outcome[q]
    BY <1>1, <2>1 DEF PlacingTypes
  <2>4. outcome[r] = "none"
    BY <2>1 DEF PlacingInv, PlacingCaller
  <2>5. PlacingCaller(r)'
    BY <2>3, <2>4 DEF PlacingCaller
  <2>6. ASSUME NEW q \in Requests, q # r
        PROVE  PlacingApart(q, r)'
    <3>1. PlacingApart(q, r)
      BY <2>6 DEF PlacingInv
    <3> QED
      BY <2>1, <2>3, <3>1 DEF PlacingApart
  <2> QED
    BY <2>1, <2>2, <2>3, <2>5, <2>6, PlacingMoves
<1>4. ASSUME NEW r \in Requests, Placing!Cancel(r)
      PROVE  PlacingInv' /\ placed' = placed
  <2>1. UNCHANGED <<stage, want, locked, outcome, stock, placed>>
    BY <1>4 DEF Placing!Cancel
  <2>2. expired' \in [Requests -> BOOLEAN]
    <3>1. expired' = [expired EXCEPT ![r] = TRUE] /\ expired \in [Requests -> BOOLEAN]
      BY <1>1, <1>4 DEF Placing!Cancel, PlacingTypes
    <3> QED
      BY <3>1, Zenon
  <2>3. PlacingTypes' /\ PlacingStock'
    BY <2>1, <2>2 DEF PlacingInv, PlacingTypes, PlacingStock
  <2>4. \A q \in Requests : PlacingCaller(q)'
    BY <2>1 DEF PlacingInv, PlacingCaller, IsStored
  <2>5. \A q, p \in Requests : q # p => PlacingApart(q, p)'
    BY <2>1 DEF PlacingInv, PlacingApart
  <2> QED
    BY <2>1, <2>3, <2>4, <2>5 DEF PlacingInv
<1>5. ASSUME NEW r \in Requests, Placing!StatementFails(r)
      PROVE  PlacingInv' /\ placed' = placed
  <2>1. Placing!Return(r, "error") /\ UNCHANGED <<stock, placed>>
    BY <1>5 DEF Placing!StatementFails
  <2>2. "error" \in Placing!Outcomes \ {"placed"}
    BY DEF Placing!Outcomes
  <2> QED
    BY <2>1, <2>2, PlacingReturns
<1>6. ASSUME NEW r \in Requests, Placing!LockByID(r)
      PROVE  PlacingInv' /\ placed' = placed
  <2>1. placed' = placed
    BY <1>6 DEF Placing!LockByID
  <2> QED
    BY <1>6, <2>1, PlacingLocks
<1>7. ASSUME NEW r \in Requests, Placing!Debit(r)
      PROVE  PlacingInv' /\ placed' = placed
  <2>1. stage[r] = "debit" /\ UNCHANGED <<stock, placed>> /\ PlacingCaller(r)
    BY <1>7 DEF Placing!Debit, PlacingInv
  <2>2. CASE Placing!Return(r, "insufficient_stock")
    <3>1. "insufficient_stock" \in Placing!Outcomes \ {"placed"}
      BY DEF Placing!Outcomes
    <3> QED
      BY <2>1, <2>2, <3>1, PlacingReturns
  <2>3. CASE ~Placing!Return(r, "insufficient_stock")
    <3>1. /\ Placing!Goto(r, "insert") /\ UNCHANGED <<want, locked, expired, outcome>>
          /\ ~\E p \in Placing!ProductIDs(r) : p \notin Products \/ stock[p] < Placing!Demand(r, p)
      BY <1>7, <2>3 DEF Placing!Debit
    <3>2. \A p \in ProductsOf(want[r].lines) : p \in Products /\ ~(stock[p] < Quantity(want[r].lines, p))
      BY <3>1, PlacingSums
    <3>3. want[r].lines \in Seq(Placing!Lines)
      <4>1. want[r] \in Placements \union {Placing!NoWant}
        BY <1>1 DEF PlacingTypes
      <4> QED
        BY <4>1, WantTypes
    <3>4. \A p \in ProductsOf(want[r].lines) : Quantity(want[r].lines, p) <= stock[p]
      <4>1. ASSUME NEW p \in ProductsOf(want[r].lines)
            PROVE  Quantity(want[r].lines, p) <= stock[p]
        <5>1. Quantity(want[r].lines, p) \in Nat /\ stock[p] \in Nat
          BY <1>1, <3>2, <3>3, QuantityFacts DEF PlacingTypes
        <5> QED
          BY <3>2, <5>1
      <4> QED
        BY <4>1
    <3>5. stage'[r] = "insert" /\ "insert" \in PlacingLabels \ {"return"} /\ stage[r] # "return"
      BY <1>1, <2>1, <3>1 DEF Placing!Goto, PlacingTypes, PlacingLabels
    <3>6. PlacingCaller(r)'
      BY <2>1, <3>1, <3>2, <3>4, <3>5 DEF PlacingCaller
    <3>7. "insert" \in {"payment", "commit"} =>
             \A q \in Requests : q # r /\ stage[q] \in {"payment", "commit"} =>
                                    want[q].order # want[r].order
      OBVIOUS
    <3> QED
      BY <2>1, <3>1, <3>5, <3>6, <3>7, PlacingGoesOn
  <2> QED
    BY <2>2, <2>3
<1>8. ASSUME NEW r \in Requests, Placing!InsertOrder(r)
      PROVE  PlacingInv' /\ placed' = placed
  <2>1. /\ stage[r] = "insert" /\ UNCHANGED <<stock, placed>> /\ PlacingCaller(r)
        /\ \A q \in Requests \ {r} :
              want[q].order = want[r].order => stage[q] \notin {"payment", "commit"}
    BY <1>8 DEF Placing!InsertOrder, PlacingInv
  <2>2. CASE Placing!Return(r, "error")
    <3>1. "error" \in Placing!Outcomes \ {"placed"}
      BY DEF Placing!Outcomes
    <3> QED
      BY <2>1, <2>2, <3>1, PlacingReturns
  <2>3. CASE ~Placing!Return(r, "error")
    <3>1. /\ Placing!Goto(r, "payment") /\ UNCHANGED <<want, locked, expired, outcome>>
          /\ ~\E o \in placed : o.order = want[r].order
      BY <1>8, <2>3 DEF Placing!InsertOrder
    <3>2. stage'[r] = "payment" /\ "payment" \in PlacingLabels \ {"return"} /\ stage[r] # "return"
      BY <1>1, <2>1, <3>1 DEF Placing!Goto, PlacingTypes, PlacingLabels
    <3>3. PlacingCaller(r)'
      BY <2>1, <3>1, <3>2 DEF PlacingCaller
    <3>4. "payment" \in {"payment", "commit"} =>
             \A q \in Requests : q # r /\ stage[q] \in {"payment", "commit"} =>
                                    want[q].order # want[r].order
      BY <2>1
    <3> QED
      BY <2>1, <3>1, <3>2, <3>3, <3>4, PlacingGoesOn
  <2> QED
    BY <2>2, <2>3
<1>9. ASSUME NEW r \in Requests, Placing!Pay(r)
      PROVE  PlacingInv' /\ placed' = placed
  <2>1. stage[r] = "payment" /\ UNCHANGED <<stock, placed>> /\ PlacingCaller(r)
    BY <1>9 DEF Placing!Pay, PlacingInv
  <2>2. CASE Placing!Return(r, "payment_rejected")
    <3>1. "payment_rejected" \in Placing!Outcomes \ {"placed"}
      BY DEF Placing!Outcomes
    <3> QED
      BY <2>1, <2>2, <3>1, PlacingReturns
  <2>3. CASE ~Placing!Return(r, "payment_rejected")
    <3>1. /\ Placing!Goto(r, "commit") /\ UNCHANGED <<want, locked, expired, outcome>>
          /\ ~want[r].reject
      BY <1>9, <2>3 DEF Placing!Pay
    <3>2. stage'[r] = "commit" /\ "commit" \in PlacingLabels \ {"return"} /\ stage[r] # "return"
      BY <1>1, <2>1, <3>1 DEF Placing!Goto, PlacingTypes, PlacingLabels
    <3>3. PlacingCaller(r)'
      BY <2>1, <3>1, <3>2 DEF PlacingCaller
    <3>4. "commit" \in {"payment", "commit"} =>
             \A q \in Requests : q # r /\ stage[q] \in {"payment", "commit"} =>
                                    want[q].order # want[r].order
      <4>1. ASSUME NEW q \in Requests, q # r, stage[q] \in {"payment", "commit"}
            PROVE  want[q].order # want[r].order
        <5>1. PlacingApart(q, r)
          BY <4>1 DEF PlacingInv
        <5> QED
          BY <2>1, <4>1, <5>1 DEF PlacingApart
      <4> QED
        BY <4>1
    <3> QED
      BY <2>1, <3>1, <3>2, <3>3, <3>4, PlacingGoesOn
  <2> QED
    BY <2>2, <2>3
<1>10. ASSUME NEW r \in Requests, Placing!Commit(r)
       PROVE  PlacingInv' /\ placed \subseteq placed'
  <2>1. stage[r] = "commit"
    BY <1>10 DEF Placing!Commit
  <2>2. CASE Placing!CommitTables(r) /\ Placing!Return(r, "placed")
    BY <2>1, <2>2, PlacingCommits
  <2>3. CASE Placing!CommitTables(r) /\ Placing!Return(r, "error")
    BY <2>1, <2>3, PlacingCommits
  <2>4. CASE UNCHANGED <<stock, placed>> /\ Placing!Return(r, "error")
    <3>1. "error" \in Placing!Outcomes \ {"placed"}
      BY DEF Placing!Outcomes
    <3>2. PlacingInv'
      BY <2>4, <3>1, PlacingReturns
    <3> QED
      BY <2>4, <3>2
  <2> QED
    BY <1>10, <2>2, <2>3, <2>4 DEF Placing!Commit
<1>11. ASSUME NEW r \in Requests, Placing!Done(r)
       PROVE  PlacingInv' /\ placed' = placed
  <2>1. /\ stage[r] = "return" /\ stage' = [stage EXCEPT ![r] = "idle"]
        /\ want' = [want EXCEPT ![r] = Placing!NoWant] /\ outcome' = [outcome EXCEPT ![r] = "none"]
        /\ UNCHANGED <<locked, stock, placed>>
    BY <1>11 DEF Placing!Done, Placing!Goto
  <2>2. expired' \in [Requests -> BOOLEAN]
    <3>1. expired' = [expired EXCEPT ![r] = FALSE] /\ expired \in [Requests -> BOOLEAN]
      BY <1>1, <1>11 DEF Placing!Done, PlacingTypes
    <3> QED
      BY <3>1, Zenon
  <2>3. /\ stage' \in [Requests -> PlacingLabels] /\ outcome' \in [Requests -> Placing!Outcomes]
        /\ want' \in [Requests -> Placements \union {Placing!NoWant}]
        /\ locked' \in [Requests -> SUBSET Products]
    BY <1>1, <2>1 DEF PlacingTypes, PlacingLabels, Placing!Outcomes
  <2>4. /\ stage'[r] = "idle" /\ outcome'[r] = "none"
        /\ \A q \in Requests : q # r => /\ stage'[q] = stage[q] /\ want'[q] = want[q]
                                        /\ locked'[q] = locked[q] /\ outcome'[q] = outcome[q]
    BY <1>1, <2>1 DEF PlacingTypes
  <2>5. PlacingCaller(r)'
    BY <2>4 DEF PlacingCaller
  <2>6. ASSUME NEW q \in Requests, q # r
        PROVE  PlacingApart(q, r)'
    <3>1. PlacingApart(q, r)
      BY <2>6 DEF PlacingInv
    <3> QED
      BY <2>1, <2>4, <3>1 DEF PlacingApart
  <2> QED
    BY <2>1, <2>2, <2>3, <2>4, <2>5, <2>6, PlacingMoves
<1>12. \A r \in Requests : Placing!Advance(r) => PlacingInv' /\ placed \subseteq placed'
  BY <1>5, <1>6, <1>7, <1>8, <1>9, <1>10, <1>11 DEF Placing!Advance
<1> QED
  BY <1>2, <1>3, <1>4, <1>12 DEF Placing!Next

LEMMA PlacingParts ==
    ASSUME Placing!PlacementAssumption, PlacingInv
    PROVE  Placing!TypeOK /\ Placing!StockIsConserved /\ Placing!PlacedIsStored
<1>1. Placing!TypeOK
  BY DEF PlacingInv, PlacingTypes, PlacingLabels, Placing!TypeOK
<1>2. Placing!StockIsConserved
  <2>1. \A p \in Products : stock[p] >= 0 /\ stock[p] + Placing!Sold(p) = Stock[p]
    BY PlacingSums DEF PlacingInv, PlacingTypes, PlacingStock
  <2> QED
    BY <2>1 DEF PlacingInv, PlacingStock, Placing!StockIsConserved
<1>3. Placing!PlacedIsStored
  <2>1. ASSUME NEW r \in Requests, outcome[r] = "placed"
        PROVE  \E o \in placed : /\ o.order = want[r].order /\ o.lines = want[r].lines
                                 /\ o.total = Placing!Total(r)
    BY <2>1, PlacingSums DEF PlacingInv, PlacingCaller, IsStored
  <2> QED
    BY <2>1 DEF Placing!PlacedIsStored
<1> QED
  BY <1>1, <1>2, <1>3

\* PlaceOrder "commits stock and order rows together or rolls all changes back": whatever
\* callers interleave, cancel or lose at the commit, what is missing from the stock of a
\* product is exactly what the placed orders say, no stock is negative, no order id is
\* stored twice and no rejected payment leaves an order.
THEOREM PlacementConservesStock ==
    Placing!PlacementAssumption /\ Placing!Spec => [](Placing!StockIsConserved)
<1> SUFFICES ASSUME Placing!PlacementAssumption
             PROVE  Placing!Spec => [](Placing!StockIsConserved)
  OBVIOUS
<1>1. Placing!Init => PlacingInv
  BY PlacingBegins
<1>2. PlacingInv /\ [Placing!Next]_(Placing!vars) => PlacingInv'
  BY PlacingStep
<1>3. PlacingInv => Placing!StockIsConserved
  BY PlacingParts
<1> QED
  BY <1>1, <1>2, <1>3, PTL DEF Placing!Spec

\* A caller of PlaceOrder that is told its order is placed finds its lines and their total
\* stored under its order id.
THEOREM PlacedOrdersAreStored ==
    Placing!PlacementAssumption /\ Placing!Spec => [](Placing!PlacedIsStored)
<1> SUFFICES ASSUME Placing!PlacementAssumption
             PROVE  Placing!Spec => [](Placing!PlacedIsStored)
  OBVIOUS
<1>1. Placing!Init => PlacingInv
  BY PlacingBegins
<1>2. PlacingInv /\ [Placing!Next]_(Placing!vars) => PlacingInv'
  BY PlacingStep
<1>3. PlacingInv => Placing!PlacedIsStored
  BY PlacingParts
<1> QED
  BY <1>1, <1>2, <1>3, PTL DEF Placing!Spec

--------------------------------------------------------------------------------
(* The graph analysis.                                                       *)

\* The client is opened once and closed on the way out; only then something is printed.
ClusterRun(p) ==
    /\ stage[p] = "open" => client[p] = "none"
    /\ stage[p] \in {"verify", "match", "replace", "vertices", "edges", "analyze", "encode",
                     "close", "cleanup"} => client[p] = "open"
    /\ stage[p] = "write" => client[p] = "closed"
    /\ stage[p] = "exited" => client[p] \in {"none", "closed"}
    /\ stage[p] # "exited" => exit[p] = -1 /\ output[p] = "none"
    /\ output[p] # "none" => client[p] = "closed"
    /\ exit[p] = 0 => output[p] = "full"
    /\ output[p] = "full" => exit[p] = 0

\* What is left of generation g.
LeftOf(g) == store.vertices \intersect Cluster!Generation(g)

\* A replacement has matched everything that earlier runs left, and removes it.
ClusterLeft(p) ==
    /\ stage[p] = "replace" => \A g \in Leftovers : LeftOf(g) \subseteq stale[p]
    /\ stage[p] \in {"vertices", "edges", "analyze", "encode", "close", "write"} =>
          \A g \in Leftovers : LeftOf(g) = {}

ClusterInv ==
    /\ Cluster!TypeOK
    /\ stale = [p \in Processes |-> stale[p]]
    /\ \A p \in Processes : ClusterRun(p) /\ ClusterLeft(p)

LEMMA ClusterBegins == Cluster!Init => ClusterInv
<1> SUFFICES ASSUME Cluster!Init
             PROVE  ClusterInv
  OBVIOUS
<1>1. /\ fixture \in FixtureEdges /\ stage = [p \in Processes |-> "open"]
      /\ stale = [p \in Processes |-> {}] /\ client = [p \in Processes |-> "none"]
      /\ output = [p \in Processes |-> "none"] /\ exit = [p \in Processes |-> -1]
  BY DEF Cluster!Init
<1>2. signalled \in [Processes -> BOOLEAN]
  <2>1. signalled = [p \in Processes |-> FALSE]
    BY DEF Cluster!Init
  <2> QED
    BY <2>1, Zenon
<1>3. Cluster!TypeOK
  BY <1>1, <1>2 DEF Cluster!TypeOK, Cluster!Stages
<1>4. \A p \in Processes : ClusterRun(p) /\ ClusterLeft(p)
  BY <1>1 DEF ClusterRun, ClusterLeft
<1>5. stale = [p \in Processes |-> stale[p]]
  BY <1>1
<1> QED
  BY <1>3, <1>4, <1>5 DEF ClusterInv

\* The vertices of earlier runs only become fewer.
LEMMA LeftShrinks ==
    ASSUME Cluster!ClusterAssumption, NEW p \in Processes, NEW old,
           store' = Cluster!Replaced(p, old), NEW g \in Leftovers
    PROVE  LeftOf(g)' \subseteq LeftOf(g) \ old
<1>1. store'.vertices = (store.vertices \ old) \union Cluster!Generation(p)
  BY DEF Cluster!Replaced
<1>2. p # g
  BY DEF Cluster!ClusterAssumption
<1>3. Cluster!Generation(p) \intersect Cluster!Generation(g) = {}
  BY <1>2 DEF Cluster!Generation
<1> QED
  BY <1>1, <1>3 DEF LeftOf

LEMMA ClusterStep ==
    ASSUME Cluster!ClusterAssumption, ClusterInv, [Cluster!Next]_(Cluster!vars)
    PROVE  ClusterInv'
<1>1. /\ stage \in [Processes -> Cluster!Stages]
      /\ client \in [Processes -> {"none", "open", "closed", "closed_again"}]
      /\ output \in [Processes -> {"none", "partial", "full"}]
      /\ exit \in [Processes -> {-1, 0, 1}] /\ fixture \in FixtureEdges
  BY DEF ClusterInv, Cluster!TypeOK
<1>2. stale = [p \in Processes |-> stale[p]] /\ signalled \in [Processes -> BOOLEAN]
  BY DEF ClusterInv, Cluster!TypeOK
\* the goal, for a step of process p
<1>3. ASSUME NEW p \in Processes, NEW label \in Cluster!Stages,
             stage' = [stage EXCEPT ![p] = label],
             signalled' \in [Processes -> BOOLEAN],
             client' \in [Processes -> {"none", "open", "closed", "closed_again"}],
             output' \in [Processes -> {"none", "partial", "full"}],
             exit' \in [Processes -> {-1, 0, 1}], UNCHANGED fixture, stale' = [q \in Processes |-> stale'[q]],
             \A q \in Processes : q # p => /\ client'[q] = client[q] /\ output'[q] = output[q]
                                           /\ exit'[q] = exit[q] /\ stale'[q] = stale[q],
             \A g \in Leftovers : LeftOf(g)' \subseteq LeftOf(g),
             ClusterRun(p)', ClusterLeft(p)'
      PROVE  ClusterInv'
  <2>1. /\ stage' \in [Processes -> Cluster!Stages] /\ stage'[p] = label
        /\ \A q \in Processes : q # p => stage'[q] = stage[q]
    BY <1>1, <1>3
  <2>2. Cluster!TypeOK'
    BY <1>1, <1>3, <2>1 DEF Cluster!TypeOK
  <2>4. ASSUME NEW q \in Processes, q # p
        PROVE  ClusterRun(q)' /\ ClusterLeft(q)'
    <3>1. ClusterRun(q) /\ ClusterLeft(q)
      BY DEF ClusterInv
    <3>2. ClusterRun(q)'
      BY <1>3, <2>1, <2>4, <3>1 DEF ClusterRun
    <3>3. ClusterLeft(q)'
      BY <1>3, <2>1, <2>4, <3>1 DEF ClusterLeft
    <3> QED
      BY <3>2, <3>3
  <2> QED
    BY <1>3, <2>2, <2>4 DEF ClusterInv
\* a step that leaves the store and what the process has matched, opened and written alone
<1>4. ASSUME NEW p \in Processes, NEW label \in Cluster!Stages,
             stage' = [stage EXCEPT ![p] = label],
             UNCHANGED <<signalled, stale, client, output, exit, fixture, store>>,
             ClusterRun(p)', ClusterLeft(p)'
      PROVE  ClusterInv'
  <2>1. \A g \in Leftovers : LeftOf(g)' \subseteq LeftOf(g)
    BY <1>4 DEF LeftOf
  <2> QED
    BY <1>1, <1>2, <1>3, <1>4, <2>1
<1>5. CASE UNCHANGED Cluster!vars
  <2>1. UNCHANGED <<stage, signalled, stale, client, output, exit, fixture, store>>
    BY <1>5 DEF Cluster!vars, Cluster!runVars
  <2>2. Cluster!TypeOK'
    BY <1>1, <1>2, <2>1 DEF Cluster!TypeOK
  <2>3. ASSUME NEW p \in Processes
        PROVE  ClusterRun(p)' /\ ClusterLeft(p)'
    BY <2>1 DEF ClusterInv, ClusterRun, ClusterLeft, LeftOf
  <2> QED
    BY <1>2, <2>1, <2>2, <2>3 DEF ClusterInv
<1>6. ASSUME NEW p \in Processes, Cluster!Cancel(p)
      PROVE  ClusterInv'
  <2>1. UNCHANGED <<stage, stale, client, output, exit, fixture, store>>
    BY <1>6 DEF Cluster!Cancel
  <2>2. signalled' \in [Processes -> BOOLEAN]
    <3>1. signalled' = [signalled EXCEPT ![p] = TRUE]
      BY <1>6 DEF Cluster!Cancel
    <3> QED
      BY <1>2, <3>1, Zenon
  <2>3. Cluster!TypeOK'
    BY <1>1, <2>1, <2>2 DEF Cluster!TypeOK
  <2>4. ASSUME NEW q \in Processes
        PROVE  ClusterRun(q)' /\ ClusterLeft(q)'
    BY <2>1 DEF ClusterInv, ClusterRun, ClusterLeft, LeftOf
  <2> QED
    BY <1>2, <2>1, <2>3, <2>4 DEF ClusterInv
<1>7. ASSUME NEW p \in Processes, Cluster!Step(p)
      PROVE  ClusterInv'
  <2>1. ClusterRun(p) /\ ClusterLeft(p)
    BY DEF ClusterInv
  <2>2. CASE Cluster!Open(p)
    <3>1. /\ stage[p] = "open" /\ UNCHANGED <<signalled, stale, output, fixture, store>>
          /\ \/ /\ client' = [client EXCEPT ![p] = "open"] /\ exit' = exit
                /\ stage' = [stage EXCEPT ![p] = "verify"]
             \/ /\ exit' = [exit EXCEPT ![p] = 1] /\ client' = client
                /\ stage' = [stage EXCEPT ![p] = "exited"]
      BY <2>2 DEF Cluster!Open, Cluster!Exit, Cluster!Goto
    <3>2. \A g \in Leftovers : LeftOf(g)' \subseteq LeftOf(g)
      BY <3>1 DEF LeftOf
    <3>3. "verify" \in Cluster!Stages /\ "exited" \in Cluster!Stages
      BY DEF Cluster!Stages
    <3>4. CASE client' = [client EXCEPT ![p] = "open"] /\ exit' = exit /\ stage' = [stage EXCEPT ![p] = "verify"]
      <4>1. /\ client'[p] = "open" /\ stage'[p] = "verify"
            /\ client' \in [Processes -> {"none", "open", "closed", "closed_again"}]
            /\ \A q \in Processes : q # p => client'[q] = client[q]
        BY <1>1, <3>4
      <4>2. ClusterRun(p)' /\ ClusterLeft(p)'
        BY <2>1, <3>1, <3>4, <4>1 DEF ClusterRun, ClusterLeft
      <4> QED
        BY <1>1, <1>2, <1>3, <3>1, <3>2, <3>3, <3>4, <4>1, <4>2
    <3>5. CASE exit' = [exit EXCEPT ![p] = 1] /\ client' = client /\ stage' = [stage EXCEPT ![p] = "exited"]
      <4>1. /\ exit'[p] = 1 /\ stage'[p] = "exited" /\ exit' \in [Processes -> {-1, 0, 1}]
            /\ \A q \in Processes : q # p => exit'[q] = exit[q]
        BY <1>1, <3>5
      <4>2. ClusterRun(p)' /\ ClusterLeft(p)'
        BY <2>1, <3>1, <3>5, <4>1 DEF ClusterRun, ClusterLeft
      <4> QED
        BY <1>1, <1>2, <1>3, <3>1, <3>2, <3>3, <3>5, <4>1, <4>2
    <3> QED
      BY <3>1, <3>4, <3>5
  <2>3. CASE Cluster!Fails(p)
    <3>1. /\ stage[p] \in {"verify", "match", "replace", "vertices", "edges", "analyze", "encode"}
          /\ stage' = [stage EXCEPT ![p] = "cleanup"]
          /\ UNCHANGED <<signalled, stale, client, output, exit, fixture>>
          /\ UNCHANGED store \/ store' = Cluster!Replaced(p, stale[p])
      BY <2>3 DEF Cluster!Fails, Cluster!Goto
    <3>2. \A g \in Leftovers : LeftOf(g)' \subseteq LeftOf(g)
      <4>1. CASE UNCHANGED store
        BY <4>1 DEF LeftOf
      <4>2. CASE store' = Cluster!Replaced(p, stale[p])
        BY <4>2, LeftShrinks
      <4> QED
        BY <3>1, <4>1, <4>2
    <3>3. stage'[p] = "cleanup" /\ "cleanup" \in Cluster!Stages
      BY <1>1, <3>1 DEF Cluster!Stages
    <3>4. ClusterRun(p)' /\ ClusterLeft(p)'
      BY <2>1, <3>1, <3>3 DEF ClusterRun, ClusterLeft
    <3> QED
      BY <1>1, <1>2, <1>3, <3>1, <3>2, <3>3, <3>4
  <2>4. ASSUME UNCHANGED <<signalled, stale, client, output, exit, fixture, store>>,
               NEW label \in {"match", "edges", "analyze", "cleanup", "encode", "close"},
               stage' = [stage EXCEPT ![p] = label],
               stage[p] \in {"verify", "vertices", "edges", "analyze", "encode"},
               stage[p] = "verify" => label = "match"
        PROVE  ClusterInv'
    <3>1. stage'[p] = label /\ label \in Cluster!Stages
      BY <1>1, <2>4 DEF Cluster!Stages
    <3>2. ClusterRun(p)'
      BY <2>1, <2>4, <3>1 DEF ClusterRun
    <3>3. ClusterLeft(p)'
      BY <2>1, <2>4, <3>1 DEF ClusterLeft, LeftOf
    <3> QED
      BY <1>4, <2>4, <3>1, <3>2, <3>3
  <2>5. CASE Cluster!Verify(p)
    BY <2>4, <2>5 DEF Cluster!Verify, Cluster!Goto
  <2>6. CASE Cluster!ReadVertices(p)
    BY <2>4, <2>6 DEF Cluster!ReadVertices, Cluster!Goto
  <2>7. CASE Cluster!ReadEdges(p)
    <3>1. /\ stage[p] = "edges" /\ UNCHANGED <<signalled, stale, client, output, exit, fixture, store>>
          /\ \/ stage' = [stage EXCEPT ![p] = "analyze"]
             \/ stage' = [stage EXCEPT ![p] = "cleanup"]
      BY <2>7 DEF Cluster!ReadEdges, Cluster!Goto
    <3> QED
      BY <2>4, <3>1
  <2>8. CASE Cluster!Analyze(p)
    BY <2>4, <2>8 DEF Cluster!Analyze, Cluster!Goto
  <2>9. CASE Cluster!Encode(p)
    BY <2>4, <2>9 DEF Cluster!Encode, Cluster!Goto
  <2>10. CASE Cluster!MatchStale(p)
    <3>1. /\ stage[p] = "match" /\ stage' = [stage EXCEPT ![p] = "replace"]
          /\ stale' = [stale EXCEPT ![p] = store.vertices]
          /\ UNCHANGED <<signalled, client, output, exit, fixture, store>>
      BY <2>10 DEF Cluster!MatchStale, Cluster!Goto
    <3>2. /\ stale'[p] = store.vertices /\ stale' = [q \in Processes |-> stale'[q]]
          /\ \A q \in Processes : q # p => stale'[q] = stale[q]
      BY <1>2, <3>1
    <3>3. \A g \in Leftovers : LeftOf(g)' \subseteq LeftOf(g) /\ LeftOf(g)' \subseteq stale'[p]
      BY <3>1, <3>2 DEF LeftOf
    <3>4. stage'[p] = "replace" /\ "replace" \in Cluster!Stages
      BY <1>1, <3>1 DEF Cluster!Stages
    <3>5. ClusterRun(p)' /\ ClusterLeft(p)'
      BY <2>1, <3>1, <3>3, <3>4 DEF ClusterRun, ClusterLeft
    <3> QED
      BY <1>1, <1>2, <1>3, <3>1, <3>2, <3>3, <3>4, <3>5
  <2>11. CASE Cluster!ReplaceFixture(p)
    <3>1. /\ stage[p] = "replace" /\ stage' = [stage EXCEPT ![p] = "vertices"]
          /\ store' = Cluster!Replaced(p, stale[p])
          /\ UNCHANGED <<signalled, stale, client, output, exit, fixture>>
      BY <2>11 DEF Cluster!ReplaceFixture, Cluster!Goto
    <3>2. \A g \in Leftovers : LeftOf(g)' \subseteq LeftOf(g) \ stale[p]
      BY <3>1, LeftShrinks
    <3>3. \A g \in Leftovers : LeftOf(g)' \subseteq LeftOf(g) /\ LeftOf(g)' = {}
      BY <2>1, <3>1, <3>2 DEF ClusterLeft
    <3>4. stage'[p] = "vertices" /\ "vertices" \in Cluster!Stages
      BY <1>1, <3>1 DEF Cluster!Stages
    <3>5. ClusterRun(p)' /\ ClusterLeft(p)'
      BY <2>1, <3>1, <3>3, <3>4 DEF ClusterRun, ClusterLeft
    <3> QED
      BY <1>1, <1>2, <1>3, <3>1, <3>3, <3>4, <3>5
  <2>12. CASE Cluster!Close(p)
    <3>1. /\ stage[p] \in {"close", "cleanup"} /\ UNCHANGED <<signalled, stale, output, fixture, store>>
          /\ client' = [client EXCEPT ![p] = IF client[p] = "open" THEN "closed" ELSE "closed_again"]
          /\ \/ /\ stage[p] = "close" /\ exit' = exit /\ stage' = [stage EXCEPT ![p] = "write"]
             \/ exit' = [exit EXCEPT ![p] = 1] /\ stage' = [stage EXCEPT ![p] = "exited"]
      BY <2>12 DEF Cluster!Close, Cluster!Exit, Cluster!Goto
    <3>2. client[p] = "open" /\ output[p] = "none" /\ exit[p] = -1
      BY <2>1, <3>1 DEF ClusterRun
    <3>3. /\ client'[p] = "closed"
          /\ client' \in [Processes -> {"none", "open", "closed", "closed_again"}]
          /\ \A q \in Processes : q # p => client'[q] = client[q]
      BY <1>1, <3>1, <3>2
    <3>4. \A g \in Leftovers : LeftOf(g)' = LeftOf(g)
      BY <3>1 DEF LeftOf
    <3>5. "write" \in Cluster!Stages /\ "exited" \in Cluster!Stages
      BY DEF Cluster!Stages
    <3>6. CASE stage[p] = "close" /\ exit' = exit /\ stage' = [stage EXCEPT ![p] = "write"]
      <4>1. stage'[p] = "write"
        BY <1>1, <3>6
      <4>2. ClusterRun(p)' /\ ClusterLeft(p)'
        BY <2>1, <3>1, <3>2, <3>3, <3>4, <3>6, <4>1 DEF ClusterRun, ClusterLeft
      <4> QED
        BY <1>1, <1>2, <1>3, <3>1, <3>3, <3>4, <3>5, <3>6, <4>2, ZenonT(60)
    <3>7. CASE exit' = [exit EXCEPT ![p] = 1] /\ stage' = [stage EXCEPT ![p] = "exited"]
      <4>1. /\ exit'[p] = 1 /\ stage'[p] = "exited" /\ exit' \in [Processes -> {-1, 0, 1}]
            /\ \A q \in Processes : q # p => exit'[q] = exit[q]
        BY <1>1, <3>7
      <4>2. output' = output /\ output'[p] = "none"
        BY <3>1, <3>2
      <4>3. ClusterRun(p)'
        <5>1. /\ stage'[p] = "exited" /\ client'[p] = "closed" /\ output'[p] = "none"
              /\ ~(exit'[p] = 0)
          BY <3>3, <4>1, <4>2
        <5> QED
          BY <5>1 DEF ClusterRun
      <4>4. ClusterLeft(p)'
        BY <4>1 DEF ClusterLeft
      <4>5. UNCHANGED <<signalled, stale, output, fixture>> /\ stage' = [stage EXCEPT ![p] = "exited"]
        BY <3>1, <3>7
      <4> QED
        BY <1>1, <1>2, <1>3, <3>3, <3>4, <3>5, <4>1, <4>3, <4>4, <4>5
    <3> QED
      BY <3>1, <3>6, <3>7
  <2>13. CASE Cluster!writeFull(p)
    <3>1. PICK code \in {0, 1}, o \in {"partial", "full"} :
             /\ code = 0 => o = "full"
             /\ o = "full" => code = 0
             /\ output' = [output EXCEPT ![p] = o] /\ exit' = [exit EXCEPT ![p] = code]
             /\ stage' = [stage EXCEPT ![p] = "exited"]
      BY <2>13 DEF Cluster!writeFull, Cluster!Exit, Cluster!Goto
    <3>2. stage[p] = "write" /\ UNCHANGED <<signalled, stale, client, fixture, store>>
      BY <2>13 DEF Cluster!writeFull
    <3>3. /\ output' \in [Processes -> {"none", "partial", "full"}] /\ output'[p] = o
          /\ exit' \in [Processes -> {-1, 0, 1}] /\ exit'[p] = code /\ stage'[p] = "exited"
          /\ \A q \in Processes : q # p => output'[q] = output[q] /\ exit'[q] = exit[q]
      BY <1>1, <3>1
    <3>4. \A g \in Leftovers : LeftOf(g)' = LeftOf(g)
      BY <3>2 DEF LeftOf
    <3>5. ClusterRun(p)' /\ ClusterLeft(p)' /\ "exited" \in Cluster!Stages
      BY <2>1, <3>1, <3>2, <3>3 DEF ClusterRun, ClusterLeft, Cluster!Stages
    <3>6. /\ stage' = [stage EXCEPT ![p] = "exited"] /\ signalled' = signalled /\ client' = client
          /\ fixture' = fixture /\ stale' = stale
          /\ \A g \in Leftovers : LeftOf(g)' \subseteq LeftOf(g)
      BY <3>1, <3>2, <3>4
    <3>7. /\ signalled' \in [Processes -> BOOLEAN] /\ stale' = [q \in Processes |-> stale'[q]]
          /\ client' \in [Processes -> {"none", "open", "closed", "closed_again"}]
      BY <1>1, <1>2, <3>6
    <3>8. \A q \in Processes : q # p => /\ client'[q] = client[q] /\ output'[q] = output[q]
                                         /\ exit'[q] = exit[q] /\ stale'[q] = stale[q]
      BY <3>3, <3>6
    <3> QED
      BY <1>3, <3>3, <3>5, <3>6, <3>7, <3>8
  <2> QED
    BY <1>7, <2>2, <2>3, <2>5, <2>6, <2>7, <2>8, <2>9, <2>10, <2>11, <2>12, <2>13 DEF Cluster!Step
<1> QED
  BY <1>5, <1>6, <1>7 DEF Cluster!Next

\* Whatever Analyze puts into the report.
LEMMA ClusterAnalyzes ==
    ASSUME ClusterInv, NEW p \in Processes, stage[p] = "analyze",
           stage' = [stage EXCEPT ![p] = "encode"],
           UNCHANGED <<signalled, stale, client, output, exit, fixture, store>>
    PROVE  ClusterInv'
<1>1. stage \in [Processes -> Cluster!Stages] /\ stage' \in [Processes -> Cluster!Stages]
  BY DEF ClusterInv, Cluster!TypeOK, Cluster!Stages
<1>2. Cluster!TypeOK'
  BY <1>1 DEF ClusterInv, Cluster!TypeOK
<1>3. ASSUME NEW q \in Processes
      PROVE  ClusterRun(q)' /\ ClusterLeft(q)'
  BY <1>1 DEF ClusterInv, ClusterRun, ClusterLeft, LeftOf
<1> QED
  BY <1>2, <1>3 DEF ClusterInv

LEMMA ClusterParts ==
    ASSUME ClusterInv
    PROVE  Cluster!TypeOK /\ Cluster!ClosedOnce /\ Cluster!LeftoversAreReplaced
<1>1. Cluster!ClosedOnce
  <2>1. ASSUME NEW p \in Processes
        PROVE  client[p] # "closed_again" /\ (stage[p] = "exited" => client[p] # "open")
    BY DEF ClusterInv, ClusterRun, Cluster!TypeOK, Cluster!Stages
  <2> QED
    BY <2>1 DEF Cluster!ClosedOnce
<1>2. Cluster!LeftoversAreReplaced
  BY DEF ClusterInv, ClusterLeft, LeftOf, Cluster!LeftoversAreReplaced
<1> QED
  BY <1>1, <1>2 DEF ClusterInv

\* run of the graph analysis: every way out of a run that has opened its Neo4j client closes
\* it exactly once, whatever fails and whenever a signal arrives.
THEOREM ClientsAreClosedOnce ==
    Cluster!ClusterAssumption /\ Cluster!Spec => [](Cluster!ClosedOnce)
<1> SUFFICES ASSUME Cluster!ClusterAssumption
             PROVE  Cluster!Spec => [](Cluster!ClosedOnce)
  OBVIOUS
<1>1. Cluster!Init => ClusterInv
  BY ClusterBegins
<1>2. ClusterInv /\ [Cluster!Next]_(Cluster!vars) => ClusterInv'
  BY ClusterStep
<1>3. ClusterInv => Cluster!ClosedOnce
  BY ClusterParts
<1> QED
  BY <1>1, <1>2, <1>3, PTL DEF Cluster!Spec

\* ReplaceFixture: once a process has replaced the fixture, nothing that earlier runs left in
\* the database is there any more, however many processes replace it at the same time.
THEOREM ReplacementRemovesLeftovers ==
    Cluster!ClusterAssumption /\ Cluster!Spec => [](Cluster!LeftoversAreReplaced)
<1> SUFFICES ASSUME Cluster!ClusterAssumption
             PROVE  Cluster!Spec => [](Cluster!LeftoversAreReplaced)
  OBVIOUS
<1>1. Cluster!Init => ClusterInv
  BY ClusterBegins
<1>2. ClusterInv /\ [Cluster!Next]_(Cluster!vars) => ClusterInv'
  BY ClusterStep
<1>3. ClusterInv => Cluster!LeftoversAreReplaced
  BY ClusterParts
<1> QED
  BY <1>1, <1>2, <1>3, PTL DEF Cluster!Spec

================================================================================
