------------------------------- MODULE BatchStep -------------------------------
(***************************************************************************)
(* One run of batch.Step, the chunk-oriented step of the bluetape-go       *)
(* library on which the batch examples are built.  The library is not part *)
(* of this repository: its loop is modelled from the Reader, Processor,    *)
(* Writer and CheckpointStore callbacks the examples hand to it and from   *)
(* the contract the repository records in                                  *)
(* docs/superpowers/research/2026-06-09-issue-73-*.md (lines 81-83) and    *)
(* 2026-06-09-issue-41-*.md (lines 55-58).                                 *)
(*                                                                         *)
(* The module only offers the library's half of every step: an example's   *)
(* module EXTENDS it and conjoins what its own callback does.              *)
(***************************************************************************)
EXTENDS Integers, FiniteSets

CONSTANTS
    N,              \* number of source records, read as 0 .. N-1
    ChunkSize,      \* StepOptions.ChunkSize
    Checkpointed,   \* does StepOptions name a CheckpointStore?
    SaveAfterSkip   \* when a skipped record is followed by a checkpoint save

ASSUME StepAssumption ==
    /\ N \in Nat
    /\ ChunkSize \in Nat \ {0}
    /\ Checkpointed \in BOOLEAN
    /\ SaveAfterSkip \in {"always", "emptyChunk"}

VARIABLES
    pc,         \* where the step loop stands
    cursor,     \* the reader's next unread index
    eof,        \* the reader has reported the end of the source
    chunk,      \* accepted records that are not written yet
    ckpt,       \* the stored checkpoint, NoCheckpoint when the key is absent
    cancelled,  \* ctx.Err() # nil for the context of this run
    err         \* report.Err of this run

stepVars == <<pc, cursor, eof, chunk, ckpt, cancelled, err>>

Records == 0 .. (N - 1)
NoCheckpoint == -1

StepTypeOK(errors) ==
    /\ pc \in {"idle", "open", "read", "process", "write", "save", "close", "finish"}
    /\ cursor \in 0 .. N
    /\ eof \in BOOLEAN
    /\ chunk \in SUBSET Records
    /\ ckpt \in Int
    /\ cancelled \in BOOLEAN
    /\ err \in errors

StepInit(checkpoints) ==
    /\ pc = "idle"
    /\ cursor = 0
    /\ eof = FALSE
    /\ chunk = {}
    /\ ckpt \in checkpoints
    /\ cancelled = FALSE
    /\ err = "none"

\* The record the processor is working on: Read has already moved the cursor.
Current == cursor - 1

\* The first record of the chunk in source order.
FirstOfChunk(i) == i \in chunk /\ \A j \in chunk : i <= j

Goto(label) == pc' = label

\* The step stops with an error: what is still in the chunk is dropped.
Abort(e) ==
    /\ err' = e
    /\ chunk' = {}
    /\ Goto("finish")
    /\ UNCHANGED <<cursor, eof, ckpt, cancelled>>

\* job.Run is entered with a fresh reader, writer and report.
StepBegin(ctxDone) ==
    /\ pc = "idle"
    /\ Goto("open")
    /\ cursor' = 0
    /\ eof' = FALSE
    /\ chunk' = {}
    /\ cancelled' = ctxDone
    /\ err' = "none"
    /\ UNCHANGED ckpt

\* The caller cancels the context of the run in flight.
CancelContext ==
    /\ pc # "idle"
    /\ ~cancelled
    /\ cancelled' = TRUE
    /\ UNCHANGED <<pc, cursor, eof, chunk, ckpt, err>>

\* Every callback starts with "if err := ctx.Err(); err != nil { return err }".
AbortIfCancelled(label) ==
    /\ pc = label
    /\ cancelled
    /\ Abort("cancelled")

\* Reader and writer are opened, then the stored checkpoint is restored.
Restore(next) ==
    /\ pc = "open"
    /\ ~cancelled
    /\ cursor' = next
    /\ Goto("read")
    /\ UNCHANGED <<eof, chunk, ckpt, cancelled, err>>

\* The reader hands out the next record.
ReadRecord ==
    /\ pc = "read"
    /\ ~cancelled
    /\ cursor < N
    /\ cursor' = cursor + 1
    /\ Goto("process")
    /\ UNCHANGED <<eof, chunk, ckpt, cancelled, err>>

\* The reader is exhausted: a partial chunk is flushed before the step closes.
ReadEnd ==
    /\ pc = "read"
    /\ ~cancelled
    /\ cursor >= N
    /\ eof' = TRUE
    /\ Goto(IF chunk = {} THEN "close" ELSE "write")
    /\ UNCHANGED <<cursor, chunk, ckpt, cancelled, err>>

\* The step is about to call the processor and its context is live.
Processing == pc = "process" /\ ~cancelled

\* The processor accepted the record.
Accept ==
    /\ Processing
    /\ chunk' = chunk \union {Current}
    /\ Goto(IF Cardinality(chunk') >= ChunkSize THEN "write" ELSE "read")
    /\ UNCHANGED <<cursor, eof, ckpt, cancelled, err>>

\* The processor failed and the retry policy calls it again.
RetryRecord ==
    /\ Processing
    /\ UNCHANGED stepVars

\* The processor failed and the skip policy drops the record.
SkipRecord ==
    /\ Processing
    /\ Goto(IF Checkpointed /\ (SaveAfterSkip = "always" \/ chunk = {})
            THEN "save" ELSE "read")
    /\ UNCHANGED <<cursor, eof, chunk, ckpt, cancelled, err>>

\* The processor failed and neither policy covers the error.
FailRecord(e) ==
    /\ Processing
    /\ Abort(e)

\* The writer stored record i, the first of the chunk that is not stored yet.
WroteRecord(i) ==
    /\ pc = "write"
    /\ ~cancelled
    /\ FirstOfChunk(i)
    /\ chunk' = chunk \ {i}
    /\ Goto(IF chunk' # {} THEN "write"
            ELSE IF Checkpointed THEN "save"
            ELSE IF eof THEN "close" ELSE "read")
    /\ UNCHANGED <<cursor, eof, ckpt, cancelled, err>>

\* The writer gave up at record i.
FailWrite(i, e) ==
    /\ pc = "write"
    /\ ~cancelled
    /\ FirstOfChunk(i)
    /\ Abort(e)

\* The reader's checkpoint is saved.
SaveCheckpoint(value) ==
    /\ pc = "save"
    /\ ~cancelled
    /\ ckpt' = value
    /\ Goto(IF eof THEN "close" ELSE "read")
    /\ UNCHANGED <<cursor, eof, chunk, cancelled, err>>

\* Reader and writer are closed.  Their Close returns ctx.Err(): a context
\* cancelled this late may or may not turn the report into a cancelled one.
CloseStep ==
    /\ pc = "close"
    /\ err' \in {"none"} \union (IF cancelled THEN {"cancelled"} ELSE {})
    /\ Goto("finish")
    /\ UNCHANGED <<cursor, eof, chunk, ckpt, cancelled>>

\* report.Status as a function of report.Err.
StatusOf(e) ==
    CASE e = "none"      -> "completed"
      [] e = "cancelled" -> "cancelled"
      [] OTHER           -> "failed"

================================================================================
