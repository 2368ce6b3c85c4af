------------------------- MODULE BatchProgramsProofs -------------------------
(***************************************************************************)
(* Proofs about the programs of MCBatchPrograms side by side, as its run   *)
(* checks them.  What BatchProofs proves of a component for all constants  *)
(* is carried over by instantiating that module as MCBatchPrograms         *)
(* instantiates the component.                                             *)
(***************************************************************************)
EXTENDS MCBatchPrograms, TLAPS

\* The customer migration is not one of these programs: its constants have some value
\* and its variables stay unused.
Each == INSTANCE BatchProofs WITH
    N <- 5, ChunkSize <- 2, Checkpointed <- TRUE, SaveAfterSkip <- "always",
    Scenario <- [i \in 0 .. 4 |-> "success"], MayCancel <- TRUE, MidCancel <- FALSE,
    sink <- {}, attempt <- 0, rollback <- 0, replayed <- {}, response <- "unused",
    StartCheckpoints <- {-1, -2, 6}, CrashAccounts <- {1, 4, NoCrash},
    BlankAccounts <- {{}, {3}}, MaxCancels <- 2,
    CustomerID <- RepeatedID, BlankChoices <- {{}, {2}}, CrashChoices <- {0, 1, 2, 3, 4},
    MaxDisruptions <- 3,
    Queues <- TicketQueues, MaxAttempts <- 2, MaxSkips <- 2, MaxRuns <- 3,
    Messages <- Pair, Workers <- Pair, NoBody <- NoEvent, MaxFaults <- 2,
    Uploads <- SomeUploads, Foreign <- {[doc |-> "d", file |-> "none"]},
    NoTask <- "none", TaskFaults <- 3, Tasks <- {"t"}, BadTasks <- {"bad"},
    Processes <- Pair, Leftovers <- {"old", "older"}, Users <- 1 .. 4,
    Kind <- 11 :> "device" @@ 12 :> "payment_token", FixtureEdges <- SomeFixtures,
    Requests <- Pair, Products <- {1, 2}, Stock <- [p \in {1, 2} |-> 2],
    UnitPrice <- [p \in {1, 2} |-> p], Placements <- SomePlacements

\* The assumptions of the customer migration and of batch.Step.
LEMMA EachAssumptions ==
    /\ /\ TRUE
       /\ [i \in 0 .. 4 |-> "success"] \in [Each!Records -> {"success", "transient_once", "permanent"}]
       /\ 2 \in Nat \ {0, 1}
       /\ 2 \in Nat
       /\ {0, 1, 2, 3, 4} \subseteq Nat
       /\ {-1, -2, 6} \subseteq Int
       /\ TRUE \in BOOLEAN
       /\ 3 \in Nat
    /\ /\ 5 \in Nat
       /\ 2 \in Nat \ {0}
       /\ TRUE \in BOOLEAN
       /\ "always" \in {"always", "emptyChunk"}
<1>1. TRUE \in BOOLEAN
  BY Zenon
<1> QED
  BY <1>1 DEF Each!Records

LEMMA EachConstants ==
    /\ Each!StepConstants
    /\ Each!AccountSafe
    /\ Each!Account!AccountAssumption
    /\ Each!Csv!CsvAssumption
    /\ Each!Ticket!TicketAssumption
    /\ Each!Document!DocumentAssumption
    /\ Each!Task!TaskAssumption
    /\ Each!Cluster!ClusterAssumption
    /\ Each!Placing!PlacementAssumption
<1>1. Each!StepConstants /\ Each!AccountSafe
  BY DEF Each!StepConstants, Each!AccountSafe
<1>2. Each!Account!AccountAssumption
  BY AccountConstants, Zenon DEF Account!AccountAssumption, Each!Account!AccountAssumption,
     Account!Records, Each!Account!Records
<1>3. Each!Csv!CsvAssumption
  BY CsvConstants, Zenon DEF Csv!CsvAssumption, Each!Csv!CsvAssumption, Csv!Records,
     Each!Csv!Records
<1>4. Each!Ticket!TicketAssumption
  BY TicketConstants, Zenon DEF Ticket!TicketAssumption, Each!Ticket!TicketAssumption,
     Ticket!Records, Each!Ticket!Records, Ticket!IDs, Each!Ticket!IDs, Ticket!IDsOf,
     Each!Ticket!IDsOf
<1>5. Each!Document!DocumentAssumption
  BY DocumentConstants, Zenon DEF Document!DocumentAssumption,
     Each!Document!DocumentAssumption, Document!Keys, Each!Document!Keys
<1>6. Each!Task!TaskAssumption
  BY TaskConstants, Zenon DEF Task!TaskAssumption, Each!Task!TaskAssumption
<1>7. Each!Cluster!ClusterAssumption
  BY ClusterConstants, Zenon DEF Cluster!ClusterAssumption, Each!Cluster!ClusterAssumption,
     Cluster!Identifiers, Each!Cluster!Identifiers
<1>8. Each!Placing!PlacementAssumption
  BY PlacementConstants, Zenon DEF Placing!PlacementAssumption,
     Each!Placing!PlacementAssumption, Placing!IsFiniteSet, Each!Placing!IsFiniteSet,
     Placing!Lines, Each!Placing!Lines
<1> QED
  BY <1>1, <1>2, <1>3, <1>4, <1>5, <1>6, <1>7, <1>8

LEMMA SameAccount ==
    /\ Account!Init => Each!Account!Init
    /\ Account!Next => Each!Account!Next
    /\ Each!Account!TypeOK => Account!TypeOK
    /\ Each!Account!CommittedPrefix => Account!CommittedPrefix
    /\ Each!Account!CompletedMeansMigrated => Account!CompletedMeansMigrated
<1>1. Account!Init => Each!Account!Init
  BY Zenon DEF Account!Init, Each!Account!Init, Account!StepInit, Each!Account!StepInit,
     Account!NoResult, Each!Account!NoResult, Account!NoCheckpoint,
     Each!Account!NoCheckpoint
<1>2. Account!Next => Each!Account!Next
  BY Zenon DEF Account!Next, Each!Account!Next, Account!StartRun, Each!Account!StartRun,
     Account!Cancel, Each!Account!Cancel, Account!RunStep, Each!Account!RunStep,
     Account!StepBegin, Each!Account!StepBegin, Account!CancelContext,
     Each!Account!CancelContext, Account!NoticeCancel, Each!Account!NoticeCancel,
     Account!RestoreReader, Each!Account!RestoreReader, Account!Read, Each!Account!Read,
     Account!Process, Each!Account!Process, Account!Write, Each!Account!Write, Account!Save,
     Each!Account!Save, Account!Close, Each!Account!Close, Account!FinishRun,
     Each!Account!FinishRun, Account!Goto, Each!Account!Goto, Account!AbortIfCancelled,
     Each!Account!AbortIfCancelled, Account!accountVars, Each!Account!accountVars,
     Account!NoCheckpoint, Each!Account!NoCheckpoint, Account!Restore, Each!Account!Restore,
     Account!Abort, Each!Account!Abort, Account!ReadRecord, Each!Account!ReadRecord,
     Account!ReadEnd, Each!Account!ReadEnd, Account!Processing, Each!Account!Processing,
     Account!Current, Each!Account!Current, Account!FailRecord, Each!Account!FailRecord,
     Account!Accept, Each!Account!Accept, Account!Targets, Each!Account!Targets,
     Account!FailWrite, Each!Account!FailWrite, Account!WroteRecord,
     Each!Account!WroteRecord, Account!SaveCheckpoint, Each!Account!SaveCheckpoint,
     Account!CloseStep, Each!Account!CloseStep, Account!StatusOf, Each!Account!StatusOf,
     Account!Malformed, Each!Account!Malformed, Account!Cardinality,
     Each!Account!Cardinality, Account!FirstOfChunk, Each!Account!FirstOfChunk
<1>3. Each!Account!TypeOK => Account!TypeOK
  BY Zenon DEF Account!TypeOK, Each!Account!TypeOK, Account!StepTypeOK,
     Each!Account!StepTypeOK, Account!Errors, Each!Account!Errors, Account!Records,
     Each!Account!Records
<1>4. Each!Account!CommittedPrefix => Account!CommittedPrefix
  BY Zenon DEF Account!CommittedPrefix, Each!Account!CommittedPrefix, Account!Resume,
     Each!Account!Resume, Account!TornOnlyByCancel, Each!Account!TornOnlyByCancel,
     Account!NoCheckpoint, Each!Account!NoCheckpoint, Account!Torn, Each!Account!Torn
<1>5. Each!Account!CompletedMeansMigrated => Account!CompletedMeansMigrated
  BY Zenon DEF Account!CompletedMeansMigrated, Each!Account!CompletedMeansMigrated,
     Account!Resume, Each!Account!Resume, Account!Malformed, Each!Account!Malformed,
     Account!NoCheckpoint, Each!Account!NoCheckpoint
<1> QED
  BY <1>1, <1>2, <1>3, <1>4, <1>5

LEMMA SameCsv ==
    /\ Csv!Init => Each!Csv!Init
    /\ Csv!Next => Each!Csv!Next
    /\ Each!Csv!TypeOK => Csv!TypeOK
    /\ Each!Csv!NothingLostBehindCheckpoint => Csv!NothingLostBehindCheckpoint
    /\ Each!Csv!FirstRowWins => Csv!FirstRowWins
<1>1. Csv!Init => Each!Csv!Init
  BY Zenon DEF Csv!Init, Each!Csv!Init, Csv!StepInit, Each!Csv!StepInit, Csv!NoCheckpoint,
     Each!Csv!NoCheckpoint
<1>2. Csv!Next => Each!Csv!Next
  BY Zenon DEF Csv!Next, Each!Csv!Next, Csv!StartRun, Each!Csv!StartRun, Csv!Cancel,
     Each!Csv!Cancel, Csv!RunStep, Each!Csv!RunStep, Csv!Disrupt, Each!Csv!Disrupt,
     Csv!StepBegin, Each!Csv!StepBegin, Csv!CancelContext, Each!Csv!CancelContext,
     Csv!NoticeCancel, Each!Csv!NoticeCancel, Csv!OpenFails, Each!Csv!OpenFails,
     Csv!RestoreReader, Each!Csv!RestoreReader, Csv!Read, Each!Csv!Read, Csv!Process,
     Each!Csv!Process, Csv!Write, Each!Csv!Write, Csv!Save, Each!Csv!Save, Csv!Close,
     Each!Csv!Close, Csv!FinishRun, Each!Csv!FinishRun, Csv!Goto, Each!Csv!Goto,
     Csv!AbortIfCancelled, Each!Csv!AbortIfCancelled, Csv!csvVars, Each!Csv!csvVars,
     Csv!Abort, Each!Csv!Abort, Csv!NoCheckpoint, Each!Csv!NoCheckpoint, Csv!Restore,
     Each!Csv!Restore, Csv!ReadRecord, Each!Csv!ReadRecord, Csv!ReadEnd, Each!Csv!ReadEnd,
     Csv!Processing, Each!Csv!Processing, Csv!Current, Each!Csv!Current, Csv!FailRecord,
     Each!Csv!FailRecord, Csv!Accept, Each!Csv!Accept, Csv!Put, Each!Csv!Put,
     Csv!NewCommits, Each!Csv!NewCommits, Csv!FailWrite, Each!Csv!FailWrite,
     Csv!WroteRecord, Each!Csv!WroteRecord, Csv!SaveCheckpoint, Each!Csv!SaveCheckpoint,
     Csv!CloseStep, Each!Csv!CloseStep, Csv!StatusOf, Each!Csv!StatusOf, Csv!Cardinality,
     Each!Csv!Cardinality, Csv!FirstOfChunk, Each!Csv!FirstOfChunk
<1>3. Each!Csv!TypeOK => Csv!TypeOK
  BY Zenon DEF Csv!TypeOK, Each!Csv!TypeOK, Csv!StepTypeOK, Each!Csv!StepTypeOK, Csv!Errors,
     Each!Csv!Errors, Csv!IDs, Each!Csv!IDs, Csv!Records, Each!Csv!Records
<1>4. Each!Csv!NothingLostBehindCheckpoint => Csv!NothingLostBehindCheckpoint
  BY Zenon DEF Csv!NothingLostBehindCheckpoint, Each!Csv!NothingLostBehindCheckpoint,
     Csv!IDs, Each!Csv!IDs, Csv!Records, Each!Csv!Records, Csv!NoCheckpoint,
     Each!Csv!NoCheckpoint
<1>5. Each!Csv!FirstRowWins => Csv!FirstRowWins
  BY Zenon DEF Csv!FirstRowWins, Each!Csv!FirstRowWins, Csv!Records, Each!Csv!Records,
     Csv!NewCommits, Each!Csv!NewCommits, Csv!Cardinality, Each!Csv!Cardinality
<1> QED
  BY <1>1, <1>2, <1>3, <1>4, <1>5

LEMMA SameTicket ==
    /\ Ticket!Init => Each!Ticket!Init
    /\ Ticket!Next => Each!Ticket!Next
    /\ Each!Ticket!TypeOK => Ticket!TypeOK
    /\ Each!Ticket!NoTicketIsLost => Ticket!NoTicketIsLost
    /\ Each!Ticket!WritesAreStored => Ticket!WritesAreStored
<1>1. Ticket!Init => Each!Ticket!Init
  BY Zenon DEF Ticket!Init, Each!Ticket!Init, Ticket!StepInit, Each!Ticket!StepInit,
     Ticket!NoCheckpoint, Each!Ticket!NoCheckpoint, Ticket!IDs, Each!Ticket!IDs,
     Ticket!IDsOf, Each!Ticket!IDsOf, Ticket!Records, Each!Ticket!Records
<1>2. Ticket!Next => Each!Ticket!Next
  BY Zenon DEF Ticket!Next, Each!Ticket!Next, Ticket!StartRun, Each!Ticket!StartRun,
     Ticket!Cancel, Each!Ticket!Cancel, Ticket!RunStep, Each!Ticket!RunStep,
     Ticket!StepBegin, Each!Ticket!StepBegin, Ticket!IDs, Each!Ticket!IDs,
     Ticket!CancelContext, Each!Ticket!CancelContext, Ticket!ticketVars,
     Each!Ticket!ticketVars, Ticket!NoticeCancel, Each!Ticket!NoticeCancel, Ticket!Open,
     Each!Ticket!Open, Ticket!Read, Each!Ticket!Read, Ticket!ProcessAccepts,
     Each!Ticket!ProcessAccepts, Ticket!ProcessThrottled, Each!Ticket!ProcessThrottled,
     Ticket!ProcessDeadLetters, Each!Ticket!ProcessDeadLetters, Ticket!Write,
     Each!Ticket!Write, Ticket!Close, Each!Ticket!Close, Ticket!FinishRun,
     Each!Ticket!FinishRun, Ticket!Goto, Each!Ticket!Goto, Ticket!IDsOf, Each!Ticket!IDsOf,
     Ticket!AbortIfCancelled, Each!Ticket!AbortIfCancelled, Ticket!Restore,
     Each!Ticket!Restore, Ticket!ReadRecord, Each!Ticket!ReadRecord, Ticket!ReadEnd,
     Each!Ticket!ReadEnd, Ticket!Processing, Each!Ticket!Processing, Ticket!Scenario,
     Each!Ticket!Scenario, Ticket!ID, Each!Ticket!ID, Ticket!Accept, Each!Ticket!Accept,
     Ticket!NextAttempt, Each!Ticket!NextAttempt, Ticket!RetryRecord,
     Each!Ticket!RetryRecord, Ticket!FailRecord, Each!Ticket!FailRecord, Ticket!Record,
     Each!Ticket!Record, Ticket!SkipRecord, Each!Ticket!SkipRecord, Ticket!FailWrite,
     Each!Ticket!FailWrite, Ticket!WroteRecord, Each!Ticket!WroteRecord, Ticket!Put,
     Each!Ticket!Put, Ticket!CloseStep, Each!Ticket!CloseStep, Ticket!StatusOf,
     Each!Ticket!StatusOf, Ticket!Records, Each!Ticket!Records, Ticket!Abort,
     Each!Ticket!Abort, Ticket!Current, Each!Ticket!Current, Ticket!Cardinality,
     Each!Ticket!Cardinality, Ticket!stepVars, Each!Ticket!stepVars, Ticket!FirstOfChunk,
     Each!Ticket!FirstOfChunk
<1>3. Each!Ticket!TypeOK => Ticket!TypeOK
  BY Zenon DEF Ticket!TypeOK, Each!Ticket!TypeOK, Ticket!StepTypeOK, Each!Ticket!StepTypeOK,
     Ticket!Errors, Each!Ticket!Errors, Ticket!IDs, Each!Ticket!IDs, Ticket!Records,
     Each!Ticket!Records, Ticket!IDsOf, Each!Ticket!IDsOf
<1>4. Each!Ticket!NoTicketIsLost => Ticket!NoTicketIsLost
  BY Zenon DEF Ticket!NoTicketIsLost, Each!Ticket!NoTicketIsLost, Ticket!IDsOf,
     Each!Ticket!IDsOf, Ticket!ID, Each!Ticket!ID, Ticket!Records, Each!Ticket!Records,
     Ticket!Current, Each!Ticket!Current
<1>5. Each!Ticket!WritesAreStored => Ticket!WritesAreStored
  BY Zenon DEF Ticket!WritesAreStored, Each!Ticket!WritesAreStored, Ticket!Cardinality,
     Each!Ticket!Cardinality
<1> QED
  BY <1>1, <1>2, <1>3, <1>4, <1>5

LEMMA SameDocument ==
    /\ Document!Init => Each!Document!Init
    /\ Document!Next => Each!Document!Next
    /\ Each!Document!TypeOK => Document!TypeOK
    /\ Each!Document!AckedMeansRecorded => Document!AckedMeansRecorded
    /\ Each!Document!RecordsAreOfObjects => Document!RecordsAreOfObjects
    /\ Each!Document!RecordStays => Document!RecordStays
<1>1. Document!Init => Each!Document!Init
  BY Zenon DEF Document!Init, Each!Document!Init, Document!QueueInit,
     Each!Document!QueueInit, Document!NoUpload, Each!Document!NoUpload, Document!Keys,
     Each!Document!Keys, Document!Docs, Each!Document!Docs, Document!NoItem,
     Each!Document!NoItem, Document!Unsent, Each!Document!Unsent, Document!NoDelivery,
     Each!Document!NoDelivery
<1>2. Document!Next => Each!Document!Next
  BY Zenon DEF Document!Next, Each!Document!Next, Document!Submit, Each!Document!Submit,
     Document!SubmitStep, Each!Document!SubmitStep, Document!SubmitFails,
     Each!Document!SubmitFails, Document!ForeignSend, Each!Document!ForeignSend,
     Document!Receive, Each!Document!Receive, Document!ProcessStep,
     Each!Document!ProcessStep, Document!CallFails, Each!Document!CallFails,
     Document!GiveUp, Each!Document!GiveUp, Document!Timeout, Each!Document!Timeout,
     Document!Sent, Each!Document!Sent, Document!Goto, Each!Document!Goto,
     Document!queueVars, Each!Document!queueVars, Document!PutObject,
     Each!Document!PutObject, Document!SendEvent, Each!Document!SendEvent, Document!Fault,
     Each!Document!Fault, Document!KeyOf, Each!Document!KeyOf, Document!SendMessage,
     Each!Document!SendMessage, Document!NoUpload, Each!Document!NoUpload, Document!docVars,
     Each!Document!docVars, Document!ReceiveMessage, Each!Document!ReceiveMessage,
     Document!Decode, Each!Document!Decode, Document!ReadObject, Each!Document!ReadObject,
     Document!RecordProcessed, Each!Document!RecordProcessed, Document!Ack,
     Each!Document!Ack, Document!Retry, Each!Document!Retry, Document!PutItem,
     Each!Document!PutItem, Document!DeleteMessage, Each!Document!DeleteMessage,
     Document!ChangeMessageVisibility, Each!Document!ChangeMessageVisibility,
     Document!Leave, Each!Document!Leave, Document!VisibilityTimeout,
     Each!Document!VisibilityTimeout, Document!SetState, Each!Document!SetState,
     Document!Event, Each!Document!Event, Document!Keys, Each!Document!Keys, Document!Last,
     Each!Document!Last, Document!Exists, Each!Document!Exists, Document!Release,
     Each!Document!Release, Document!NoItem, Each!Document!NoItem, Document!NoDelivery,
     Each!Document!NoDelivery
<1>3. Each!Document!TypeOK => Document!TypeOK
  BY Zenon DEF Document!TypeOK, Each!Document!TypeOK, Document!QueueTypeOK,
     Each!Document!QueueTypeOK, Document!NoUpload, Each!Document!NoUpload, Document!Keys,
     Each!Document!Keys, Document!Docs, Each!Document!Docs, Document!NoItem,
     Each!Document!NoItem
<1>4. Each!Document!AckedMeansRecorded => Document!AckedMeansRecorded
  BY Zenon DEF Document!AckedMeansRecorded, Each!Document!AckedMeansRecorded, Document!Keys,
     Each!Document!Keys, Document!Exists, Each!Document!Exists, Document!NoItem,
     Each!Document!NoItem
<1>5. Each!Document!RecordsAreOfObjects => Document!RecordsAreOfObjects
  BY Zenon DEF Document!RecordsAreOfObjects, Each!Document!RecordsAreOfObjects,
     Document!Sent, Each!Document!Sent, Document!Keys, Each!Document!Keys, Document!Docs,
     Each!Document!Docs, Document!Exists, Each!Document!Exists, Document!ToSet,
     Each!Document!ToSet, Document!NoItem, Each!Document!NoItem
<1>6. Each!Document!RecordStays => Document!RecordStays
  BY Zenon DEF Document!RecordStays, Each!Document!RecordStays, Document!Docs,
     Each!Document!Docs, Document!Exists, Each!Document!Exists, Document!NoItem,
     Each!Document!NoItem
<1> QED
  BY <1>1, <1>2, <1>3, <1>4, <1>5, <1>6

LEMMA SameTask ==
    /\ Task!Init => Each!Task!Init
    /\ Task!Next => Each!Task!Next
    /\ Each!Task!TypeOK => Task!TypeOK
    /\ Each!Task!WorkedBeforeAck => Task!WorkedBeforeAck
<1>1. Task!Init => Each!Task!Init
  BY Zenon DEF Task!Init, Each!Task!Init, Task!QueueInit, Each!Task!QueueInit, Task!Unsent,
     Each!Task!Unsent, Task!NoDelivery, Each!Task!NoDelivery
<1>2. Task!Next => Each!Task!Next
  BY Zenon DEF Task!Next, Each!Task!Next, Task!Enqueue, Each!Task!Enqueue,
     Task!EnqueueFails, Each!Task!EnqueueFails, Task!Receive, Each!Task!Receive,
     Task!PollStep, Each!Task!PollStep, Task!HandlerFails, Each!Task!HandlerFails,
     Task!GiveUp, Each!Task!GiveUp, Task!Timeout, Each!Task!Timeout, Task!SendMessage,
     Each!Task!SendMessage, Task!Fault, Each!Task!Fault, Task!ReceiveMessage,
     Each!Task!ReceiveMessage, Task!Goto, Each!Task!Goto, Task!decodeTask,
     Each!Task!decodeTask, Task!Handle, Each!Task!Handle, Task!Ack, Each!Task!Ack,
     Task!RetrySoon, Each!Task!RetrySoon, Task!Handled, Each!Task!Handled,
     Task!DeleteMessage, Each!Task!DeleteMessage, Task!ChangeMessageVisibility,
     Each!Task!ChangeMessageVisibility, Task!Release, Each!Task!Release,
     Task!VisibilityTimeout, Each!Task!VisibilityTimeout, Task!Sent, Each!Task!Sent,
     Task!SetState, Each!Task!SetState, Task!queueVars, Each!Task!queueVars,
     Task!NoDelivery, Each!Task!NoDelivery
<1>3. Each!Task!TypeOK => Task!TypeOK
  BY Zenon DEF Task!TypeOK, Each!Task!TypeOK, Task!QueueTypeOK, Each!Task!QueueTypeOK
<1>4. Each!Task!WorkedBeforeAck => Task!WorkedBeforeAck
  BY Zenon DEF Task!WorkedBeforeAck, Each!Task!WorkedBeforeAck, Task!Busy, Each!Task!Busy,
     Task!Cardinality, Each!Task!Cardinality
<1> QED
  BY <1>1, <1>2, <1>3, <1>4

\* The edges a replacement creates; the fixture of a replaced graph.
LEMMA SameGraphs ==
    /\ \A g : Cluster!Generation(g) = Each!Cluster!Generation(g)
    /\ \A g, vs, es : Cluster!Linked(g, vs, es) = Each!Cluster!Linked(g, vs, es)
    /\ \A g, old : Cluster!Replaced(g, old) = Each!Cluster!Replaced(g, old)
<1>1. \A g : Cluster!Generation(g) = Each!Cluster!Generation(g)
  BY Zenon DEF Cluster!Generation, Each!Cluster!Generation, Cluster!Opaque,
     Each!Cluster!Opaque, Cluster!Identifiers, Each!Cluster!Identifiers
<1>2. \A g, vs, es : Cluster!Linked(g, vs, es) = Each!Cluster!Linked(g, vs, es)
  BY SMT DEF Cluster!Linked, Each!Cluster!Linked
<1>3. \A g, old : Cluster!Replaced(g, old) = Each!Cluster!Replaced(g, old)
  BY <1>1, <1>2, Zenon DEF Cluster!Replaced, Each!Cluster!Replaced
<1> QED
  BY <1>1, <1>2, <1>3

LEMMA SameCluster ==
    /\ Cluster!Init => Each!Cluster!Init
    /\ Cluster!Next => Each!Cluster!Next \/ \E p \in Pair : Cluster!Analyze(p)
    /\ Each!Cluster!TypeOK => Cluster!TypeOK
    /\ Each!Cluster!ClosedOnce => Cluster!ClosedOnce
    /\ Each!Cluster!LeftoversAreReplaced => Cluster!LeftoversAreReplaced
<1>1. Cluster!Init => Each!Cluster!Init
  <2>1. SUFFICES ASSUME Cluster!Init PROVE Each!Cluster!Init
    OBVIOUS
  <2>2. PICK gs \in SUBSET {"old", "older"} :
           store = [vertices |-> UNION {Cluster!Generation(g) : g \in gs},
                    edges |-> UNION {Cluster!Linked(g, UNION {Cluster!Generation(h) : h \in gs}, fixture) :
                                        g \in gs}]
    BY <2>1, Zenon DEF Cluster!Init
  <2>3. UNION {Cluster!Generation(g) : g \in gs} = UNION {Each!Cluster!Generation(g) : g \in gs}
    BY SameGraphs
  <2>4. \A vs : UNION {Cluster!Linked(g, vs, fixture) : g \in gs}
                  = UNION {Each!Cluster!Linked(g, vs, fixture) : g \in gs}
    BY SameGraphs
  <2>5. store = [vertices |-> UNION {Each!Cluster!Generation(g) : g \in gs},
                 edges |-> UNION {Each!Cluster!Linked(g, UNION {Each!Cluster!Generation(h) : h \in gs},
                                                      fixture) : g \in gs}]
    <3>1. PICK vs : vs = UNION {Cluster!Generation(g) : g \in gs}
      OBVIOUS
    <3>2. PICK es : es = UNION {Cluster!Linked(g, vs, fixture) : g \in gs}
      OBVIOUS
    <3>3. store = [vertices |-> vs, edges |-> es]
      BY <2>2, <3>1, <3>2, Zenon
    <3>4. vs = UNION {Each!Cluster!Generation(g) : g \in gs}
      BY <2>3, <3>1, Zenon
    <3>5. es = UNION {Each!Cluster!Linked(g, vs, fixture) : g \in gs}
      BY <2>4, <3>2, Zenon
    <3> QED
      BY <3>3, <3>4, <3>5, Zenon
  <2> QED
    BY <2>1, <2>5, Zenon DEF Cluster!Init, Each!Cluster!Init, Cluster!EmptyGraph,
       Each!Cluster!EmptyGraph, Cluster!NoReport, Each!Cluster!NoReport
<1>2. Cluster!Next => Each!Cluster!Next \/ \E p \in Pair : Cluster!Analyze(p)
  BY SameGraphs, Zenon DEF Cluster!Next, Each!Cluster!Next, Cluster!Cancel, Each!Cluster!Cancel,
     Cluster!Step, Each!Cluster!Step, Cluster!Open, Each!Cluster!Open, Cluster!Fails,
     Each!Cluster!Fails, Cluster!Verify, Each!Cluster!Verify, Cluster!MatchStale,
     Each!Cluster!MatchStale, Cluster!ReplaceFixture, Each!Cluster!ReplaceFixture,
     Cluster!ReadVertices, Each!Cluster!ReadVertices, Cluster!ReadEdges,
     Each!Cluster!ReadEdges, Cluster!Encode,
     Each!Cluster!Encode, Cluster!Close, Each!Cluster!Close, Cluster!writeFull,
     Each!Cluster!writeFull, Cluster!Goto, Each!Cluster!Goto, Cluster!Exit,
     Each!Cluster!Exit, Cluster!loadVertices,
     Each!Cluster!loadVertices, Cluster!loadEdges, Each!Cluster!loadEdges
<1>3. Each!Cluster!TypeOK => Cluster!TypeOK
  BY Zenon DEF Cluster!TypeOK, Each!Cluster!TypeOK, Cluster!Stages, Each!Cluster!Stages
<1>4. Each!Cluster!ClosedOnce => Cluster!ClosedOnce
  BY Zenon DEF Cluster!ClosedOnce, Each!Cluster!ClosedOnce
<1>5. Each!Cluster!LeftoversAreReplaced => Cluster!LeftoversAreReplaced
  BY Zenon DEF Cluster!LeftoversAreReplaced, Each!Cluster!LeftoversAreReplaced,
     Cluster!Generation, Each!Cluster!Generation, Cluster!Opaque, Each!Cluster!Opaque,
     Cluster!Identifiers, Each!Cluster!Identifiers
<1> QED
  BY <1>1, <1>2, <1>3, <1>4, <1>5

LEMMA SamePlacing ==
    /\ Placing!Init => Each!Placing!Init
    /\ Placing!Next => Each!Placing!Next
    /\ Each!Placing!TypeOK => Placing!TypeOK
    /\ Each!Placing!StockIsConserved => Placing!StockIsConserved
    /\ Each!Placing!PlacedIsStored => Placing!PlacedIsStored
<1>1. Placing!Init => Each!Placing!Init
  BY Zenon DEF Placing!Init, Each!Placing!Init, Placing!NoWant, Each!Placing!NoWant
<1>2. Placing!Next => Each!Placing!Next
  BY Zenon DEF Placing!Next, Each!Placing!Next, Placing!Call, Each!Placing!Call,
     Placing!Cancel, Each!Placing!Cancel, Placing!Advance, Each!Placing!Advance,
     Placing!Valid, Each!Placing!Valid, Placing!Goto, Each!Placing!Goto,
     Placing!StatementFails, Each!Placing!StatementFails, Placing!LockByID,
     Each!Placing!LockByID, Placing!Debit, Each!Placing!Debit, Placing!InsertOrder,
     Each!Placing!InsertOrder, Placing!Pay, Each!Placing!Pay, Placing!Commit,
     Each!Placing!Commit, Placing!Done, Each!Placing!Done, Placing!Return,
     Each!Placing!Return, Placing!Unlocked, Each!Placing!Unlocked, Placing!Min,
     Each!Placing!Min, Placing!ProductIDs, Each!Placing!ProductIDs, Placing!Demand,
     Each!Placing!Demand, Placing!CommitTables, Each!Placing!CommitTables, Placing!NoWant,
     Each!Placing!NoWant, Placing!Indices, Each!Placing!Indices, Placing!MapThenSumSet,
     Each!Placing!MapThenSumSet, Placing!Total, Each!Placing!Total, Placing!MapThenFoldSet,
     Each!Placing!MapThenFoldSet
<1>3. Each!Placing!TypeOK => Placing!TypeOK
  BY Zenon DEF Placing!TypeOK, Each!Placing!TypeOK, Placing!NoWant, Each!Placing!NoWant,
     Placing!Outcomes, Each!Placing!Outcomes, Placing!Lines, Each!Placing!Lines
<1>4. Each!Placing!StockIsConserved => Placing!StockIsConserved
  BY Zenon DEF Placing!StockIsConserved, Each!Placing!StockIsConserved, Placing!Sold,
     Each!Placing!Sold, Placing!MapThenSumSet, Each!Placing!MapThenSumSet,
     Placing!MapThenFoldSet, Each!Placing!MapThenFoldSet
<1>5. Each!Placing!PlacedIsStored => Placing!PlacedIsStored
  BY Zenon DEF Placing!PlacedIsStored, Each!Placing!PlacedIsStored, Placing!Total,
     Each!Placing!Total, Placing!MapThenSumSet, Each!Placing!MapThenSumSet, Placing!Indices,
     Each!Placing!Indices, Placing!MapThenFoldSet, Each!Placing!MapThenFoldSet
<1> QED
  BY <1>1, <1>2, <1>3, <1>4, <1>5

--------------------------------------------------------------------------------
\* The inductive invariant: of the program that runs, the one BatchProofs has for it.
ProgramsInv ==
    /\ program = "account" => Each!AccountInv
    /\ program = "csv" => Each!CsvInv
    /\ program = "ticket" => Each!TicketInv
    /\ program = "document" => Each!DocInv
    /\ program = "task" => Each!TaskInv
    /\ program = "cluster" => Each!ClusterInv
    /\ program = "placement" => Each!PlacingInv

LEMMA ProgramsBegin == Init => ProgramsInv
<1> SUFFICES ASSUME Init PROVE ProgramsInv
  OBVIOUS
<1>1. /\ program = "account" => Account!Init
      /\ program = "csv" => Csv!Init
      /\ program = "ticket" => Ticket!Init
      /\ program = "document" => Document!Init
      /\ program = "task" => Task!Init
      /\ program = "cluster" => Cluster!Init
      /\ program = "placement" => Placing!Init
  BY DEF Init, BatchInit, WorkerInit
<1>2. program = "account" => Each!AccountInv
  BY <1>1, SameAccount, EachConstants, EachAssumptions, Each!AccountBegins, Zenon
<1>3. program = "csv" => Each!CsvInv
  BY <1>1, SameCsv, EachConstants, EachAssumptions, Each!CsvBegins, Zenon
<1>4. program = "ticket" => Each!TicketInv
  BY <1>1, SameTicket, EachConstants, EachAssumptions, Each!TicketBegins, Zenon
<1>5. program = "document" => Each!DocInv
  BY <1>1, SameDocument, EachConstants, EachAssumptions, Each!DocBegins, Zenon
<1>6. program = "task" => Each!TaskInv
  BY <1>1, SameTask, EachConstants, EachAssumptions, Each!TaskBegins, Zenon
<1>7. program = "cluster" => Each!ClusterInv
  BY <1>1, SameCluster, EachAssumptions, Each!ClusterBegins, Zenon
<1>8. program = "placement" => Each!PlacingInv
  BY <1>1, SamePlacing, EachConstants, EachAssumptions, Each!PlacingBegins, Zenon
<1> QED
  BY <1>2, <1>3, <1>4, <1>5, <1>6, <1>7, <1>8 DEF ProgramsInv

\* A step is one of the program that runs.
LEMMA OneProgramRuns ==
    ASSUME [Next]_vars
    PROVE  /\ program' = program
           /\ program = "account" => [Each!Account!Next]_(Each!Account!vars)
           /\ program = "csv" => [Each!Csv!Next]_(Each!Csv!vars)
           /\ program = "ticket" => [Each!Ticket!Next]_(Each!Ticket!vars)
           /\ program = "document" => [Each!Document!Next]_(Each!Document!vars)
           /\ program = "task" => [Each!Task!Next]_(Each!Task!vars)
           /\ program = "cluster" => \/ [Each!Cluster!Next]_(Each!Cluster!vars)
                                     \/ \E p \in Pair : Cluster!Analyze(p)
           /\ program = "placement" => [Each!Placing!Next]_(Each!Placing!vars)
<1>1. CASE UNCHANGED vars
  <2>1. /\ UNCHANGED program /\ UNCHANGED stepVars /\ UNCHANGED accountVars /\ UNCHANGED blank
        /\ UNCHANGED csvVars /\ UNCHANGED status /\ UNCHANGED ticketVars
    BY <1>1 DEF vars, batchVars
  <2>2. /\ UNCHANGED stage /\ UNCHANGED mailVars /\ UNCHANGED documentVars /\ UNCHANGED effects
        /\ UNCHANGED clusterVars /\ UNCHANGED placementVars
    BY <1>1 DEF vars, workerVars
  <2>3. UNCHANGED Each!Account!vars /\ UNCHANGED Each!Csv!vars /\ UNCHANGED Each!Ticket!vars
    BY <2>1 DEF stepVars, accountVars, csvVars, ticketVars, Each!Account!vars, Each!Account!stepVars,
       Each!Account!accountVars, Each!Csv!vars, Each!Csv!stepVars, Each!Csv!csvVars, Each!Ticket!vars,
       Each!Ticket!stepVars, Each!Ticket!ticketVars
  <2>4. UNCHANGED Each!Document!vars /\ UNCHANGED Each!Task!vars
    BY <2>2 DEF mailVars, documentVars, Each!Document!vars, Each!Document!queueVars,
       Each!Document!docVars, Each!Task!vars, Each!Task!queueVars
  <2>5. UNCHANGED Each!Cluster!vars /\ UNCHANGED Each!Placing!vars
    BY <2>2 DEF clusterVars, placementVars, Each!Cluster!vars, Each!Cluster!runVars,
       Each!Placing!vars, Each!Placing!callVars
  <2> QED
    BY <2>1, <2>3, <2>4, <2>5
<1>2. CASE Next
  <2>1. /\ program' = program
        /\ program = "account" => Account!Next
        /\ program = "csv" => Csv!Next
        /\ program = "ticket" => Ticket!Next
        /\ program = "document" => Document!Next
        /\ program = "task" => Task!Next
        /\ program = "cluster" => Cluster!Next
        /\ program = "placement" => Placing!Next
    BY <1>2 DEF Next, RunsAccount, RunsCsv, RunsTicket, RunsDocument, RunsTask, RunsCluster,
       RunsPlacement
  <2> QED
    BY <2>1, SameAccount, SameCsv, SameTicket, SameDocument, SameTask, SameCluster, SamePlacing
<1> QED
  BY <1>1, <1>2

LEMMA ProgramsStep ==
    ASSUME ProgramsInv, [Next]_vars
    PROVE  /\ ProgramsInv'
           /\ program = "document" => Each!Document!RecordStays \/ UNCHANGED Each!Document!vars
<1>1. program = "account" => Each!AccountInv'
  BY OneProgramRuns, EachConstants, EachAssumptions, Each!AccountStep, Zenon DEF ProgramsInv
<1>2. program = "csv" => Each!CsvInv'
  BY OneProgramRuns, EachConstants, EachAssumptions, Each!CsvStep, Zenon DEF ProgramsInv
<1>3. program = "ticket" => Each!TicketInv'
  BY OneProgramRuns, EachConstants, EachAssumptions, Each!TicketStep, Zenon DEF ProgramsInv
<1>4. program = "document" =>
         Each!DocInv' /\ (Each!Document!RecordStays \/ UNCHANGED Each!Document!vars)
  BY OneProgramRuns, EachConstants, EachAssumptions, Each!DocStep, Zenon DEF ProgramsInv
<1>5. program = "task" => Each!TaskInv'
  BY OneProgramRuns, EachConstants, EachAssumptions, Each!TaskStep, Zenon DEF ProgramsInv
<1>6. program = "cluster" => Each!ClusterInv'
  <2>1. ASSUME Each!ClusterInv, NEW p \in Pair, Cluster!Analyze(p)
        PROVE  Each!ClusterInv'
    <3>1. /\ stage[p] = "analyze" /\ stage' = [stage EXCEPT ![p] = "encode"]
          /\ UNCHANGED <<signalled, stale, client, output, exit, fixture, store>>
      BY <2>1 DEF Cluster!Analyze, Cluster!Goto
    <3> QED
      BY <2>1, <3>1, EachAssumptions, Each!ClusterAnalyzes, Zenon
  <2> QED
    BY <2>1, OneProgramRuns, EachConstants, EachAssumptions, Each!ClusterStep, Zenon DEF ProgramsInv
<1>7. program = "placement" => Each!PlacingInv'
  BY OneProgramRuns, EachConstants, EachAssumptions, Each!PlacingStep, Zenon DEF ProgramsInv
<1> QED
  BY <1>1, <1>2, <1>3, <1>4, <1>5, <1>6, <1>7, OneProgramRuns DEF ProgramsInv

LEMMA ProgramsHold == ProgramsInv => TypeOK /\ NothingIsLost
<1> SUFFICES ASSUME ProgramsInv PROVE TypeOK /\ NothingIsLost
  OBVIOUS
<1>1. program = "account" => Account!TypeOK /\ Account!CommittedPrefix
  BY SameAccount, EachConstants, EachAssumptions, Each!AccountParts, Zenon DEF ProgramsInv
<1>2. program = "csv" => Csv!TypeOK /\ Csv!NothingLostBehindCheckpoint /\ Csv!FirstRowWins
  BY SameCsv, EachConstants, EachAssumptions, Each!CsvParts, Zenon DEF ProgramsInv
<1>3. program = "ticket" => Ticket!TypeOK
  BY SameTicket, EachAssumptions, Each!TicketParts, Zenon DEF ProgramsInv
<1>4. program = "document" =>
         Document!TypeOK /\ Document!AckedMeansRecorded /\ Document!RecordsAreOfObjects
  BY SameDocument, EachAssumptions, Each!DocParts, Zenon DEF ProgramsInv
<1>5. program = "task" => Task!TypeOK /\ Task!WorkedBeforeAck
  BY SameTask, EachConstants, EachAssumptions, Each!TaskParts, Zenon DEF ProgramsInv
<1>6. program = "cluster" => Cluster!TypeOK
  BY SameCluster, EachAssumptions, Each!ClusterParts, Zenon DEF ProgramsInv
<1>7. program = "placement" => Placing!TypeOK /\ Placing!StockIsConserved
  BY SamePlacing, EachConstants, EachAssumptions, Each!PlacingParts, Zenon DEF ProgramsInv
<1> QED
  BY <1>1, <1>2, <1>3, <1>4, <1>5, <1>6, <1>7 DEF TypeOK, NothingIsLost

LEMMA ProgramsInvariant == FairSpec => []ProgramsInv
<1>1. ProgramsInv /\ [Next]_vars => ProgramsInv'
  BY ProgramsStep
<1> QED
  BY ProgramsBegin, <1>1, PTL DEF FairSpec

\* batch.Step, the SQS workers, run of the graph analysis and PlaceOrder: no step of a
\* program leaves the types of its variables.
THEOREM BatchTypesCorrect == FairSpec => []TypeOK
BY ProgramsInvariant, ProgramsHold, PTL

\* RunMigration, RunImport, ProcessBatch, HandleNext and PlaceOrder: what a program will not
\* look at again is stored, however often its runs crash, are cancelled or see a message
\* again.
THEOREM BatchLosesNothing == FairSpec => []NothingIsLost
BY ProgramsInvariant, ProgramsHold, PTL

\* RunMigration: a chunk torn by a cancellation blocks every later run.
THEOREM BatchTornBlocks == FairSpec => TornBlocksProgress
<1> DEFINE Blocked == Each!AccountBlocked
<1>1. Each!Account!Torn <=> Account!Torn
  BY Zenon DEF Each!Account!Torn, Account!Torn, Each!Account!Resume, Account!Resume,
     Each!Account!NoCheckpoint, Account!NoCheckpoint
<1>2. ProgramsInv /\ program = "account" => (pc = "idle" /\ Account!Torn => Blocked)
  BY <1>1, EachConstants, EachAssumptions, Each!AccountParts, Zenon DEF ProgramsInv
<1>3. ProgramsInv /\ program = "account" /\ Blocked /\ [Next]_vars => Blocked'
  <2> SUFFICES ASSUME ProgramsInv, program = "account", Blocked, [Next]_vars
               PROVE  Blocked'
    OBVIOUS
  <2>1. [Each!Account!Next]_(Each!Account!vars)
    BY OneProgramRuns
  <2> QED
    BY <2>1, EachConstants, EachAssumptions, Each!AccountBlockedStep, Zenon DEF ProgramsInv
<1>4. Blocked => Account!Torn
  BY <1>1, Zenon DEF Each!AccountBlocked
<1>5. program = "account" /\ [Next]_vars => (program = "account")'
  BY OneProgramRuns
<1> HIDE DEF Blocked
<1> QED
  BY <1>2, <1>3, <1>4, <1>5, ProgramsInvariant, PTL
     DEF FairSpec, TornBlocksProgress, Account!TornBlocksProgress

\* recordProcessed: a redelivered or late event never changes the record of a document.
THEOREM BatchRecordStays == FairSpec => FirstRecordStays
<1>1. ProgramsInv /\ [Next]_vars => [program = "document" => Document!RecordStays]_vars
  <2> SUFFICES ASSUME ProgramsInv, [Next]_vars, program = "document"
               PROVE  Document!RecordStays \/ UNCHANGED vars
    BY Zenon
  <2>1. CASE Each!Document!RecordStays
    BY <2>1, SameDocument
  <2>2. CASE UNCHANGED Each!Document!vars
    BY <2>2 DEF Each!Document!vars, Each!Document!docVars, Document!RecordStays
  <2> QED
    BY <2>1, <2>2, ProgramsStep
<1> QED
  BY <1>1, ProgramsInvariant, PTL DEF FairSpec, FirstRecordStays

================================================================================
