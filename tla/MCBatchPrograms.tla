---------------------------- MODULE MCBatchPrograms ----------------------------
(***************************************************************************)
(* The programs that must come to an end side by side: the three over      *)
(* batch.Step, the two SQS workers, the graph analysis and the order       *)
(* transaction.  They share no state, so a behaviour is one of some        *)
(* program; the variables only the others have stay unused.                *)
(***************************************************************************)
EXTENDS Integers, Sequences, FiniteSets, TLC

CONSTANTS NoCrash

VARIABLES
    program,
    pc, cursor, eof, chunk, ckpt, cancelled, err,
    order, crashOn, result, cancels,
    blank,
    customers, duplicateSkips, writeAttempts, crashAfter, disruptions,
    status,
    queue, processed, dead, attempts, retries, skips, writes, runs,
    stage,                          \* process or worker -> where it stands
    mailbox, held, faults,
    upload, objects, read, table,
    effects,
    signalled, stale, loaded, report, client, output, exit, fixture, store,
    want, locked, expired, outcome, stock, placed

stepVars == <<pc, cursor, eof, chunk, ckpt, cancelled, err>>
accountVars == <<order, crashOn, result, cancels>>
csvVars == <<customers, duplicateSkips, writeAttempts, crashAfter, disruptions>>
ticketVars == <<queue, processed, dead, attempts, retries, skips, writes, runs>>
batchVars == <<stepVars, accountVars, blank, csvVars, status, ticketVars>>
mailVars == <<mailbox, held, faults>>
documentVars == <<upload, objects, read, table>>
clusterVars == <<signalled, stale, loaded, report, client, output, exit, fixture, store>>
placementVars == <<want, locked, expired, outcome, stock, placed>>
workerVars == <<stage, mailVars, documentVars, effects, clusterVars, placementVars>>
vars == <<program, batchVars, workerVars>>

\* A file whose fourth row repeats the second customer.
RepeatedID == [i \in 0 .. 4 |-> IF i = 3 THEN 1 ELSE i]

\* The positions of a queue by scenario; the others succeed.
Tickets(ids, transient, permanent, noTarget) ==
    [id |-> ids,
     scenario |-> [i \in 0 .. 4 |-> IF i \in transient THEN "transient_once"
                                    ELSE IF i \in permanent THEN "permanent"
                                    ELSE IF i \in noTarget THEN "no_target"
                                    ELSE "success"]]

\* The fixture; a queue whose last ticket repeats a throttled one; and one with more
\* undeliverable tickets than the skip budget, one of them repeating the first.
TicketQueues ==
    {Tickets([i \in 0 .. 4 |-> i], {1}, {2}, {}),
     Tickets([i \in 0 .. 4 |-> IF i = 4 THEN 1 ELSE i], {1, 4}, {2}, {}),
     Tickets([i \in 0 .. 4 |-> IF i = 3 THEN 0 ELSE i], {1}, {4}, {0, 3})}

Account == INSTANCE AccountMigration WITH
    N <- 5, ChunkSize <- 2, Checkpointed <- TRUE, SaveAfterSkip <- "always",
    BlankChoices <- {{}, {3}}, CrashChoices <- {1, 4, NoCrash},
    StartCheckpoints <- {-1, -2, 6}, MaxCancels <- 2

Csv == INSTANCE CsvImport WITH
    N <- 5, ChunkSize <- 2, Checkpointed <- TRUE, SaveAfterSkip <- "always",
    CustomerID <- RepeatedID, BlankChoices <- {{}, {2}}, CrashChoices <- {0, 1, 2, 3, 4},
    MaxDisruptions <- 3

Ticket == INSTANCE TicketWorker WITH
    N <- 5, ChunkSize <- 2, Checkpointed <- FALSE, SaveAfterSkip <- "always",
    Queues <- TicketQueues, MaxAttempts <- 2, MaxSkips <- 2, MaxRuns <- 3

\* Two versions of a document.
SomeUploads ==
    {[doc |-> "d", file |-> "f", size |-> 1],
     [doc |-> "d", file |-> "f", size |-> 2]}
NoEvent == [doc |-> "none", file |-> "none"]

\* The workers, processes or callers of a program, and the message slots of its queue.
Pair == {"a", "b"}

Document == INSTANCE DocumentWorkflow WITH
    pc <- stage, queue <- mailbox, Messages <- Pair, Workers <- Pair, MaxFaults <- 2,
    NoBody <- NoEvent, Uploads <- SomeUploads, Foreign <- {[doc |-> "d", file |-> "none"]}

Task == INSTANCE TaskQueue WITH
    pc <- stage, queue <- mailbox, Messages <- Pair, Workers <- Pair, MaxFaults <- 3,
    NoBody <- "none", Tasks <- {"t"}, BadTasks <- {"bad"}

\* Two clusters of two users, and one of three that only the last user connects, beside a
\* user on its own.
SomeFixtures ==
    {{<<1, 11>>, <<2, 11>>, <<3, 12>>, <<4, 12>>},
     {<<1, 11>>, <<4, 11>>, <<4, 12>>, <<2, 12>>}}

Cluster == INSTANCE AbuseCluster WITH
    pc <- stage, cancelled <- signalled, Processes <- Pair, Leftovers <- {"old", "older"},
    Users <- 1 .. 4, Kind <- 11 :> "device" @@ 12 :> "payment_token",
    FixtureEdges <- SomeFixtures

Placement(key, lines, reject) == [order |-> key, lines |-> lines, reject |-> reject]
Line(product, quantity) == [product |-> product, quantity |-> quantity]

\* Two orders that name the same products in opposite order, a second use of an order
\* id, a rejected payment, an unknown product and two invalid requests.
SomePlacements ==
    {Placement("a", <<Line(1, 1), Line(2, 1)>>, FALSE),
     Placement("b", <<Line(2, 1), Line(1, 1)>>, FALSE),
     Placement("a", <<Line(2, 2)>>, FALSE),
     Placement("c", <<Line(1, 1)>>, TRUE),
     Placement("d", <<Line(3, 1)>>, FALSE),
     Placement("e", <<Line(1, 0)>>, FALSE),
     Placement("f", <<Line(1, 1), Line(1, 1)>>, FALSE)}

Placing == INSTANCE OrderPlacement WITH
    pc <- stage, Requests <- Pair, Products <- {1, 2}, Stock <- [p \in {1, 2} |-> 2],
    UnitPrice <- [p \in {1, 2} |-> p], Placements <- SomePlacements

ASSUME AccountConstants == Account!AccountAssumption
ASSUME CsvConstants == Csv!CsvAssumption
ASSUME TicketConstants == Ticket!TicketAssumption
ASSUME DocumentConstants == Document!DocumentAssumption
ASSUME TaskConstants == Task!TaskAssumption
ASSUME ClusterConstants == Cluster!ClusterAssumption
ASSUME PlacementConstants == Placing!PlacementAssumption

\* The variables of the programs that do not run keep a neutral value.
AccountUnused ==
    /\ order = <<>>
    /\ crashOn = 0
    /\ result = 0
    /\ cancels = 0

CsvUnused ==
    /\ customers = <<>>
    /\ duplicateSkips = 0
    /\ writeAttempts = 0
    /\ crashAfter = 0
    /\ disruptions = 0

TicketUnused ==
    /\ queue = 0
    /\ processed = <<>>
    /\ dead = <<>>
    /\ attempts = <<>>
    /\ retries = 0
    /\ skips = 0
    /\ writes = 0
    /\ runs = 0

BatchUnused ==
    /\ pc = "idle"
    /\ cursor = 0
    /\ eof = FALSE
    /\ chunk = {}
    /\ ckpt = -1
    /\ cancelled = FALSE
    /\ err = "none"
    /\ blank = "unused"
    /\ status = "unused"
    /\ AccountUnused
    /\ CsvUnused
    /\ TicketUnused

MailUnused ==
    /\ mailbox = "unused"
    /\ held = "unused"
    /\ faults = 0

DocumentUnused ==
    /\ upload = "unused"
    /\ objects = "unused"
    /\ read = "unused"
    /\ table = "unused"

ClusterUnused ==
    /\ signalled = "unused"
    /\ stale = "unused"
    /\ loaded = "unused"
    /\ report = "unused"
    /\ client = "unused"
    /\ output = "unused"
    /\ exit = "unused"
    /\ fixture = "unused"
    /\ store = "unused"

PlacementUnused ==
    /\ want = "unused"
    /\ locked = "unused"
    /\ expired = "unused"
    /\ outcome = "unused"
    /\ stock = "unused"
    /\ placed = "unused"

BatchInit ==
    /\ \/ /\ program = "account"
          /\ Account!Init
          /\ CsvUnused
          /\ TicketUnused
          /\ status = "unused"
       \/ /\ program = "csv"
          /\ Csv!Init
          /\ AccountUnused
          /\ TicketUnused
       \/ /\ program = "ticket"
          /\ Ticket!Init
          /\ AccountUnused
          /\ CsvUnused
          /\ blank = "unused"
    /\ stage = "unused"
    /\ effects = "unused"
    /\ MailUnused
    /\ DocumentUnused
    /\ ClusterUnused
    /\ PlacementUnused

WorkerInit ==
    /\ BatchUnused
    /\ \/ /\ program = "document"
          /\ Document!Init
          /\ effects = "unused"
          /\ ClusterUnused
          /\ PlacementUnused
       \/ /\ program = "task"
          /\ Task!Init
          /\ DocumentUnused
          /\ ClusterUnused
          /\ PlacementUnused
       \/ /\ program = "cluster"
          /\ Cluster!Init
          /\ effects = "unused"
          /\ MailUnused
          /\ DocumentUnused
          /\ PlacementUnused
       \/ /\ program = "placement"
          /\ Placing!Init
          /\ effects = "unused"
          /\ MailUnused
          /\ DocumentUnused
          /\ ClusterUnused

Init == BatchInit \/ WorkerInit

RunsAccount(A) ==
    program = "account" /\ A /\ UNCHANGED <<program, csvVars, status, ticketVars, workerVars>>
RunsCsv(A) ==
    program = "csv" /\ A /\ UNCHANGED <<program, accountVars, ticketVars, workerVars>>
RunsTicket(A) ==
    program = "ticket" /\ A /\ UNCHANGED <<program, accountVars, blank, csvVars, workerVars>>
RunsDocument(A) ==
    program = "document" /\ A /\ UNCHANGED <<program, batchVars, effects, clusterVars, placementVars>>
RunsTask(A) ==
    program = "task" /\ A /\ UNCHANGED <<program, batchVars, documentVars, clusterVars, placementVars>>
RunsCluster(A) ==
    /\ program = "cluster" /\ A
    /\ UNCHANGED <<program, batchVars, mailVars, documentVars, effects, placementVars>>
RunsPlacement(A) ==
    /\ program = "placement" /\ A
    /\ UNCHANGED <<program, batchVars, mailVars, documentVars, effects, clusterVars>>

Next ==
    \/ RunsAccount(Account!Next)
    \/ RunsCsv(Csv!Next)
    \/ RunsTicket(Ticket!Next)
    \/ RunsDocument(Document!Next)
    \/ RunsTask(Task!Next)
    \/ RunsCluster(Cluster!Next)
    \/ RunsPlacement(Placing!Next)

\* A worker or process goes on, a hidden message becomes visible when its timeout has
\* passed, SQS delivers a message that is visible again and again, and PostgreSQL grants a
\* row or a key to everyone who waits for it in turn.
WorkerGoesOn(w) ==
    \/ RunsDocument(Document!ProcessStep(w))
    \/ RunsTask(Task!PollStep(w))
    \/ RunsCluster(Cluster!Step(w))
    \/ RunsPlacement(Placing!Advance(w))
TimeoutPasses(m) == RunsDocument(Document!Timeout(m)) \/ RunsTask(Task!Timeout(m))
Served(x) ==
    \/ RunsDocument(\E w \in Pair : Document!Receive(w, x))
    \/ RunsTask(\E w \in Pair : Task!Receive(w, x))
    \/ RunsPlacement(Placing!LockByID(x) \/ Placing!InsertOrder(x))

\* The fairness of the modules: a run in flight executes, clean runs of the restartable
\* programs keep being started, and the queue is served.
FairSpec ==
    /\ Init
    /\ [][Next]_vars
    /\ SF_vars(RunsAccount(Account!StartRun(NoCrash, {})))
    /\ WF_vars(RunsAccount(Account!RunStep))
    /\ WF_vars(RunsCsv(Csv!StartRun(0, {})))
    /\ WF_vars(RunsCsv(Csv!RunStep))
    /\ WF_vars(RunsTicket(Ticket!RunStep))
    /\ WF_vars(RunsDocument(Document!SubmitStep))
    /\ \A x \in Pair : WF_vars(WorkerGoesOn(x)) /\ WF_vars(TimeoutPasses(x)) /\ SF_vars(Served(x))

--------------------------------------------------------------------------------
\* The type invariants of the programs.
TypeOK ==
    /\ program = "account" => Account!TypeOK
    /\ program = "csv" => Csv!TypeOK
    /\ program = "ticket" => Ticket!TypeOK
    /\ program = "document" => Document!TypeOK
    /\ program = "task" => Task!TypeOK
    /\ program = "cluster" => Cluster!TypeOK
    /\ program = "placement" => Placing!TypeOK

\* What a program will not look at again is stored: the migrated accounts are a prefix of
\* the source, no CSV row behind the checkpoint is missing and replays keep the first row
\* of a customer, and a message leaves its queue only when its document is in the table,
\* with what S3 holds of it, or its task was worked on; what is missing from the stock is
\* in the placed orders.
NothingIsLost ==
    /\ program = "account" => Account!CommittedPrefix
    /\ program = "csv" => Csv!NothingLostBehindCheckpoint /\ Csv!FirstRowWins
    /\ program = "document" => Document!AckedMeansRecorded /\ Document!RecordsAreOfObjects
    /\ program = "task" => Task!WorkedBeforeAck
    /\ program = "placement" => Placing!StockIsConserved

\* What a run reports is true: a completed migration has moved everything, every ticket
\* is processed or dead-lettered and a reported write is a ticket of its own, and a
\* printed cluster report is right whatever other processes did to the graph, from a
\* client that is closed once and a graph without leftovers, and an order reported as placed
\* is stored.
ReportsAreTrue ==
    /\ program = "account" => Account!CompletedMeansMigrated
    /\ program = "ticket" => Ticket!NoTicketIsLost /\ Ticket!WritesAreStored
    /\ program = "cluster" =>
          Cluster!PrintedIsRight /\ Cluster!ClosedOnce /\ Cluster!LeftoversAreReplaced
    /\ program = "placement" => Placing!PlacedIsStored

\* RunMigration: a chunk torn by a cancellation blocks every later run.
TornBlocksProgress == program = "account" => Account!TornBlocksProgress

\* recordProcessed: a redelivered or late event never changes the record of a document.
FirstRecordStays == [][program = "document" => Document!RecordStays]_vars

\* Message x waits to be worked on, or caller x waits for PlaceOrder; and no longer.
Asked(x) ==
    \/ program = "document" /\ Document!Announced(x)
    \/ program = "task" /\ Task!Waiting(x)
    \/ program = "placement" /\ Placing!Running(x)
Answered(x) ==
    \/ program = "document" /\ Document!Settled(x)
    \/ program = "task" /\ Task!Done(x)
    \/ program = "placement" /\ ~Placing!Running(x)

\* Restarts migrate all accounts and import the whole file however often runs crashed
\* before, a run of the ticket worker or of the graph analysis always ends, every
\* announced document is recorded and every task done, also beside a message that is
\* refused for ever, and callers of PlaceOrder that lock the same products never wait for
\* each other for ever.
ProgramsFinish ==
    /\ <>(/\ program = "account" => Account!Migrated
          /\ program = "csv" => Csv!Imported
          /\ program = "cluster" => Cluster!AllExited)
    /\ program = "ticket" => Ticket!RunsEnd
    /\ \A x \in Pair : Asked(x) ~> Answered(x)

================================================================================
