------------------------------- MODULE MCServices -------------------------------
(***************************************************************************)
(* Eight programs side by side; a behaviour is one of any of them: the     *)
(* moderation service, the lifecycle of its server, the process of the     *)
(* order workflow, one request of each of the three workflow examples, and *)
(* the two APIs over a state machine.                                      *)
(***************************************************************************)
EXTENDS Integers, Sequences, FiniteSets

CONSTANTS
    R1, R2,
    LateCancel   \* see CompensationRun

VARIABLES
    program,
    \* the requests of the moderation service and of the state machines
    pc, call, outcome,
    \* the moderation service
    ended, draft, snapshot, result, base, collected, records,
    \* the server of the moderation service and the order process
    main, signalled,
    listener, handlers, late, results, cut,
    cause, deadline, errors, server, busy, relay, relayErr, relayCancel, relayFlag, outbox,
    sending, stream, exits,
    \* the one request of a workflow example
    stage, request, cancelled, effects, status,
    compensations, works, forward, compensated, history, partial,
    started, inventory, payment, first, report,
    \* the state machines
    expired, seen, view, positive, machine, known, entries

sharedVars == <<pc, call, outcome>>
moderationVars == <<ended, draft, snapshot, result, base, collected, records>>
serverVars == <<listener, handlers, late, results, cut>>
processVars == <<cause, deadline, errors, server, busy, relay, relayErr, relayCancel, relayFlag,
                 outbox, sending, stream, exits>>
lifeVars == <<main, signalled, serverVars, processVars>>
requestVars == <<stage, request, cancelled, effects, status>>
sagaVars == <<compensations, works, forward, compensated, history, partial>>
checkVars == <<started, inventory, payment, first, report>>
machineVars == <<expired, seen, view, positive, machine, known, entries>>
vars == <<program, sharedVars, moderationVars, lifeVars, requestVars, sagaVars, checkVars,
          machineVars>>

Plain ==
    [blank |-> FALSE, short |-> FALSE, detected |-> "english", confident |-> TRUE,
     mixed |-> FALSE, kana |-> FALSE, flagged |-> FALSE, terms |-> {"order"}]
NoMetadata == [k \in {} |-> "none"]
Tenant(value) == [tenant |-> value]

\* English text with and without a tenant, masked Japanese text, and under one id
\* Japanese text without kana and blank text.
SomeSubmissions ==
    {[id |-> 1, content |-> Plain, metadata |-> NoMetadata],
     [id |-> 2, content |-> [Plain EXCEPT !.detected = "japanese", !.kana = TRUE, !.flagged = TRUE],
      metadata |-> Tenant("demo")],
     [id |-> 3, content |-> Plain, metadata |-> Tenant("demo")],
     [id |-> 4, content |-> [Plain EXCEPT !.detected = "japanese"], metadata |-> Tenant("demo")],
     [id |-> 4, content |-> [Plain EXCEPT !.blank = TRUE], metadata |-> NoMetadata]}

\* A search without a limit of its own and with a filter, that starts behind the first
\* id, and one that asks for too many results.
SomeSearches ==
    {[terms |-> {"order"}, filter |-> Tenant("demo"), limit |-> 0, after |-> 1],
     [terms |-> {"order"}, filter |-> NoMetadata, limit |-> 2, after |-> 4]}

Moderation == INSTANCE ModerationService WITH
    Requests <- {R1, R2}, IDs <- 1 .. 4, MaximumRecords <- 3,
    MaximumResults <- 1, DefaultLimit <- 1, Submissions <- SomeSubmissions, Searches <- SomeSearches

Server == INSTANCE ServerLifecycle WITH MaxHandlers <- 2

\* One handler and two outbox records of one order.
Process == INSTANCE OrderRuntime WITH
    Handlers <- {R1}, Events <- {1, 2}, Aggregate <- [e \in {1, 2} |-> "A"], MaxAttempts <- 2

Compensation == INSTANCE CompensationRun WITH pc <- stage, call <- request, outcome <- status
Fulfillment == INSTANCE OrderFulfillment WITH pc <- stage, call <- request, outcome <- status
Runner == INSTANCE FulfillmentRunner WITH pc <- stage, call <- request, outcome <- status

Lifecycle == INSTANCE OrderLifecycle WITH Requests <- {R1, R2}, total <- positive
Authorization == INSTANCE PaymentAuthorization WITH
    Requests <- {R1, R2}, Keys <- {1, 2}, amount <- positive

ASSUME ModerationConstants == Moderation!ModerationAssumption
ASSUME LifecycleConstants == Server!LifecycleAssumption
ASSUME ProcessConstants == Process!RuntimeAssumption
ASSUME CompensationConstants == Compensation!CompensationAssumption

\* What a program does not use.
SharedUnused ==
    /\ pc = "unused"
    /\ call = "unused"
    /\ outcome = "unused"

ModerationUnused ==
    /\ ended = "unused"
    /\ draft = "unused"
    /\ snapshot = "unused"
    /\ result = "unused"
    /\ base = "unused"
    /\ collected = "unused"
    /\ records = "unused"

ServerUnused ==
    /\ listener = "unused"
    /\ handlers = "unused"
    /\ late = "unused"
    /\ results = "unused"
    /\ cut = "unused"

ProcessUnused ==
    /\ cause = "unused"
    /\ deadline = "unused"
    /\ errors = "unused"
    /\ server = "unused"
    /\ busy = "unused"
    /\ relay = "unused"
    /\ relayErr = "unused"
    /\ relayCancel = "unused"
    /\ relayFlag = "unused"
    /\ outbox = Process!Nothing
    /\ sending = "unused"
    /\ stream = "unused"
    /\ exits = "unused"

LifeUnused == main = "unused" /\ signalled = FALSE /\ ServerUnused /\ ProcessUnused

RequestUnused ==
    /\ stage = "unused"
    /\ request = "unused"
    /\ cancelled = FALSE
    /\ effects = "unused"
    /\ status = "unused"

HistoryUnused ==
    /\ history = "unused"
    /\ partial = "unused"

SagaUnused ==
    /\ compensations = "unused"
    /\ works = "unused"
    /\ forward = "unused"
    /\ compensated = "unused"
    /\ HistoryUnused

ChecksUnused ==
    /\ started = "unused"
    /\ inventory = "unused"
    /\ payment = "unused"
    /\ first = "unused"
    /\ report = "unused"

KeysUnused ==
    /\ known = "unused"
    /\ entries = "unused"

MachineUnused ==
    /\ expired = "unused"
    /\ seen = "unused"
    /\ view = "unused"
    /\ positive = "unused"
    /\ machine = "unused"
    /\ KeysUnused

InitModeration ==
    /\ program = "moderation"
    /\ Moderation!Init
    /\ LifeUnused /\ RequestUnused /\ SagaUnused /\ ChecksUnused /\ MachineUnused

InitLife ==
    /\ \/ program = "server" /\ Server!Init /\ ProcessUnused
       \/ program = "process" /\ Process!Init /\ ServerUnused
    /\ SharedUnused /\ ModerationUnused /\ RequestUnused /\ SagaUnused /\ ChecksUnused
    /\ MachineUnused

InitWorkflow ==
    /\ \/ program = "compensation" /\ Compensation!Init /\ HistoryUnused /\ ChecksUnused
       \/ program = "fulfillment" /\ Fulfillment!Init /\ ChecksUnused
       \/ program = "runner" /\ Runner!Init /\ SagaUnused
    /\ SharedUnused /\ ModerationUnused /\ LifeUnused /\ MachineUnused

InitMachine ==
    /\ \/ program = "lifecycle" /\ Lifecycle!Init /\ KeysUnused
       \/ program = "authorization" /\ Authorization!Init /\ view = "unused"
    /\ ModerationUnused /\ LifeUnused /\ RequestUnused /\ SagaUnused /\ ChecksUnused

Init == InitModeration \/ InitLife \/ InitWorkflow \/ InitMachine

RunsModeration(A) ==
    /\ program = "moderation"
    /\ A
    /\ UNCHANGED <<program, lifeVars, requestVars, sagaVars, checkVars, machineVars>>
RunsLife(A) ==
    /\ A
    /\ UNCHANGED <<program, sharedVars, moderationVars, requestVars, sagaVars, checkVars,
                   machineVars>>
RunsServer(A) == program = "server" /\ RunsLife(A) /\ UNCHANGED processVars
RunsProcess(A) == program = "process" /\ RunsLife(A) /\ UNCHANGED serverVars
RunsWorkflow(A) ==
    /\ A
    /\ UNCHANGED <<program, sharedVars, moderationVars, lifeVars, machineVars>>
RunsCompensation(A) ==
    program = "compensation" /\ RunsWorkflow(A) /\ UNCHANGED <<history, partial, checkVars>>
RunsFulfillment(A) == program = "fulfillment" /\ RunsWorkflow(A) /\ UNCHANGED checkVars
RunsRunner(A) == program = "runner" /\ RunsWorkflow(A) /\ UNCHANGED sagaVars
RunsMachine(A) ==
    /\ A
    /\ UNCHANGED <<program, moderationVars, lifeVars, requestVars, sagaVars, checkVars>>
RunsLifecycle(A) == program = "lifecycle" /\ RunsMachine(A) /\ UNCHANGED <<known, entries>>
RunsAuthorization(A) == program = "authorization" /\ RunsMachine(A) /\ UNCHANGED view

Next ==
    \/ RunsModeration(Moderation!Next)
    \/ RunsServer(Server!Next)
    \/ RunsProcess(Process!Next)
    \/ RunsCompensation(Compensation!Next)
    \/ RunsFulfillment(Fulfillment!Next)
    \/ RunsRunner(Runner!Next)
    \/ RunsLifecycle(Lifecycle!Next)
    \/ RunsAuthorization(Authorization!Next)

\* RunServer goes on by itself and its timer fires; handlers need not return.  The order
\* process is fair as OrderRuntime!FairSpec says.  The request of the workflow runner and
\* its two checks are one goroutine each; the timer of the inventory check need not fire.
FairSpec ==
    /\ Init
    /\ [][Next]_vars
    /\ WF_vars(RunsServer(Server!Run))
    /\ WF_vars(RunsServer(Server!TimeoutPasses))
    /\ \A e \in {1, 2} : WF_vars(RunsProcess(Process!RelayStep(e)))
    /\ WF_vars(RunsProcess(Process!RelayReports))
    /\ WF_vars(RunsProcess(Process!MainStep))
    /\ WF_vars(RunsProcess(Process!DeadlinePasses))
    /\ WF_vars(RunsRunner(Runner!Main))
    /\ WF_vars(RunsRunner(Runner!InventoryStep))
    /\ WF_vars(RunsRunner(Runner!PaymentStep))

--------------------------------------------------------------------------------
\* The type invariants of all.
TypeOK ==
    /\ program = "moderation" => Moderation!TypeOK
    /\ program = "server" => Server!TypeOK
    /\ program = "process" => Process!TypeOK
    /\ program = "compensation" => Compensation!TypeOK
    /\ program = "fulfillment" => Fulfillment!TypeOK
    /\ program = "runner" => Runner!TypeOK
    /\ program = "lifecycle" => Lifecycle!TypeOK
    /\ program = "authorization" => Authorization!TypeOK

\* Search: a client that follows the cursor misses nothing and is shown nothing twice.
PagesAreComplete == program = "moderation" => Moderation!PagesAreComplete

\* What a caller is told holds: the answers of the moderation API are true of the store,
\* RunServer returns nil only after a clean shutdown, the answer of a workflow agrees
\* with the effects and the lifecycle it leaves, no two requests move an order from the
\* same state, and a retried payment command gets its first answer.
ReportsHold ==
    /\ program = "moderation" => Moderation!AnswersHold
    /\ program = "server" => Server!CleanReturn
    /\ program = "fulfillment" => Fulfillment!LifecycleMatchesEffects
    /\ program = "runner" => Runner!AnswerNamesCause
    /\ program = "lifecycle" => Lifecycle!MovesAreExclusive /\ Lifecycle!SnapshotsFollow
    /\ program = "authorization" =>
          Authorization!RetriesAreReplayed /\ Authorization!EntriesAreMoves

\* A compensation-workflow run that did not complete has undone what it could.
NothingLeftBehind == program = "compensation" => Compensation!NothingLeftBehind

\* Both programs with compensations implement the saga: every performed effect is
\* compensated once, the latest first, and nothing after a shipment is.
RunsAreSagas ==
    /\ program = "compensation" => Compensation!SagaInit
    /\ program = "fulfillment" => Fulfillment!SagaInit
    /\ [][/\ program = "compensation" => Compensation!SagaStep
          /\ program = "fulfillment" => Fulfillment!SagaStep]_vars

\* At-least-once delivery: a record is marked published only if it is in the stream, and
\* nothing reaches the stream that was not committed to the outbox.
StreamIsCommitted == program = "process" => Process!StreamIsCommitted

\* RunLifecycle and run: an exit without error cut nothing short, and the relay is not
\* cancelled under a busy handler unless an error is already due.
ShutdownInOrder == program = "process" => Process!ShutdownInOrder

\* A signal, a failed server and a relay that stopped end the order process.
EventuallyExits == program = "process" => Process!EventuallyExits

\* Every committed record is published or dead-lettered if some process keeps running.
EventuallyRelayed == program = "process" => Process!EventuallyRelayed

\* A signal ends RunServer whatever its handlers do, and a failed check or a client that
\* left ends a run of the workflow runner although its timer never fires.
EventuallyReturns ==
    /\ program = "server" => Server!EventuallyReturns
    /\ program = "runner" => Runner!SlowSiblingIsCancelled

================================================================================
