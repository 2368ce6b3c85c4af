----------------------------- MODULE ServicesProofs -----------------------------
(***************************************************************************)
(* Proofs about the programs of MCServices side by side, as its run checks *)
(* them.  What ApiProofs proves of a component for all constants is        *)
(* carried over by instantiating it as MCServices instantiates the         *)
(* component; the workflow runner, which has no constants, is proved about *)
(* here.                                                                   *)
(***************************************************************************)
EXTENDS MCServices, TLAPS

Spec == Init /\ [][Next]_vars

Apis == INSTANCE ApiProofs WITH
    Requests <- {R1, R2}, Keys <- {1, 2}, IDs <- 1 .. 4, MaximumRecords <- 3,
    MaximumResults <- 1, DefaultLimit <- 1,
    Submissions <- SomeSubmissions, Searches <- SomeSearches, total <- positive, amount <- positive,
    Handlers <- {R1}, Events <- {1, 2}, Aggregate <- [e \in {1, 2} |-> "A"], MaxAttempts <- 2,
    MaxHandlers <- 2

\* MCServices keeps the request, the place and the answer of the programs with
\* compensations in variables of their own.
Sagas == INSTANCE ApiProofs WITH
    Requests <- {R1, R2}, Keys <- {1, 2}, IDs <- 1 .. 4, MaximumRecords <- 3,
    MaximumResults <- 1, DefaultLimit <- 1,
    Submissions <- SomeSubmissions, Searches <- SomeSearches, total <- positive, amount <- positive,
    Handlers <- {R1}, Events <- {1, 2}, Aggregate <- [e \in {1, 2} |-> "A"], MaxAttempts <- 2,
    MaxHandlers <- 2, pc <- stage, call <- request, outcome <- status

--------------------------------------------------------------------------------
\* What each place of the workflow runner knows.

\* The first check that did not complete says why: it failed for its own reason, or it
\* was cancelled before any other failed, and then the client had left.
FirstIsTheCause ==
    /\ first # "completed"
    /\ first # "none" => inventory = first \/ payment = first
    /\ inventory = "cancelled" \/ payment = "cancelled" => cancelled = TRUE \/ first # "none"
    /\ first = "cancelled" => cancelled = TRUE
    /\ first = "failed" => ~request.stock \/ ~request.payment
    /\ inventory = "failed" => ~request.stock
    /\ payment = "failed" => ~request.payment

\* Nothing is reported and nothing done yet.
Undecided == effects = {} /\ report = "none" /\ status = 0

\* What the report of a run says about its effects and its cause.
ReportIsTrue ==
    /\ report \in Runner!Statuses
    /\ report = "completed" =>
          /\ effects = {IF request.shipment THEN "created" ELSE "skipped"}
          /\ inventory = "completed" /\ payment = "completed"
    /\ report # "completed" => effects = {}
    /\ report = "cancelled" => cancelled = TRUE
    /\ report = "failed" => ~request.stock \/ ~request.payment \/ cancelled = TRUE

RunnerInv ==
    /\ Runner!TypeOK
    /\ FirstIsTheCause
    /\ stage \in {"run", "validate", "riskChecks"} =>
          Undecided /\ inventory = "none" /\ payment = "none" /\ first = "none"
    /\ stage = "join" => Undecided
    /\ stage = "decide" =>
          Undecided /\ first = "none" /\ inventory = "completed" /\ payment = "completed"
    /\ stage = "respond" => status = 0 /\ ReportIsTrue
    /\ stage = "done" =>
          \/ status = 400 /\ effects = {}
          \/ /\ ReportIsTrue
             /\ status = (CASE report = "cancelled" -> 408 [] report = "completed" -> 200
                            [] report = "failed" -> 409)

LEMMA RunnerBegins == Runner!Init => RunnerInv
BY DEF Runner!Init, RunnerInv, Runner!TypeOK, FirstIsTheCause, Undecided, Runner!Statuses

\* One step per action.
LEMMA RunnerStep ==
    ASSUME RunnerInv, [Runner!Next]_(Runner!vars)
    PROVE  RunnerInv'
<1> USE DEF RunnerInv, Runner!TypeOK, FirstIsTheCause, Undecided, ReportIsTrue, Runner!Statuses,
            Runner!checkVars, Runner!Calls
<1>1. CASE Runner!Run
  BY <1>1 DEF Runner!Run
<1>2. CASE Runner!RunnerStops
  BY <1>2 DEF Runner!RunnerStops, Runner!RunEnds
<1>3. CASE Runner!ValidateOrder
  BY <1>3 DEF Runner!ValidateOrder
<1>4. CASE Runner!RiskChecks
  BY <1>4 DEF Runner!RiskChecks
<1>5. CASE Runner!JoinChecks
  <2>1. CASE {inventory, payment} = {"completed"} /\ stage' = "decide"
    <3>1. inventory = "completed" /\ payment = "completed" /\ first = "none"
      BY <2>1
    <3> QED
      BY <1>5, <2>1, <3>1 DEF Runner!JoinChecks, Runner!RunEnds
  <2>2. CASE ~({inventory, payment} = {"completed"} /\ stage' = "decide")
    BY <1>5, <2>2 DEF Runner!JoinChecks, Runner!RunEnds
  <2> QED
    BY <2>1, <2>2
<1>6. CASE Runner!ShipmentDecision
  BY <1>6 DEF Runner!ShipmentDecision, Runner!RunEnds
<1>7. CASE Runner!Respond
  BY <1>7 DEF Runner!Respond
<1>8. CASE Runner!InventoryStarts
  BY <1>8 DEF Runner!InventoryStarts
<1>9. CASE Runner!InventoryGivesUp
  BY <1>9 DEF Runner!InventoryGivesUp, Runner!ChecksCancelled, Runner!InventoryReports
<1>10. CASE Runner!ReserveInventory
  BY <1>10 DEF Runner!ReserveInventory, Runner!ChecksCancelled, Runner!InventoryReports
<1>11. CASE Runner!PaymentGoesOn
  BY <1>11 DEF Runner!PaymentGoesOn
<1>12. CASE Runner!PaymentGivesUp
  BY <1>12 DEF Runner!PaymentGivesUp, Runner!ChecksCancelled, Runner!PaymentReports
<1>13. CASE Runner!AuthorizePayment
  BY <1>13 DEF Runner!AuthorizePayment, Runner!ChecksCancelled, Runner!PaymentReports
<1>14. CASE Runner!TimerFires
  BY <1>14 DEF Runner!TimerFires
<1>15. CASE Runner!Cancel
  BY <1>15 DEF Runner!Cancel
<1>16. CASE Runner!CancelSiblings
  BY <1>16 DEF Runner!CancelSiblings
<1>17. CASE UNCHANGED Runner!vars
  BY <1>17 DEF Runner!vars
<1> QED
  BY Zenon, <1>1, <1>2, <1>3, <1>4, <1>5, <1>6, <1>7, <1>8, <1>9, <1>10, <1>11, <1>12, <1>13, <1>14, <1>15,
     <1>16, <1>17
  DEF Runner!Next, Runner!Main, Runner!InventoryStep, Runner!PaymentStep

LEMMA RunnerReports == RunnerInv => Runner!AnswerNamesCause
BY DEF RunnerInv, Runner!TypeOK, Undecided, ReportIsTrue, Runner!Statuses, Runner!AnswerNamesCause

\* The answer of the workflow runner names its cause, for every request and every
\* interleaving of the two checks, the timer and the client (statusForReport,
\* riskChecks).
THEOREM RunnerNamesCause == Runner!Spec => []Runner!AnswerNamesCause
<1>1. Runner!Init => RunnerInv
  BY RunnerBegins
<1>2. RunnerInv /\ [Runner!Next]_(Runner!vars) => RunnerInv'
  BY RunnerStep
<1>3. RunnerInv => Runner!AnswerNamesCause
  BY RunnerReports
<1> QED
  BY <1>1, <1>2, <1>3, PTL DEF Runner!Spec

--------------------------------------------------------------------------------
\* The instances here are those of MCServices: their definitions are the same.

LEMMA SameProcess ==
    /\ Process!Init => Apis!Process!Init
    /\ Process!Next => Apis!Process!Next
    /\ UNCHANGED processVars /\ UNCHANGED <<main, signalled>> => UNCHANGED Apis!Process!vars
<1>1. Process!Init => Apis!Process!Init
  BY DEF Process!Init, Apis!Process!Init, Process!Started, Apis!Process!Started, Process!Nothing,
         Apis!Process!Nothing
<1>2. Process!Next => Apis!Process!Next
  BY DEF Process!Next, Apis!Process!Next, Process!Signal, Apis!Process!Signal, Process!Request,
         Apis!Process!Request, Process!Respond, Apis!Process!Respond, Process!ServeFails,
         Apis!Process!ServeFails, Process!RelayStep, Apis!Process!RelayStep, Process!RelayReturns,
         Apis!Process!RelayReturns, Process!RelayReports, Apis!Process!RelayReports,
         Process!MainStep, Apis!Process!MainStep, Process!DeadlinePasses,
         Apis!Process!DeadlinePasses, Process!Kill, Apis!Process!Kill, Process!Restart,
         Apis!Process!Restart, Process!Running, Apis!Process!Running, Process!serverVars,
         Apis!Process!serverVars, Process!relayVars, Apis!Process!relayVars, Process!tableVars,
         Apis!Process!tableVars, Process!lifeVars, Apis!Process!lifeVars, Process!Claim,
         Apis!Process!Claim, Process!Publish, Apis!Process!Publish, Process!StoreResult,
         Apis!Process!StoreResult, Process!Nothing, Apis!Process!Nothing, Process!SelectSignal,
         Apis!Process!SelectSignal, Process!SelectRelay, Apis!Process!SelectRelay,
         Process!SelectServer, Apis!Process!SelectServer, Process!Shutdown, Apis!Process!Shutdown,
         Process!Drained, Apis!Process!Drained, Process!DrainFails, Apis!Process!DrainFails,
         Process!WaitServer, Apis!Process!WaitServer, Process!EnterJoin, Apis!Process!EnterJoin,
         Process!JoinRelay, Apis!Process!JoinRelay, Process!Close, Apis!Process!Close, Process!Gone,
         Apis!Process!Gone, Process!Blocked, Apis!Process!Blocked, Process!RelayTimedOut,
         Apis!Process!RelayTimedOut
<1>3. UNCHANGED processVars /\ UNCHANGED <<main, signalled>> => UNCHANGED Apis!Process!vars
  BY DEF Apis!Process!vars, Apis!Process!lifeVars, Apis!Process!serverVars, Apis!Process!relayVars,
         Apis!Process!tableVars, processVars
<1> QED
  BY <1>1, <1>2, <1>3

LEMMA SameServer ==
    /\ Server!Init => Apis!Server!Init
    /\ Server!Next => Apis!Server!Next
    /\ UNCHANGED serverVars /\ UNCHANGED <<main, signalled>> => UNCHANGED Apis!Server!serverVars
<1>1. Server!Init => Apis!Server!Init
  BY DEF Server!Init, Apis!Server!Init
<1>2. Server!Next => Apis!Server!Next
  BY DEF Server!Next, Apis!Server!Next, Server!Signal, Apis!Server!Signal, Server!Accept,
         Apis!Server!Accept, Server!HandlerReturns, Apis!Server!HandlerReturns, Server!ListenFails,
         Apis!Server!ListenFails, Server!TimeoutPasses, Apis!Server!TimeoutPasses, Server!Run,
         Apis!Server!Run, Server!SelectListen, Apis!Server!SelectListen, Server!SelectSignal,
         Apis!Server!SelectSignal, Server!Drained, Apis!Server!Drained, Server!ShutdownFails,
         Apis!Server!ShutdownFails, Server!Close, Apis!Server!Close, Server!Join, Apis!Server!Join,
         Server!Return, Apis!Server!Return
<1>3. UNCHANGED serverVars /\ UNCHANGED <<main, signalled>> => UNCHANGED Apis!Server!serverVars
  BY DEF Apis!Server!serverVars, serverVars
<1> QED
  BY <1>1, <1>2, <1>3

LEMMA SameCompensation ==
    /\ Compensation!Init => Sagas!Init
    /\ Compensation!Next => Sagas!Next
    /\ UNCHANGED requestVars /\ UNCHANGED sagaVars => UNCHANGED Sagas!vars
    /\ Sagas!Abstract!Init => Compensation!SagaInit
    /\ [Sagas!Abstract!Next]_(Sagas!Abstract!vars) => Compensation!SagaStep
<1>1. Compensation!Init => Sagas!Init
  BY DEF Compensation!Init, Sagas!Init, Compensation!Calls, Sagas!Calls
<1>2. Compensation!Next => Sagas!Next
  BY DEF Compensation!Next, Sagas!Next, Compensation!Step, Sagas!Step, Compensation!Cancel,
         Sagas!Cancel, Compensation!Run, Sagas!Run, Compensation!ReserveInventory,
         Sagas!ReserveInventory, Compensation!AuthorizePayment, Sagas!AuthorizePayment,
         Compensation!CreateShipment, Sagas!CreateShipment, Compensation!Execute, Sagas!Execute,
         Compensation!VoidPayment, Sagas!VoidPayment, Compensation!ReleaseInventory,
         Sagas!ReleaseInventory, Compensation!CompensationEnds, Sagas!CompensationEnds,
         Compensation!Respond, Sagas!Respond, Compensation!StopsAt, Sagas!StopsAt,
         Compensation!Performs, Sagas!Performs, Compensation!ForwardEnds, Sagas!ForwardEnds,
         Compensation!ReverseCompensations, Sagas!ReverseCompensations, Compensation!Compensates,
         Sagas!Compensates, Compensation!CleanupCancelled, Sagas!CleanupCancelled,
         Compensation!StatusForReport, Sagas!StatusForReport
<1>3. UNCHANGED requestVars /\ UNCHANGED sagaVars => UNCHANGED Sagas!vars
  BY DEF Sagas!vars, requestVars, sagaVars
<1>4. Sagas!Abstract!Init => Compensation!SagaInit
  BY DEF Compensation!Abstract!Init, Sagas!Abstract!Init, Compensation!Phase, Sagas!Phase,
         Compensation!Reversed, Sagas!Reversed, Compensation!SagaInit, Compensation!SagaStep
<1>5. [Sagas!Abstract!Next]_(Sagas!Abstract!vars) => Compensation!SagaStep
  BY DEF Compensation!Abstract!Next, Sagas!Abstract!Next, Compensation!Abstract!Perform,
         Sagas!Abstract!Perform, Compensation!Abstract!Ship, Sagas!Abstract!Ship,
         Compensation!Abstract!Complete, Sagas!Abstract!Complete, Compensation!Abstract!Fail,
         Sagas!Abstract!Fail, Compensation!Abstract!GiveUp, Sagas!Abstract!GiveUp,
         Compensation!Abstract!Undo, Sagas!Abstract!Undo, Compensation!Abstract!Finish,
         Sagas!Abstract!Finish, Compensation!Abstract!vars, Sagas!Abstract!vars, Compensation!Phase,
         Sagas!Phase, Compensation!Reversed, Sagas!Reversed, Compensation!SagaInit,
         Compensation!SagaStep
<1> QED
  BY <1>1, <1>2, <1>3, <1>4, <1>5

LEMMA SameFulfillment ==
    /\ Fulfillment!Init => Sagas!Fulfillment!Init
    /\ Fulfillment!Next => Sagas!Fulfillment!Next
    /\ UNCHANGED requestVars /\ UNCHANGED sagaVars => UNCHANGED Sagas!Fulfillment!vars
    /\ Sagas!Fulfillment!Abstract!Init => Fulfillment!SagaInit
    /\ [Sagas!Fulfillment!Abstract!Next]_(Sagas!Fulfillment!Abstract!vars) => Fulfillment!SagaStep
<1>1. Fulfillment!Init => Sagas!Fulfillment!Init
  BY DEF Fulfillment!Init, Sagas!Fulfillment!Init, Fulfillment!Calls, Sagas!Fulfillment!Calls
<1>2. Fulfillment!Next => Sagas!Fulfillment!Next
  BY DEF Fulfillment!Next, Sagas!Fulfillment!Next, Fulfillment!Step, Sagas!Fulfillment!Step,
         Fulfillment!Cancel, Sagas!Fulfillment!Cancel, Fulfillment!Fulfill,
         Sagas!Fulfillment!Fulfill, Fulfillment!SubmitOrder, Sagas!Fulfillment!SubmitOrder,
         Fulfillment!ReserveInventory, Sagas!Fulfillment!ReserveInventory,
         Fulfillment!AuthorizePayment, Sagas!Fulfillment!AuthorizePayment, Fulfillment!PackOrder,
         Sagas!Fulfillment!PackOrder, Fulfillment!CreateShipment, Sagas!Fulfillment!CreateShipment,
         Fulfillment!Execute, Sagas!Fulfillment!Execute, Fulfillment!VoidPayment,
         Sagas!Fulfillment!VoidPayment, Fulfillment!ReleaseInventory,
         Sagas!Fulfillment!ReleaseInventory, Fulfillment!CompensationEnds,
         Sagas!Fulfillment!CompensationEnds, Fulfillment!CancelOrder, Sagas!Fulfillment!CancelOrder,
         Fulfillment!Respond, Sagas!Fulfillment!Respond, Fulfillment!StopsAt,
         Sagas!Fulfillment!StopsAt, Fulfillment!TransitionFails, Sagas!Fulfillment!TransitionFails,
         Fulfillment!Transition, Sagas!Fulfillment!Transition, Fulfillment!GoOn,
         Sagas!Fulfillment!GoOn, Fulfillment!Performs, Sagas!Fulfillment!Performs,
         Fulfillment!PackEvent, Sagas!Fulfillment!PackEvent, Fulfillment!ForwardEnds,
         Sagas!Fulfillment!ForwardEnds, Fulfillment!Compensates, Sagas!Fulfillment!Compensates,
         Fulfillment!State, Sagas!Fulfillment!State, Fulfillment!Targets, Sagas!Fulfillment!Targets,
         Fulfillment!ReportStatus, Sagas!Fulfillment!ReportStatus, Fulfillment!OrderStates,
         Sagas!Fulfillment!OrderStates, Fulfillment!Transitions, Sagas!Fulfillment!Transitions
<1>3. UNCHANGED requestVars /\ UNCHANGED sagaVars => UNCHANGED Sagas!Fulfillment!vars
  BY DEF Sagas!Fulfillment!vars, requestVars, sagaVars
<1>4. Sagas!Fulfillment!Abstract!Init => Fulfillment!SagaInit
  BY DEF Fulfillment!Abstract!Init, Sagas!Fulfillment!Abstract!Init, Fulfillment!Phase,
         Sagas!Fulfillment!Phase, Fulfillment!Reversed, Sagas!Fulfillment!Reversed,
         Fulfillment!SagaInit, Fulfillment!SagaStep
<1>5. [Sagas!Fulfillment!Abstract!Next]_(Sagas!Fulfillment!Abstract!vars) => Fulfillment!SagaStep
  BY DEF Fulfillment!Abstract!Next, Sagas!Fulfillment!Abstract!Next, Fulfillment!Abstract!Perform,
         Sagas!Fulfillment!Abstract!Perform, Fulfillment!Abstract!Ship,
         Sagas!Fulfillment!Abstract!Ship, Fulfillment!Abstract!Complete,
         Sagas!Fulfillment!Abstract!Complete, Fulfillment!Abstract!Fail,
         Sagas!Fulfillment!Abstract!Fail, Fulfillment!Abstract!GiveUp,
         Sagas!Fulfillment!Abstract!GiveUp, Fulfillment!Abstract!Undo,
         Sagas!Fulfillment!Abstract!Undo, Fulfillment!Abstract!Finish,
         Sagas!Fulfillment!Abstract!Finish, Fulfillment!Abstract!vars,
         Sagas!Fulfillment!Abstract!vars, Fulfillment!Phase, Sagas!Fulfillment!Phase,
         Fulfillment!Reversed, Sagas!Fulfillment!Reversed, Fulfillment!SagaInit,
         Fulfillment!SagaStep
<1> QED
  BY <1>1, <1>2, <1>3, <1>4, <1>5

LEMMA SameLifecycle ==
    /\ Lifecycle!Init => Apis!Lifecycle!Init
    /\ Lifecycle!Next => Apis!Lifecycle!Next
    /\ UNCHANGED sharedVars /\ UNCHANGED machineVars => UNCHANGED Apis!Lifecycle!vars
<1>1. (Lifecycle!Init => Apis!Lifecycle!Init) /\ (Lifecycle!Next => Apis!Lifecycle!Next)
  BY DEF Lifecycle!Init, Apis!Lifecycle!Init, Lifecycle!NoCall, Apis!Lifecycle!NoCall,
         Lifecycle!NoView, Apis!Lifecycle!NoView, Lifecycle!NoOutcome, Apis!Lifecycle!NoOutcome,
         Lifecycle!Next, Apis!Lifecycle!Next, Lifecycle!OrderEvents, Apis!Lifecycle!OrderEvents,
         Lifecycle!Start, Apis!Lifecycle!Start, Lifecycle!Expire, Apis!Lifecycle!Expire,
         Lifecycle!Lookup, Apis!Lifecycle!Lookup, Lifecycle!Commit, Apis!Lifecycle!Commit,
         Lifecycle!SnapshotState, Apis!Lifecycle!SnapshotState, Lifecycle!SnapshotEvents,
         Apis!Lifecycle!SnapshotEvents, Lifecycle!Again, Apis!Lifecycle!Again, Lifecycle!Goto,
         Apis!Lifecycle!Goto, Lifecycle!Answer, Apis!Lifecycle!Answer, Lifecycle!Targets,
         Apis!Lifecycle!Targets, Lifecycle!FinalStates, Apis!Lifecycle!FinalStates,
         Lifecycle!GuardRejects, Apis!Lifecycle!GuardRejects, Lifecycle!OrderStates,
         Apis!Lifecycle!OrderStates, Lifecycle!Transitions, Apis!Lifecycle!Transitions
<1>2. UNCHANGED sharedVars /\ UNCHANGED machineVars => UNCHANGED Apis!Lifecycle!vars
  BY DEF Apis!Lifecycle!vars, Apis!Lifecycle!requestVars, sharedVars, machineVars
<1> QED
  BY <1>1, <1>2

LEMMA SameAuthorization ==
    /\ Authorization!Init => Apis!Payment!Init
    /\ Authorization!Next => Apis!Payment!Next
    /\ UNCHANGED sharedVars /\ UNCHANGED machineVars => UNCHANGED Apis!Payment!vars
<1>1. (Authorization!Init => Apis!Payment!Init) /\ (Authorization!Next => Apis!Payment!Next)
  BY DEF Authorization!Init, Apis!Payment!Init, Authorization!NoCall, Apis!Payment!NoCall,
         Authorization!NoOutcome, Apis!Payment!NoOutcome, Authorization!NoEntry,
         Apis!Payment!NoEntry, Authorization!Next, Apis!Payment!Next, Authorization!PaymentEvents,
         Apis!Payment!PaymentEvents, Authorization!Start, Apis!Payment!Start, Authorization!Expire,
         Apis!Payment!Expire, Authorization!TransitionWithIdempotency,
         Apis!Payment!TransitionWithIdempotency, Authorization!CanTransition,
         Apis!Payment!CanTransition, Authorization!Snapshot, Apis!Payment!Snapshot,
         Authorization!Again, Apis!Payment!Again, Authorization!Goto, Apis!Payment!Goto,
         Authorization!Answer, Apis!Payment!Answer, Authorization!Objection, Apis!Payment!Objection,
         Authorization!Replay, Apis!Payment!Replay, Authorization!Refuse, Apis!Payment!Refuse,
         Authorization!Move, Apis!Payment!Move, Authorization!Targets, Apis!Payment!Targets,
         Authorization!FinalStates, Apis!Payment!FinalStates, Authorization!GuardRejects,
         Apis!Payment!GuardRejects, Authorization!PaymentStates, Apis!Payment!PaymentStates,
         Authorization!Transitions, Apis!Payment!Transitions
<1>2. UNCHANGED sharedVars /\ UNCHANGED machineVars => UNCHANGED Apis!Payment!vars
  BY DEF Apis!Payment!vars, Apis!Payment!requestVars, sharedVars, machineVars
<1> QED
  BY <1>1, <1>2

LEMMA SameModeration ==
    /\ Moderation!Init => Apis!Moderation!Init
    /\ Moderation!Next => Apis!Moderation!Next
    /\ UNCHANGED sharedVars /\ UNCHANGED moderationVars => UNCHANGED Apis!Moderation!vars
    /\ Apis!Moderation!ModerationAssumption
<1>1. Moderation!Init => Apis!Moderation!Init
  BY Zenon DEF Moderation!Init, Apis!Moderation!Init, Moderation!NoCall, Apis!Moderation!NoCall,
         Moderation!NoDraft, Apis!Moderation!NoDraft, Moderation!NoResult, Apis!Moderation!NoResult
<1>2. Moderation!Next => Apis!Moderation!Next
  BY Zenon DEF Moderation!Next, Apis!Moderation!Next, Moderation!LimitOf,
         Apis!Moderation!LimitOf, Moderation!ArriveCreate,
         Apis!Moderation!ArriveCreate, Moderation!ArriveGet, Apis!Moderation!ArriveGet,
         Moderation!ArriveSearch, Apis!Moderation!ArriveSearch, Moderation!ContextEnds,
         Apis!Moderation!ContextEnds, Moderation!Advance, Apis!Moderation!Advance, Moderation!Goto,
         Apis!Moderation!Goto, Moderation!Matches, Apis!Moderation!Matches, Moderation!CheckContext,
         Apis!Moderation!CheckContext, Moderation!WorkflowFails, Apis!Moderation!WorkflowFails,
         Moderation!ValidateCreate, Apis!Moderation!ValidateCreate, Moderation!DetectAndRoute,
         Apis!Moderation!DetectAndRoute, Moderation!Moderate, Apis!Moderation!Moderate,
         Moderation!PrepareTerms, Apis!Moderation!PrepareTerms, Moderation!CommitRecord,
         Apis!Moderation!CommitRecord, Moderation!Get, Apis!Moderation!Get,
         Moderation!ValidateSearch, Apis!Moderation!ValidateSearch, Moderation!TakeSnapshot,
         Apis!Moderation!TakeSnapshot, Moderation!Scan, Apis!Moderation!Scan, Moderation!Respond,
         Apis!Moderation!Respond, Moderation!NextPage, Apis!Moderation!NextPage, Moderation!Leave,
         Apis!Moderation!Leave, Moderation!MetadataMatches, Apis!Moderation!MetadataMatches,
         Moderation!Fail, Apis!Moderation!Fail, Moderation!Continue, Apis!Moderation!Continue,
         Moderation!ReviewReasons, Apis!Moderation!ReviewReasons, Moderation!Return,
         Apis!Moderation!Return, Moderation!Answer, Apis!Moderation!Answer, Moderation!NoResult,
         Apis!Moderation!NoResult, Moderation!NoCall, Apis!Moderation!NoCall, Moderation!NoDraft,
         Apis!Moderation!NoDraft, Moderation!Sorted, Apis!Moderation!Sorted, Moderation!Last, Apis!Moderation!Last, Moderation!Cardinality,
         Apis!Moderation!Cardinality
<1>3. UNCHANGED sharedVars /\ UNCHANGED moderationVars => UNCHANGED Apis!Moderation!vars
  BY DEF Apis!Moderation!vars, Apis!Moderation!requestVars, sharedVars, moderationVars
<1>4. Apis!Moderation!ModerationAssumption
  BY ModerationConstants
  DEF Moderation!ModerationAssumption, Apis!Moderation!ModerationAssumption, Moderation!Contents,
      Apis!Moderation!Contents, Moderation!Languages, Apis!Moderation!Languages
<1> QED
  BY <1>1, <1>2, <1>3, <1>4

--------------------------------------------------------------------------------
\* A step of the composition is a step of the program that runs.
LEMMA OneProgramSteps ==
    ASSUME [Next]_vars
    PROVE  /\ program' = program
           /\ program = "process" => [Apis!Process!Next]_(Apis!Process!vars)
           /\ program = "server" => [Apis!Server!Next]_(Apis!Server!serverVars)
           /\ program = "compensation" => [Sagas!Next]_(Sagas!vars)
           /\ program = "fulfillment" => [Sagas!Fulfillment!Next]_(Sagas!Fulfillment!vars)
           /\ program = "runner" => [Runner!Next]_(Runner!vars)
           /\ program = "lifecycle" => [Apis!Lifecycle!Next]_(Apis!Lifecycle!vars)
           /\ program = "authorization" => [Apis!Payment!Next]_(Apis!Payment!vars)
           /\ program = "moderation" => [Apis!Moderation!Next]_(Apis!Moderation!vars)
<1>1. CASE UNCHANGED vars
  <2>1. /\ program' = program /\ UNCHANGED processVars /\ UNCHANGED serverVars
        /\ UNCHANGED <<main, signalled>> /\ UNCHANGED requestVars /\ UNCHANGED sagaVars
        /\ UNCHANGED checkVars /\ UNCHANGED sharedVars /\ UNCHANGED machineVars
        /\ UNCHANGED moderationVars
    BY <1>1 DEF vars, lifeVars
  <2>2. UNCHANGED Runner!vars
    BY <2>1 DEF Runner!vars, requestVars, checkVars
  <2> QED
    BY <2>1, <2>2, SameProcess, SameServer, SameCompensation, SameFulfillment, SameLifecycle,
       SameAuthorization, SameModeration
<1>2. CASE Next
  BY <1>2, SameProcess, SameServer, SameCompensation, SameFulfillment, SameLifecycle,
     SameAuthorization, SameModeration
  DEF Next, RunsModeration, RunsLife, RunsServer, RunsProcess, RunsWorkflow, RunsCompensation,
      RunsFulfillment, RunsRunner, RunsMachine, RunsLifecycle, RunsAuthorization
<1> QED
  BY <1>1, <1>2

LEMMA ConstantsFit == Apis!Process!RuntimeAssumption /\ Apis!Server!LifecycleAssumption
BY DEF Apis!Process!RuntimeAssumption, Apis!Server!LifecycleAssumption

\* Each program keeps its own inductive invariant.
ProcessInv == program = "process" => Apis!ProcessInv
ServerInv == program = "server" => Apis!ServerInv
CompensationInv == program = "compensation" => Sagas!IInv
FulfillmentInv == program = "fulfillment" => Sagas!FulfillmentInv
RunInv == program = "runner" => RunnerInv
LifecycleInv == program = "lifecycle" => Apis!OrderInv
AuthorizationInv == program = "authorization" => Apis!PaymentInv
ModerationInv == program = "moderation" => Apis!ModerationInv /\ Apis!SearchInv

LEMMA ProgramsBegin ==
    ASSUME Init
    PROVE  /\ ProcessInv /\ ServerInv /\ CompensationInv /\ FulfillmentInv /\ RunInv
           /\ LifecycleInv /\ AuthorizationInv /\ ModerationInv
           /\ program = "compensation" => Compensation!SagaInit
           /\ program = "fulfillment" => Fulfillment!SagaInit
<1> USE DEF Init, InitModeration, InitLife, InitWorkflow, InitMachine
<1>1. ProcessInv
  BY SameProcess, ConstantsFit, Apis!ProcessBegins DEF ProcessInv
<1>2. ServerInv
  BY SameServer, ConstantsFit, Apis!ServerBegins DEF ServerInv
<1>3. program = "compensation" => Sagas!Init
  BY SameCompensation
<1>4. CompensationInv /\ (program = "compensation" => Compensation!SagaInit)
  BY <1>3, SameCompensation, Sagas!InitEstablishes, Sagas!FirstStateIsSagas DEF CompensationInv
<1>5. program = "fulfillment" => Sagas!Fulfillment!Init
  BY SameFulfillment
<1>6. FulfillmentInv /\ (program = "fulfillment" => Fulfillment!SagaInit)
  BY <1>5, SameFulfillment, Sagas!FulfillmentBegins, Sagas!OrderFirstState DEF FulfillmentInv
<1>7. RunInv
  BY RunnerBegins DEF RunInv
<1>8. LifecycleInv
  BY SameLifecycle, Apis!OrderBegins DEF LifecycleInv
<1>9. AuthorizationInv
  BY SameAuthorization, Apis!PaymentBegins DEF AuthorizationInv
<1>10. ModerationInv
  BY SameModeration, Apis!ModerationBegins, Apis!SearchBegins DEF ModerationInv
<1> QED
  BY <1>1, <1>2, <1>4, <1>6, <1>7, <1>8, <1>9, <1>10

LEMMA ProcessKeeps == ProcessInv /\ [Next]_vars => ProcessInv'
<1> SUFFICES ASSUME ProcessInv, [Next]_vars, program = "process" PROVE Apis!ProcessInv'
  BY OneProgramSteps DEF ProcessInv
<1>1. Apis!ProcessInv /\ [Apis!Process!Next]_(Apis!Process!vars)
  BY OneProgramSteps DEF ProcessInv
<1> QED
  BY <1>1, ConstantsFit, Apis!ProcessTypesStep, Apis!RelayStaysHonest, Apis!LifeStep, Apis!ExitStep
  DEF Apis!ProcessInv

LEMMA ServerKeeps == ServerInv /\ [Next]_vars => ServerInv'
<1> SUFFICES ASSUME ServerInv, [Next]_vars, program = "server" PROVE Apis!ServerInv'
  BY OneProgramSteps DEF ServerInv
<1>1. Apis!ServerInv /\ [Apis!Server!Next]_(Apis!Server!serverVars)
  BY OneProgramSteps DEF ServerInv
<1> QED
  BY <1>1, ConstantsFit, Apis!ServerStep

LEMMA CompensationKeeps ==
    ASSUME LateCancel = FALSE, CompensationInv, [Next]_vars
    PROVE  CompensationInv' /\ (program = "compensation" => Compensation!SagaStep)
<1> SUFFICES ASSUME program = "compensation" PROVE Sagas!IInv' /\ Compensation!SagaStep
  BY OneProgramSteps DEF CompensationInv
<1>1. Sagas!IInv /\ [Sagas!Next]_(Sagas!vars)
  BY OneProgramSteps DEF CompensationInv
<1>2. Sagas!IInv'
  BY <1>1, Sagas!NextPreserves
<1> QED
  BY <1>1, <1>2, Sagas!StepsAreSagas, SameCompensation

LEMMA FulfillmentKeeps ==
    ASSUME FulfillmentInv, [Next]_vars
    PROVE  FulfillmentInv' /\ (program = "fulfillment" => Fulfillment!SagaStep)
<1> SUFFICES ASSUME program = "fulfillment" PROVE Sagas!FulfillmentInv' /\ Fulfillment!SagaStep
  BY OneProgramSteps DEF FulfillmentInv
<1>1. Sagas!FulfillmentInv /\ [Sagas!Fulfillment!Next]_(Sagas!Fulfillment!vars)
  BY OneProgramSteps DEF FulfillmentInv
<1>2. Sagas!FulfillmentInv'
  BY <1>1, Sagas!FulfillmentStep
<1> QED
  BY <1>1, <1>2, Sagas!OrderStepsAreSagas, SameFulfillment

LEMMA RunKeeps == RunInv /\ [Next]_vars => RunInv'
<1> SUFFICES ASSUME RunInv, [Next]_vars, program = "runner" PROVE RunnerInv'
  BY OneProgramSteps DEF RunInv
<1> QED
  BY OneProgramSteps, RunnerStep DEF RunInv

LEMMA ApisKeep ==
    ASSUME LifecycleInv, AuthorizationInv, ModerationInv, [Next]_vars
    PROVE  LifecycleInv' /\ AuthorizationInv' /\ ModerationInv'
<1>1. LifecycleInv'
  <2> SUFFICES ASSUME program = "lifecycle" PROVE Apis!OrderInv'
    BY OneProgramSteps DEF LifecycleInv
  <2> QED
    BY OneProgramSteps, Apis!OrderStep DEF LifecycleInv
<1>2. AuthorizationInv'
  <2> SUFFICES ASSUME program = "authorization" PROVE Apis!PaymentInv'
    BY OneProgramSteps DEF AuthorizationInv
  <2> QED
    BY OneProgramSteps, Apis!PaymentStep DEF AuthorizationInv
<1>3. ModerationInv'
  <2> SUFFICES ASSUME program = "moderation" PROVE Apis!ModerationInv' /\ Apis!SearchInv'
    BY OneProgramSteps DEF ModerationInv
  <2> QED
    BY OneProgramSteps, SameModeration, Apis!ModerationStep, Apis!SearchStep DEF ModerationInv
<1> QED
  BY <1>1, <1>2, <1>3

--------------------------------------------------------------------------------
\* The order process of the composition delivers at least once (sqloutbox relay).
THEOREM ServicesDeliver == Spec => []StreamIsCommitted
<1>1. Init => ProcessInv
  BY ProgramsBegin
<1>2. ProcessInv /\ [Next]_vars => ProcessInv'
  BY ProcessKeeps
<1>3. ProcessInv => StreamIsCommitted
  BY DEF ProcessInv, Apis!ProcessInv, Apis!RelayIsHonest, StreamIsCommitted,
         Process!StreamIsCommitted
<1> QED
  BY <1>1, <1>2, <1>3, PTL DEF Spec

\* Its shutdown is in order (RunLifecycle, run).
THEOREM ServicesStopInOrder == Spec => []ShutdownInOrder
<1>1. Init => ProcessInv
  BY ProgramsBegin
<1>2. ProcessInv /\ [Next]_vars => ProcessInv'
  BY ProcessKeeps
<1>3. ProcessInv => ShutdownInOrder
  BY DEF ProcessInv, Apis!ProcessInv, Apis!LifeInv, Apis!CancelIsLate, Apis!HandlersAreDone,
         Apis!AfterDrain, Apis!ExitsAreInOrder, ShutdownInOrder, Process!ShutdownInOrder
<1> QED
  BY <1>1, <1>2, <1>3, PTL DEF Spec

\* What the inductive invariants say of the answers.
LEMMA ProgramsReport ==
    ASSUME ServerInv, FulfillmentInv, RunInv, LifecycleInv, AuthorizationInv, ModerationInv
    PROVE  ReportsHold
<1>1. program = "moderation" => Moderation!AnswersHold
  BY Apis!ModerationReports
  DEF ModerationInv, Apis!Moderation!AnswersHold, Moderation!AnswersHold,
      Apis!Moderation!ReviewReasons, Moderation!ReviewReasons, Apis!Moderation!Cardinality,
      Moderation!Cardinality
<1>2. program = "server" => Server!CleanReturn
  BY DEF ServerInv, Apis!ServerInv, Server!CleanReturn
<1>3. program = "fulfillment" => Fulfillment!LifecycleMatchesEffects
  BY Sagas!FulfillmentReports
  DEF FulfillmentInv, Sagas!Fulfillment!LifecycleMatchesEffects,
      Fulfillment!LifecycleMatchesEffects, Sagas!Fulfillment!State, Fulfillment!State
<1>4. program = "runner" => Runner!AnswerNamesCause
  BY RunnerReports DEF RunInv
<1>5. program = "lifecycle" => Lifecycle!MovesAreExclusive /\ Lifecycle!SnapshotsFollow
  <2>1. \A s, u : Apis!Lifecycle!Reaches(s, u) <=> Lifecycle!Reaches(s, u)
    BY DEF Lifecycle!Reaches, Apis!Lifecycle!Reaches, Lifecycle!Rank, Apis!Lifecycle!Rank,
           Lifecycle!FinalStates, Apis!Lifecycle!FinalStates
  <2>2. Apis!Lifecycle!MovesAreExclusive => Lifecycle!MovesAreExclusive
    BY <2>1, Zenon DEF Lifecycle!MovesAreExclusive, Apis!Lifecycle!MovesAreExclusive
  <2>3. Apis!Lifecycle!SnapshotsFollow => Lifecycle!SnapshotsFollow
    BY <2>1, Zenon DEF Lifecycle!SnapshotsFollow, Apis!Lifecycle!SnapshotsFollow
  <2> QED
    BY <2>2, <2>3, Apis!OrderReports DEF LifecycleInv
<1>6. program = "authorization" =>
         Authorization!RetriesAreReplayed /\ Authorization!EntriesAreMoves
  BY DEF AuthorizationInv, Apis!PaymentInv, Authorization!RetriesAreReplayed,
         Apis!Payment!RetriesAreReplayed, Authorization!EntriesAreMoves,
         Apis!Payment!EntriesAreMoves, Authorization!NoEntry, Apis!Payment!NoEntry,
         Authorization!PaymentEvents, Apis!Payment!PaymentEvents, Authorization!Transitions,
         Apis!Payment!Transitions
<1> QED
  BY <1>1, <1>2, <1>3, <1>4, <1>5, <1>6 DEF ReportsHold

\* What each program tells its caller holds, whatever else goes on in it (respond of the
\* moderation handler, RunServer, Fulfill, statusForReport, transition and
\* transitionWithIdempotency).
THEOREM ServicesReportsHold == Spec => []ReportsHold
<1> DEFINE All == ServerInv /\ FulfillmentInv /\ RunInv /\ LifecycleInv /\ AuthorizationInv
                  /\ ModerationInv
<1>1. Init => All
  BY ProgramsBegin
<1>2. All /\ [Next]_vars => All'
  BY ServerKeeps, FulfillmentKeeps, RunKeeps, ApisKeep
<1>3. All => ReportsHold
  BY ProgramsReport
<1> QED
  BY <1>1, <1>2, <1>3, PTL DEF Spec

\* A run of the compensation workflow whose client does not leave late has undone what it
\* could (execute, server.go:153).
THEOREM ServicesLeaveNothingBehind ==
    ASSUME LateCancel = FALSE
    PROVE  Spec => []NothingLeftBehind
<1>1. Init => CompensationInv
  BY ProgramsBegin
<1>2. CompensationInv /\ [Next]_vars => CompensationInv'
  BY CompensationKeeps
<1>3. CompensationInv => NothingLeftBehind
  BY Sagas!Tails
  DEF CompensationInv, Sagas!IInv, Sagas!Ended, Sagas!Shipped, Sagas!Undone, Sagas!Pending,
      Sagas!StatusForReport, NothingLeftBehind, Compensation!NothingLeftBehind
<1> QED
  BY <1>1, <1>2, <1>3, PTL DEF Spec

\* Both programs with compensations implement the saga (execute of
\* examples/compensation-workflow and of examples/order-fulfillment-integration).
THEOREM ServicesAreSagas ==
    ASSUME LateCancel = FALSE
    PROVE  Spec => RunsAreSagas
<1> DEFINE Started == /\ program = "compensation" => Compensation!SagaInit
                      /\ program = "fulfillment" => Fulfillment!SagaInit
           Steps == /\ program = "compensation" => Compensation!SagaStep
                    /\ program = "fulfillment" => Fulfillment!SagaStep
<1>1. Init => CompensationInv /\ FulfillmentInv /\ Started
  BY ProgramsBegin
<1>2. CompensationInv /\ FulfillmentInv /\ [Next]_vars => CompensationInv' /\ FulfillmentInv'
  BY CompensationKeeps, FulfillmentKeeps
<1>3. CompensationInv /\ FulfillmentInv /\ [Next]_vars => [Steps]_vars
  BY CompensationKeeps, FulfillmentKeeps
<1> QED
  BY <1>1, <1>2, <1>3, PTL DEF Spec, RunsAreSagas

\* A client of the moderation API that follows the cursor misses nothing and is shown
\* nothing twice (Search, NextAfterContentID).
THEOREM ServicesPagesAreComplete == Spec => []PagesAreComplete
<1> DEFINE All == LifecycleInv /\ AuthorizationInv /\ ModerationInv
<1>1. Init => All
  BY ProgramsBegin
<1>2. All /\ [Next]_vars => All'
  BY ApisKeep
<1>3. All => PagesAreComplete
  <2> SUFFICES ASSUME ModerationInv, program = "moderation" PROVE Moderation!PagesAreComplete
    BY DEF PagesAreComplete
  <2>1. Apis!Moderation!PagesAreComplete
    BY SameModeration, Apis!SearchReports DEF ModerationInv
  <2> QED
    BY <2>1, Zenon
    DEF Moderation!PagesAreComplete, Apis!Moderation!PagesAreComplete, Moderation!Shown,
        Apis!Moderation!Shown, Moderation!Matches, Apis!Moderation!Matches,
        Moderation!MetadataMatches, Apis!Moderation!MetadataMatches, Moderation!ReviewReasons,
        Apis!Moderation!ReviewReasons, Moderation!Last, Apis!Moderation!Last
<1> QED
  BY <1>1, <1>2, <1>3, PTL DEF Spec

\* What the inductive invariants say of the types.
LEMMA ProgramsTyped ==
    ASSUME ProcessInv, ServerInv, CompensationInv, FulfillmentInv, RunInv, LifecycleInv,
           AuthorizationInv, ModerationInv
    PROVE  TypeOK
<1>1. program = "moderation" => Moderation!TypeOK
  BY Apis!SearchTypesCorrect
  DEF ModerationInv, Moderation!TypeOK, Apis!Moderation!TypeOK, Moderation!Codes,
      Apis!Moderation!Codes, Moderation!Cardinality, Apis!Moderation!Cardinality
<1>2. program = "server" => Server!TypeOK
  BY DEF ServerInv, Apis!ServerInv, Server!TypeOK, Apis!Server!TypeOK
<1>3. program = "process" => Process!TypeOK
  BY DEF ProcessInv, Apis!ProcessInv, Process!TypeOK, Apis!Process!TypeOK
<1>4. program = "compensation" => Compensation!TypeOK
  BY Sagas!CompensationTyped
  DEF CompensationInv, Compensation!TypeOK, Sagas!TypeOK, Compensation!Calls, Sagas!Calls
<1>5. program = "fulfillment" => Fulfillment!TypeOK
  BY Sagas!FulfillmentTyped
  DEF FulfillmentInv, Fulfillment!TypeOK, Sagas!Fulfillment!TypeOK, Fulfillment!Calls,
      Sagas!Fulfillment!Calls, Fulfillment!OrderStates, Sagas!Fulfillment!OrderStates
<1>6. program = "runner" => Runner!TypeOK
  BY DEF RunInv, RunnerInv
<1>7. program = "lifecycle" => Lifecycle!TypeOK
  BY Apis!OrderTyped
  DEF LifecycleInv, Lifecycle!TypeOK, Apis!Lifecycle!TypeOK, Lifecycle!OrderStates,
      Apis!Lifecycle!OrderStates, Lifecycle!Codes, Apis!Lifecycle!Codes
<1>8. program = "authorization" => Authorization!TypeOK
  <2>1. /\ Authorization!PaymentStates = Apis!Payment!PaymentStates
        /\ Authorization!Codes = Apis!Payment!Codes
        /\ Authorization!NoEntry = Apis!Payment!NoEntry
        /\ Authorization!PaymentEvents = Apis!Payment!PaymentEvents
    BY Zenon
    DEF Authorization!PaymentStates, Apis!Payment!PaymentStates, Authorization!Codes,
        Apis!Payment!Codes, Authorization!NoEntry, Apis!Payment!NoEntry,
        Authorization!PaymentEvents, Apis!Payment!PaymentEvents
  <2>2. /\ Authorization!Entries = Apis!Payment!Entries
        /\ Authorization!Snapshots = Apis!Payment!Snapshots
    BY <2>1
    DEF Authorization!Entries, Apis!Payment!Entries, Authorization!Snapshots,
        Apis!Payment!Snapshots
  <2> QED
    BY <2>1, <2>2, Zenon
    DEF AuthorizationInv, Apis!PaymentInv, Apis!PaymentTypes, Authorization!TypeOK,
        Apis!Payment!TypeOK
<1> QED
  BY <1>1, <1>2, <1>3, <1>4, <1>5, <1>6, <1>7, <1>8 DEF TypeOK

\* Type correctness of all eight programs.
THEOREM ServicesTypesCorrect ==
    ASSUME LateCancel = FALSE
    PROVE  Spec => []TypeOK
<1> DEFINE All == ProcessInv /\ ServerInv /\ CompensationInv /\ FulfillmentInv /\ RunInv
                  /\ LifecycleInv /\ AuthorizationInv /\ ModerationInv
<1>1. Init => All
  BY ProgramsBegin
<1>2. All /\ [Next]_vars => All'
  BY ProcessKeeps, ServerKeeps, CompensationKeeps, FulfillmentKeeps, RunKeeps, ApisKeep
<1>3. All => TypeOK
  BY ProgramsTyped
<1> QED
  BY <1>1, <1>2, <1>3, PTL DEF Spec

================================================================================
