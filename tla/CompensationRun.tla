----------------------------- MODULE CompensationRun -----------------------------
(***************************************************************************)
(* One request of examples/compensation-workflow: the forward workflow     *)
(* reserves inventory, authorizes the payment and creates the shipment;    *)
(* when it does not complete, execute runs the registered compensations in *)
(* reverse order.  All state belongs to the request.  The runner of the    *)
(* workflow library looks at the context before each work and stops at a   *)
(* cancelled one under either failure policy.                              *)
(***************************************************************************)
EXTENDS Naturals, Sequences

CONSTANTS
    LateCancel   \* may the client leave after the forward workflow has failed?

CompensationAssumption == LateCancel \in BOOLEAN

VARIABLES
    pc,             \* where the request stands
    call,           \* RunRequest
    cancelled,      \* the request's context is cancelled
    effects,        \* inventoryReserved, paymentAuthorized, shipmentCreated
    compensations,  \* registered compensations, in order of registration
    works,          \* compensations the second runner has still to run
    forward,        \* status of the forward report
    compensated,    \* the second result of execute
    outcome         \* HTTP status, 0 before the answer

vars == <<pc, call, cancelled, effects, compensations, works, forward, compensated, outcome>>

Calls ==
    [valid : BOOLEAN, stock : BOOLEAN, payment : BOOLEAN, provider : BOOLEAN,
     voidFails : BOOLEAN, releaseFails : BOOLEAN]

TypeOK ==
    /\ pc \in {"run", "reserve", "authorize", "ship", "execute", "compensate", "respond", "done"}
    /\ call \in Calls
    /\ cancelled \in BOOLEAN
    /\ effects \subseteq {"inventory", "payment", "shipment"}
    /\ compensations \in Seq({"inventory", "payment"})
    /\ works \in Seq({"inventory", "payment"})
    /\ forward \in {"none", "completed", "failed", "cancelled"}
    /\ compensated \in BOOLEAN
    /\ outcome \in {0, 200, 400, 408, 409}

Init ==
    /\ pc = "run"
    /\ call \in Calls
    /\ cancelled = FALSE
    /\ effects = {}
    /\ compensations = <<>>
    /\ works = <<>>
    /\ forward = "none"
    /\ compensated = FALSE
    /\ outcome = 0

\* The client leaves and net/http cancels the context of the request.
Cancel ==
    /\ ~cancelled
    /\ pc # "done"
    /\ forward = "failed" => LateCancel
    /\ cancelled' = TRUE
    /\ UNCHANGED <<pc, call, effects, compensations, works, forward, compensated, outcome>>

\* run up to execute: a request that does not validate is answered with 400.
Run ==
    /\ pc = "run"
    /\ IF call.valid THEN pc' = "reserve" /\ UNCHANGED outcome
                     ELSE pc' = "done" /\ outcome' = 400
    /\ UNCHANGED <<call, cancelled, effects, compensations, works, forward, compensated>>

\* The forward runner ends with the status of the work it stopped at.
ForwardEnds(status) ==
    /\ forward' = status
    /\ pc' = "execute"
    /\ UNCHANGED <<call, cancelled, compensations, works, compensated, outcome>>

\* A work of the forward runner that does not complete: it finds the context cancelled
\* or what it needs unavailable.
StopsAt(work, available) ==
    /\ pc = work
    /\ \/ cancelled /\ ForwardEnds("cancelled")
       \/ ~cancelled /\ ~available /\ ForwardEnds("failed")
    /\ UNCHANGED effects

\* A work that performs its effect and registers the compensation.
Performs(work, available, effect, next) ==
    /\ pc = work
    /\ ~cancelled
    /\ available
    /\ effects' = effects \union {effect}
    /\ compensations' = Append(compensations, effect)
    /\ pc' = next
    /\ UNCHANGED <<call, cancelled, works, forward, compensated, outcome>>

ReserveInventory ==
    \/ StopsAt("reserve", call.stock)
    \/ Performs("reserve", call.stock, "inventory", "authorize")

AuthorizePayment ==
    \/ StopsAt("authorize", call.payment)
    \/ Performs("authorize", call.payment, "payment", "ship")

CreateShipment ==
    \/ StopsAt("ship", call.provider)
    \/ /\ pc = "ship"
       /\ ~cancelled
       /\ call.provider
       /\ effects' = effects \union {"shipment"}
       /\ ForwardEnds("completed")

\* Mutant: the compensations run in the order of their registration.
ForwardOrder == compensations

\* reverseCompensations.
ReverseCompensations ==
    [i \in 1 .. Len(compensations) |-> compensations[Len(compensations) + 1 - i]]

\* Mutant: a cancelled forward workflow is not compensated.
ExecuteAfterFailure ==
    /\ pc = "execute"
    /\ IF forward # "failed" \/ compensations = <<>>
       THEN pc' = "respond" /\ UNCHANGED <<works, compensated>>
       ELSE /\ pc' = "compensate"
            /\ works' = ReverseCompensations
            /\ compensated' = TRUE
    /\ UNCHANGED <<call, cancelled, effects, compensations, forward, outcome>>

\* execute between the two runners.
Execute ==
    /\ pc = "execute"
    /\ IF forward = "completed" \/ compensations = <<>>
       THEN pc' = "respond" /\ UNCHANGED <<works, compensated>>
       ELSE /\ pc' = "compensate"
            /\ works' = ReverseCompensations
            /\ compensated' = TRUE
    /\ UNCHANGED <<call, cancelled, effects, compensations, forward, outcome>>

\* Only a cancelled forward report makes compensationCtx a context.WithoutCancel.
CleanupCancelled == cancelled /\ forward # "cancelled"

\* A compensation either undoes its effect or fails; ContinueOnFailure goes on.
Compensates(effect, fails) ==
    /\ pc = "compensate"
    /\ works # <<>>
    /\ Head(works) = effect
    /\ ~CleanupCancelled
    /\ effects' = IF fails THEN effects ELSE effects \ {effect}
    /\ works' = Tail(works)
    /\ UNCHANGED <<pc, call, cancelled, compensations, forward, compensated, outcome>>

VoidPayment == Compensates("payment", call.voidFails)
ReleaseInventory == Compensates("inventory", call.releaseFails)

\* The second runner ends: nothing is left to do, or it finds its context cancelled.
CompensationEnds ==
    /\ pc = "compensate"
    /\ works = <<>> \/ CleanupCancelled
    /\ pc' = "respond"
    /\ UNCHANGED <<call, cancelled, effects, compensations, works, forward, compensated, outcome>>

\* statusForReport: the parent report has the status of the forward report.
StatusForReport ==
    CASE forward = "cancelled" -> 408
      [] forward = "completed" -> 200
      [] forward = "failed" -> 409

Respond ==
    /\ pc = "respond"
    /\ pc' = "done"
    /\ outcome' = StatusForReport
    /\ UNCHANGED <<call, cancelled, effects, compensations, works, forward, compensated>>

Step ==
    \/ Run
    \/ ReserveInventory
    \/ AuthorizePayment
    \/ CreateShipment
    \/ Execute
    \/ VoidPayment
    \/ ReleaseInventory
    \/ CompensationEnds
    \/ Respond

Next == Step \/ Cancel

Spec == Init /\ [][Next]_vars

--------------------------------------------------------------------------------
\* The run as a saga.
Reversed(s) == [i \in 1 .. Len(s) |-> s[Len(s) + 1 - i]]
Phase ==
    CASE pc = "compensate" -> "compensating"
      [] pc \in {"respond", "done"} /\ compensated -> "compensated"
      [] pc \in {"respond", "done"} /\ ~compensated ->
            IF forward = "completed" THEN "completed" ELSE "failed"
      [] OTHER -> "forward"

Abstract == INSTANCE Saga WITH
    Effects <- {"inventory", "payment"},
    phase <- Phase,
    standing <- effects \ {"shipment"},
    stack <- IF compensated THEN Reversed(works) ELSE compensations,
    shipped <- "shipment" \in effects

\* The first state of a run is the first state of a saga, and each of its steps is one
\* of the saga or changes nothing a caller could see.
SagaInit == Abstract!Init
SagaStep == [Abstract!Next]_(Abstract!vars)

\* "Keeps running later compensation steps" (README): a run that ended without
\* a shipment has left only effects whose own compensation failed, and a run that
\* answers 200 has left them all.
NothingLeftBehind ==
    pc = "done" /\ outcome # 400 =>
        IF outcome = 200
        THEN effects = {"inventory", "payment", "shipment"}
        ELSE /\ "shipment" \notin effects
             /\ "payment" \in effects => call.voidFails
             /\ "inventory" \in effects => call.releaseFails

================================================================================
