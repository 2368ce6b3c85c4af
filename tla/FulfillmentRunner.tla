---------------------------- MODULE FulfillmentRunner ----------------------------
(***************************************************************************)
(* One request of examples/fulfillment-workflow-runner: a sequential       *)
(* workflow whose second work runs two checks as goroutines.  The parallel *)
(* runner of the workflow library gives both one context, cancels it when  *)
(* a check does not complete and waits for both.  The payment check waits  *)
(* for a delayed inventory check to start.                                 *)
(***************************************************************************)
EXTENDS Naturals

VARIABLES
    pc,         \* where the request stands
    call,       \* RunRequest
    cancelled,  \* the request's context is cancelled
    started,    \* inventoryStarted: "nil", "open" or "closed"
    inventory,  \* the goroutine of reserveInventory, or its report
    payment,    \* the goroutine of authorizePayment, or its report
    first,      \* the report that made the parallel runner cancel the checks
    effects,    \* shipmentCreated, shipmentSkipped
    report,     \* status of the workflow's report
    outcome     \* HTTP status, 0 before the answer

vars == <<pc, call, cancelled, started, inventory, payment, first, effects, report, outcome>>
checkVars == <<started, inventory, payment, first>>

\* A delay in milliseconds whose nanoseconds do not fit into 64 bits has "wrapped" to a
\* duration that is not positive: validateRequest lets it pass and no timer is started.
Calls ==
    [valid : BOOLEAN, stock : BOOLEAN, payment : BOOLEAN, shipment : BOOLEAN,
     delay : {"none", "timed", "wrapped"}]
Statuses == {"completed", "failed", "cancelled"}

TypeOK ==
    /\ pc \in {"run", "validate", "riskChecks", "join", "decide", "respond", "done"}
    /\ call \in Calls
    /\ cancelled \in BOOLEAN
    /\ started \in {"nil", "open", "closed"}
    /\ inventory \in {"none", "start", "delay", "check"} \union Statuses
    /\ payment \in {"none", "wait", "check"} \union Statuses
    /\ first \in {"none"} \union Statuses
    /\ effects \subseteq {"created", "skipped"}
    /\ report \in {"none"} \union Statuses
    /\ outcome \in {0, 200, 400, 408, 409}

Init ==
    /\ pc = "run"
    /\ call \in Calls
    /\ cancelled = FALSE
    /\ started = "nil"
    /\ inventory = "none"
    /\ payment = "none"
    /\ first = "none"
    /\ effects = {}
    /\ report = "none"
    /\ outcome = 0

\* The client leaves and net/http cancels the context of the request.
Cancel ==
    /\ ~cancelled
    /\ pc # "done"
    /\ cancelled' = TRUE
    /\ UNCHANGED <<pc, call, checkVars, effects, report, outcome>>

\* run and validateRequest: an order id is there and the delay seems to be in range.
Run ==
    /\ pc = "run"
    /\ IF call.valid THEN pc' = "validate" /\ UNCHANGED outcome
                     ELSE pc' = "done" /\ outcome' = 400
    /\ UNCHANGED <<call, cancelled, checkVars, effects, report>>

\* The sequential runner ends with the status of the work it stopped at.
RunEnds(status) ==
    /\ report' = status
    /\ pc' = "respond"
    /\ UNCHANGED <<call, cancelled, checkVars, outcome>>

\* The sequential runner finds the context cancelled before its next work.
RunnerStops ==
    /\ pc \in {"validate", "riskChecks", "decide"}
    /\ cancelled
    /\ RunEnds("cancelled")
    /\ UNCHANGED effects

ValidateOrder ==
    /\ pc = "validate"
    /\ pc' = "riskChecks"
    /\ UNCHANGED <<call, cancelled, checkVars, effects, report, outcome>>

\* riskChecks starts both goroutines.
RiskChecks ==
    /\ pc = "riskChecks"
    /\ pc' = "join"
    /\ started' = IF call.delay # "none" THEN "open" ELSE "nil"
    /\ inventory' = "start"
    /\ payment' = "wait"
    /\ UNCHANGED <<call, cancelled, first, effects, report, outcome>>

\* The context of the checks: the request's, cancelled as well by the parallel runner.
ChecksCancelled == cancelled \/ first # "none"

\* The parallel runner takes the report of a check that did not complete and cancels the
\* other one, which may have gone on in the meantime.
CancelSiblings ==
    /\ pc = "join"
    /\ first = "none"
    /\ \E status \in {inventory, payment} \intersect {"failed", "cancelled"} : first' = status
    /\ UNCHANGED <<pc, call, cancelled, started, inventory, payment, effects, report, outcome>>

\* signalInventoryStarted.
InventoryStarts ==
    /\ inventory = "start"
    /\ started' = IF started = "open" THEN "closed" ELSE started
    /\ inventory' = IF call.delay = "timed" THEN "delay" ELSE "check"
    /\ UNCHANGED <<pc, call, cancelled, payment, first, effects, report, outcome>>

TimerFires ==
    /\ inventory = "delay"
    /\ inventory' = "check"
    /\ UNCHANGED <<pc, call, cancelled, started, payment, first, effects, report, outcome>>

InventoryReports(status) ==
    /\ inventory' = status
    /\ UNCHANGED <<pc, call, cancelled, started, payment, first, effects, report, outcome>>

\* The select of reserveInventory, and the test of the context after it.
InventoryGivesUp ==
    /\ inventory \in {"delay", "check"}
    /\ ChecksCancelled
    /\ InventoryReports("cancelled")

ReserveInventory ==
    /\ inventory = "check"
    /\ ~ChecksCancelled
    /\ InventoryReports(IF call.stock THEN "completed" ELSE "failed")

PaymentReports(status) ==
    /\ payment' = status
    /\ UNCHANGED <<pc, call, cancelled, started, inventory, first, effects, report, outcome>>

\* The select of authorizePayment: no delay, or the inventory check has started.
PaymentGoesOn ==
    /\ payment = "wait"
    /\ started \in {"nil", "closed"}
    /\ payment' = "check"
    /\ UNCHANGED <<pc, call, cancelled, started, inventory, first, effects, report, outcome>>

PaymentGivesUp ==
    /\ payment = "check" \/ (payment = "wait" /\ started # "nil")
    /\ ChecksCancelled
    /\ PaymentReports("cancelled")

AuthorizePayment ==
    /\ payment = "check"
    /\ ~ChecksCancelled
    /\ PaymentReports(IF call.payment THEN "completed" ELSE "failed")

\* The parallel runner has both reports.  The one that stopped the other decides; a
\* failure beside a cancellation may decide, too.
JoinChecks ==
    /\ pc = "join"
    /\ inventory \in Statuses
    /\ payment \in Statuses
    /\ \/ /\ {inventory, payment} = {"completed"}
          /\ pc' = "decide"
          /\ UNCHANGED <<call, cancelled, checkVars, report, outcome>>
       \/ /\ first # "none"
          /\ \E status \in {first} \union ({inventory, payment} \intersect {"failed"}) :
                RunEnds(status)
    /\ UNCHANGED effects

\* shipmentDecision: the predicate fails on a cancelled context, else one branch runs.
ShipmentDecision ==
    /\ pc = "decide"
    /\ IF cancelled
       THEN /\ \E status \in {"cancelled", "failed"} : RunEnds(status)
            /\ UNCHANGED effects
       ELSE /\ effects' = effects \union {IF call.shipment THEN "created" ELSE "skipped"}
            /\ RunEnds("completed")

\* statusForReport.
Respond ==
    /\ pc = "respond"
    /\ pc' = "done"
    /\ outcome' = CASE report = "cancelled" -> 408
                    [] report = "completed" -> 200
                    [] report = "failed" -> 409
    /\ UNCHANGED <<call, cancelled, checkVars, effects, report>>

Main ==
    \/ Run
    \/ RunnerStops
    \/ ValidateOrder
    \/ RiskChecks
    \/ CancelSiblings
    \/ JoinChecks
    \/ ShipmentDecision
    \/ Respond

InventoryStep == InventoryStarts \/ InventoryGivesUp \/ ReserveInventory
PaymentStep == PaymentGoesOn \/ PaymentGivesUp \/ AuthorizePayment

Next == Main \/ InventoryStep \/ PaymentStep \/ TimerFires \/ Cancel

Spec == Init /\ [][Next]_vars

--------------------------------------------------------------------------------
\* A shipment is decided on only after both checks have completed, and the answer says
\* why a run stopped: 408 only if the client left, although a check may have been
\* cancelled by the failure of the other, and 409 never for a run without a reason.
AnswerNamesCause ==
    /\ effects # {} => inventory = "completed" /\ payment = "completed"
    /\ pc = "done" /\ outcome # 400 =>
          /\ outcome = 200 => effects = {IF call.shipment THEN "created" ELSE "skipped"}
          /\ outcome # 200 => effects = {}
          /\ outcome = 408 => cancelled
          /\ outcome = 409 => ~call.stock \/ ~call.payment \/ cancelled

\* "A failed risk check stops the workflow and cancels slow siblings" (README): a run
\* with a failed check, or without a client, ends although the inventory timer need
\* not fire.
SlowSiblingIsCancelled ==
    (inventory = "failed" \/ payment = "failed" \/ cancelled) ~> (pc = "done")

================================================================================
