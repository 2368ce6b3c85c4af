---------------------------- MODULE OrderFulfillment ----------------------------
(***************************************************************************)
(* One request of examples/order-fulfillment-integration: a forward        *)
(* workflow of five works over an order state machine, and compensations   *)
(* in reverse order when it does not complete, always under a context      *)
(* without cancellation, followed by the cancellation of the order.  The   *)
(* workflow runner looks at the context before each work, the state        *)
(* machine at the start of each transition.                                *)
(***************************************************************************)
EXTENDS Naturals, Sequences

VARIABLES
    pc,             \* where the request stands
    call,           \* FulfillmentRequest
    cancelled,      \* the request's context is cancelled
    history,        \* orderRun.history; its last element is the machine's state
    effects,        \* inventoryReserved, paymentAuthorized, shipmentCreated
    compensations,  \* registered compensations, in order of registration
    works,          \* compensations the second runner has still to run
    forward,        \* status of the forward report
    compensated,    \* the second result of execute
    partial,        \* a compensation has failed
    outcome         \* HTTP status, 0 before the answer

vars == <<pc, call, cancelled, history, effects, compensations, works, forward, compensated,
          partial, outcome>>

OrderStates == {"draft", "submitted", "paid", "packed", "shipped", "cancelled"}
Calls ==
    [valid : BOOLEAN, stock : BOOLEAN, payment : BOOLEAN, provider : BOOLEAN,
     force : BOOLEAN, voidFails : BOOLEAN, releaseFails : BOOLEAN]

TypeOK ==
    /\ pc \in {"fulfill", "submit", "reserve", "authorize", "pack", "ship", "execute",
               "compensate", "cancelOrder", "respond", "done"}
    /\ call \in Calls
    /\ cancelled \in BOOLEAN
    /\ history \in Seq(OrderStates)
    /\ effects \subseteq {"inventory", "payment", "shipment"}
    /\ compensations \in Seq({"inventory", "payment"})
    /\ works \in Seq({"inventory", "payment"})
    /\ forward \in {"none", "completed", "failed", "cancelled"}
    /\ compensated \in BOOLEAN
    /\ partial \in BOOLEAN
    /\ outcome \in {0, 200, 400, 408, 409}

\* newOrderRun: the transitions of the machine, [event, from, to].
Transitions ==
    {<<"submit", "draft", "submitted">>, <<"pay", "submitted", "paid">>,
     <<"pack", "paid", "packed">>, <<"ship", "packed", "shipped">>,
     <<"cancel", "draft", "cancelled">>, <<"cancel", "submitted", "cancelled">>,
     <<"cancel", "paid", "cancelled">>, <<"cancel", "packed", "cancelled">>}

State == history[Len(history)]
Targets(event) == {to \in OrderStates : <<event, State, to>> \in Transitions}

Init ==
    /\ pc = "fulfill"
    /\ call \in Calls
    /\ cancelled = FALSE
    /\ history = <<"draft">>
    /\ effects = {}
    /\ compensations = <<>>
    /\ works = <<>>
    /\ forward = "none"
    /\ compensated = FALSE
    /\ partial = FALSE
    /\ outcome = 0

\* The client leaves and net/http cancels the context of the request.
Cancel ==
    /\ ~cancelled
    /\ pc # "done"
    /\ cancelled' = TRUE
    /\ UNCHANGED <<pc, call, history, effects, compensations, works, forward, compensated,
                   partial, outcome>>

\* fulfill up to execute: a request that does not validate is answered with 400.
Fulfill ==
    /\ pc = "fulfill"
    /\ IF call.valid THEN pc' = "submit" /\ UNCHANGED outcome
                     ELSE pc' = "done" /\ outcome' = 400
    /\ UNCHANGED <<call, cancelled, history, effects, compensations, works, forward, compensated,
                   partial>>

\* The forward runner ends with the status of the work it stopped at.
ForwardEnds(status) ==
    /\ forward' = status
    /\ pc' = "execute"
    /\ UNCHANGED <<call, cancelled, compensations, works, compensated, partial, outcome>>

\* A work of the forward runner that does not complete.
StopsAt(work, status) ==
    /\ pc = work
    /\ ForwardEnds(status)
    /\ UNCHANGED <<history, effects>>

\* transition: a cancelled context makes it fail, like an event the state does not know.
TransitionFails(event) == cancelled \/ Targets(event) = {}
Transition(event) ==
    /\ ~cancelled
    /\ \E to \in Targets(event) : history' = Append(history, to)

GoOn(next) ==
    /\ pc' = next
    /\ UNCHANGED <<call, cancelled, works, forward, compensated, partial, outcome>>

Performs(effect) ==
    /\ effects' = effects \union {effect}
    /\ compensations' = Append(compensations, effect)

SubmitOrder ==
    \/ cancelled /\ StopsAt("submit", "cancelled")
    \/ TransitionFails("submit") /\ StopsAt("submit", "failed")
    \/ /\ pc = "submit"
       /\ Transition("submit")
       /\ GoOn("reserve")
       /\ UNCHANGED <<effects, compensations>>

ReserveInventory ==
    \/ cancelled /\ StopsAt("reserve", "cancelled")
    \/ ~cancelled /\ ~call.stock /\ StopsAt("reserve", "failed")
    \/ /\ pc = "reserve"
       /\ ~cancelled
       /\ call.stock
       /\ Performs("inventory")
       /\ GoOn("authorize")
       /\ UNCHANGED history

AuthorizePayment ==
    \/ cancelled /\ StopsAt("authorize", "cancelled")
    \/ (~call.payment \/ TransitionFails("pay")) /\ StopsAt("authorize", "failed")
    \/ /\ pc = "authorize"
       /\ call.payment
       /\ Transition("pay")
       /\ Performs("payment")
       /\ GoOn("pack")

\* packOrder; a forced invalid transition asks for "ship" too early.
PackEvent == IF call.force THEN "ship" ELSE "pack"
PackOrder ==
    \/ cancelled /\ StopsAt("pack", "cancelled")
    \/ TransitionFails(PackEvent) /\ StopsAt("pack", "failed")
    \/ /\ pc = "pack"
       /\ Transition(PackEvent)
       /\ GoOn("ship")
       /\ UNCHANGED <<effects, compensations>>

CreateShipment ==
    \/ cancelled /\ StopsAt("ship", "cancelled")
    \/ (~call.provider \/ TransitionFails("ship")) /\ StopsAt("ship", "failed")
    \/ /\ pc = "ship"
       /\ call.provider
       /\ Transition("ship")
       /\ effects' = effects \union {"shipment"}
       /\ ForwardEnds("completed")

\* execute between the two runners; reverseCompensations.
Execute ==
    /\ pc = "execute"
    /\ IF forward = "completed" \/ compensations = <<>>
       THEN pc' = "respond" /\ UNCHANGED <<works, compensated>>
       ELSE /\ pc' = "compensate"
            /\ works' = [i \in DOMAIN compensations |->
                            compensations[Len(compensations) + 1 - i]]
            /\ compensated' = TRUE
    /\ UNCHANGED <<call, cancelled, history, effects, compensations, forward, partial, outcome>>

\* A compensation either undoes its effect or fails; ContinueOnFailure goes on.  Its
\* context is never cancelled.
Compensates(effect, fails) ==
    /\ pc = "compensate"
    /\ works # <<>>
    /\ Head(works) = effect
    /\ effects' = IF fails THEN effects ELSE effects \ {effect}
    /\ partial' = (partial \/ fails)
    /\ works' = Tail(works)
    /\ UNCHANGED <<pc, call, cancelled, history, compensations, forward, compensated, outcome>>

VoidPayment == Compensates("payment", call.voidFails)
ReleaseInventory == Compensates("inventory", call.releaseFails)

CompensationEnds ==
    /\ pc = "compensate"
    /\ works = <<>>
    /\ pc' = "cancelOrder"
    /\ UNCHANGED <<call, cancelled, history, effects, compensations, works, forward, compensated,
                   partial, outcome>>

\* cancelOrder runs under the context without cancellation, too.
CancelOrder ==
    /\ pc = "cancelOrder"
    /\ pc' = "respond"
    /\ history' = IF State \in {"cancelled", "shipped"} \/ Targets("cancel") = {}
                  THEN history
                  ELSE Append(history, CHOOSE to \in Targets("cancel") : TRUE)
    /\ UNCHANGED <<call, cancelled, effects, compensations, works, forward, compensated, partial,
                   outcome>>

\* The status of the report that execute returns.
ReportStatus == IF forward = "failed" /\ partial THEN "partial" ELSE forward

\* fulfill after execute; statusForReport.
Respond ==
    /\ pc = "respond"
    /\ pc' = "done"
    /\ outcome' = CASE ReportStatus = "cancelled" -> 408
                    [] ReportStatus = "completed" -> 200
                    [] ReportStatus \in {"failed", "partial"} -> 409
    /\ UNCHANGED <<call, cancelled, history, effects, compensations, works, forward, compensated,
                   partial>>

Step ==
    \/ Fulfill
    \/ SubmitOrder
    \/ ReserveInventory
    \/ AuthorizePayment
    \/ PackOrder
    \/ CreateShipment
    \/ Execute
    \/ VoidPayment
    \/ ReleaseInventory
    \/ CompensationEnds
    \/ CancelOrder
    \/ Respond

Next == Step \/ Cancel

Spec == Init /\ [][Next]_vars

--------------------------------------------------------------------------------
\* The run as a saga.
Reversed(s) == [i \in 1 .. Len(s) |-> s[Len(s) + 1 - i]]
Phase ==
    CASE pc = "compensate" -> "compensating"
      [] pc \in {"cancelOrder", "respond", "done"} /\ compensated -> "compensated"
      [] pc \in {"respond", "done"} /\ ~compensated ->
            IF forward = "completed" THEN "completed" ELSE "failed"
      [] OTHER -> "forward"

Abstract == INSTANCE Saga WITH
    Effects <- {"inventory", "payment"},
    phase <- Phase,
    standing <- effects \ {"shipment"},
    stack <- IF compensated THEN Reversed(works) ELSE compensations,
    shipped <- "shipment" \in effects

\* The first state of a run is the first state of a saga, and each of its steps is one
\* of the saga or changes nothing a caller could see.
SagaInit == Abstract!Init
SagaStep == [Abstract!Next]_(Abstract!vars)

\* The lifecycle that a response shows agrees with the effects it shows: shipped with a
\* shipment and 200, cancelled after compensation, and still before the payment when
\* the run failed without an effect.
LifecycleMatchesEffects ==
    pc = "done" /\ outcome # 400 =>
        /\ State = "shipped" <=> "shipment" \in effects
        /\ State = "shipped" <=> outcome = 200
        /\ State = "cancelled" <=> compensated
        /\ ~compensated /\ outcome # 200 => effects = {} /\ State \in {"draft", "submitted"}
        /\ compensated /\ ~partial => effects = {}

================================================================================
