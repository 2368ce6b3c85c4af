---------------------------------- MODULE Saga ----------------------------------
(***************************************************************************)
(* What the fulfillment programs promise of one run: reversible effects    *)
(* are performed one after the other and lead to a shipment, or, if the    *)
(* run gives up, the compensation of every performed effect is tried once, *)
(* the latest effect first, and the run ends only after the last of them.  *)
(* A compensation that fails leaves its effect and does not stop the rest. *)
(***************************************************************************)
EXTENDS Sequences, Naturals

CONSTANT Effects   \* the reversible effects of a run

VARIABLES
    phase,      \* "forward", "compensating" or how the run ended
    standing,   \* effects that are performed and not undone
    stack,      \* effects whose compensation is due, the latest last
    shipped     \* the irreversible effect

vars == <<phase, standing, stack, shipped>>

Init ==
    /\ phase = "forward"
    /\ standing = {}
    /\ stack = <<>>
    /\ shipped = FALSE

Perform(e) ==
    /\ phase = "forward"
    /\ ~shipped
    /\ e \notin standing
    /\ standing' = standing \union {e}
    /\ stack' = Append(stack, e)
    /\ UNCHANGED <<phase, shipped>>

Ship ==
    /\ phase = "forward"
    /\ standing = Effects
    /\ ~shipped
    /\ shipped' = TRUE
    /\ UNCHANGED <<phase, standing, stack>>

Complete ==
    /\ phase = "forward"
    /\ shipped
    /\ phase' = "completed"
    /\ UNCHANGED <<standing, stack, shipped>>

Fail ==
    /\ phase = "forward"
    /\ ~shipped
    /\ stack = <<>>
    /\ phase' = "failed"
    /\ UNCHANGED <<standing, stack, shipped>>

GiveUp ==
    /\ phase = "forward"
    /\ ~shipped
    /\ stack # <<>>
    /\ phase' = "compensating"
    /\ UNCHANGED <<standing, stack, shipped>>

Undo ==
    /\ phase = "compensating"
    /\ stack # <<>>
    /\ stack' = SubSeq(stack, 1, Len(stack) - 1)
    /\ standing' \in {standing, standing \ {stack[Len(stack)]}}
    /\ UNCHANGED <<phase, shipped>>

Finish ==
    /\ phase = "compensating"
    /\ stack = <<>>
    /\ phase' = "compensated"
    /\ UNCHANGED <<standing, stack, shipped>>

Next ==
    \/ \E e \in Effects : Perform(e)
    \/ Ship
    \/ Complete
    \/ Fail
    \/ GiveUp
    \/ Undo
    \/ Finish

Spec == Init /\ [][Next]_vars

================================================================================
