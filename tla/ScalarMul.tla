------------------------------ MODULE ScalarMul ------------------------------
(***************************************************************************)
(* The abstract specification of a scalar multiplication: [scalar]P, with  *)
(* P the generator 1 of a cyclic group of the given order.                 *)
(***************************************************************************)
EXTENDS Integers

VARIABLES phase, scalar, order, acc

vars == <<phase, scalar, order, acc>>

Init == phase = "idle" /\ scalar = 0 /\ acc = 0 /\ order \in Nat \ {0}

Invoke == /\ phase = "idle" /\ phase' = "busy"
          /\ scalar' \in Nat /\ UNCHANGED order

(* Partial results never leave the routine.                                *)
Compute == phase = "busy" /\ phase' = "busy" /\ UNCHANGED <<scalar, order>>

Deliver == /\ phase = "busy" /\ phase' = "done"
           /\ acc' = scalar % order
           /\ UNCHANGED <<scalar, order>>

Collect == /\ phase = "done" /\ phase' = "idle"
           /\ scalar' = 0 /\ acc' = 0 /\ UNCHANGED order

Next == Invoke \/ Compute \/ Deliver \/ Collect

(* A multiplication ends.                                                  *)
Ends == phase = "busy" /\ phase' = "done"

Spec == Init /\ [][Next]_vars /\ WF_phase(Ends)
=============================================================================
