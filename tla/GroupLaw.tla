------------------------------ MODULE GroupLaw ------------------------------
(***************************************************************************)
(* Points in Jacobian coordinates: registers of points, written by the     *)
(* routines of ec_jacobian.h and ec_tmpl.h in any order, the result in any *)
(* register, an operand's own included.  Every representative the routines *)
(* can produce from the affine inputs is reached, with every form of the   *)
(* identity.  Like the template, it is instantiated for E(Fp) and for the  *)
(* twist.                                                                  *)
(***************************************************************************)
EXTENDS EcJacobian

CONSTANTS Inputs,           \* the affine points the registers are loaded with
          Registers

VARIABLE reg

(* The group element a register stands for, as to_affine reports it. *)
Affine(P) == LET a == to_affine(P) IN IF a.ok THEN <<a.x, a.y>> ELSE affine_identity

-----------------------------------------------------------------------------
Init == reg = [r \in Registers |-> set_infinity]

Add(r, i, j) == reg' = [reg EXCEPT ![r] = add(reg[i], reg[j])]
Dbl(r, i) == reg' = [reg EXCEPT ![r] = dbl(reg[i])]
Neg(r, i) == reg' = [reg EXCEPT ![r] = neg(reg[i])]
SetInfinity(r) == reg' = [reg EXCEPT ![r] = set_infinity]
FromAffine(r) ==
  \E P \in Inputs : reg' = [reg EXCEPT ![r] = from_affine(P[1], P[2])]

Next ==
  \E r, i \in Registers :
    \/ \E j \in Registers : Add(r, i, j)
    \/ Dbl(r, i)
    \/ Neg(r, i)
    \/ SetInfinity(r)
    \/ FromAffine(r)

Spec == Init /\ [][Next]_reg

-----------------------------------------------------------------------------
(***************************************************************************)
(* The formulas carry no completeness theorem: doubling, opposite points   *)
(* and infinite inputs are handled by selecting between two candidates.    *)
(* For every pair of representatives that calls can produce, the selected  *)
(* one is the sum by chord and tangent.                                    *)
(***************************************************************************)
AddIsTheGroupLaw ==
  \A i, j \in Registers :
    Affine(add(reg[i], reg[j])) = affine_plus(Affine(reg[i]), Affine(reg[j]))

(***************************************************************************)
(* The doubling has no case at all; it is the doubling of the group for    *)
(* every representative, a point of order two and the identity included.   *)
(***************************************************************************)
DblIsTheGroupLaw ==
  \A i \in Registers :
    Affine(dbl(reg[i])) = affine_plus(Affine(reg[i]), Affine(reg[i]))

(***************************************************************************)
(* The comparison eq cross-multiplies and never asks whether a point is    *)
(* the identity.  It is equality of group elements all the same, between   *)
(* any two results: what makes it so is that an identity never comes out   *)
(* as (0 : 0 : 0), a triple that eq would call equal to everything.  The   *)
(* subgroup tests decide by this comparison.                               *)
(***************************************************************************)
EqIsExact ==
  \A i, j \in Registers :
    eq(reg[i], reg[j]) <=> Affine(reg[i]) = Affine(reg[j])

(* Sum, double and comparison are the group's.                             *)
FormulasAreTheGroupLaw == AddIsTheGroupLaw /\ DblIsTheGroupLaw /\ EqIsExact
=============================================================================
