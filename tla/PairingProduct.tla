--------------------------- MODULE PairingProduct ----------------------------
(***************************************************************************)
(* The abstract specification of the pairing entry points: every pair is   *)
(* validated before anything is computed, and an accepted call returns the *)
(* product of the pairings of all its pairs, whatever their number.        *)
(***************************************************************************)
EXTENDS MillerLines

VARIABLES phase, build, call, rc, out

vars == <<phase, build, call, rc, out>>

Good(point) == point \notin {"infinity", "off_subgroup"}
Pairs(c) == DOMAIN c.ps
Accepted(c) == \A j \in Pairs(c) : Good(c.ps[j]) /\ Good(c.qs[j])

(* The final exponentiation is a homomorphism onto G_T: an element of G_T  *)
(* is named by the Miller value it is the image of.                        *)
pairing_final_exp(f) == [image |-> f]
GTOne == pairing_final_exp(one)

Product(b, c) ==
  pairing_final_exp(
    FoldLeft(LAMBDA f, j : fp12_mul(f, MillerValue(b, c.ps[j], c.qs[j])),
             one, [j \in Pairs(c) |-> j]))

NoCall == [op |-> "none"]

Init == /\ phase = "idle" /\ call = NoCall /\ rc = 0 /\ out = GTOne
        /\ build.bn \in BOOLEAN

Invoke == /\ phase = "idle" /\ phase' = "busy"
          /\ call'.op \in {"multi", "prec"}
          /\ rc' = 0 /\ out' = GTOne
          /\ UNCHANGED build

Refuse == /\ phase = "busy" /\ phase' = "done"
          /\ ~Accepted(call)
          /\ rc' = 0 /\ out' = GTOne
          /\ UNCHANGED <<build, call>>

Accept == /\ phase = "busy" /\ phase' = "done"
          /\ Accepted(call)
          /\ rc' = 1 /\ out' = Product(build, call)
          /\ UNCHANGED <<build, call>>

Collect == /\ phase = "done" /\ phase' = "idle"
           /\ call' = NoCall /\ rc' = 0 /\ out' = GTOne
           /\ UNCHANGED build

Next == Invoke \/ Refuse \/ Accept \/ Collect

(* Every call returns.                                                     *)
Returns == phase = "busy" /\ phase' = "done"

Spec == Init /\ [][Next]_vars /\ WF_phase(Returns)
=============================================================================
