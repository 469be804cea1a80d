---------------------------- MODULE HashToCurve -----------------------------
(***************************************************************************)
(* hash_to_curve.c: elips_hash_to_g1, elips_encode_to_g1 and their twins   *)
(* on the twist.  hash_to_field is a random function: any field elements.  *)
(* Each is mapped to the curve, two are added, and the cofactor is cleared *)
(* into the caller's point, by a multiplication or, on the twist, by a     *)
(* chain of endomorphisms that differs between the families.               *)
(***************************************************************************)
EXTENDS Integers, Sequences

CONSTANT Curves             \* what each build generates for its curve

VARIABLES build, pc, g, u, q, out, rc
vars == <<build, pc, g, u, q, out, rc>>

(***************************************************************************)
(* The fields of Curve: FP_MODULUS; FAMILY; EP_B, EP2_B; PSI_X, PSI_Y;     *)
(* H2C_G1, H2C_G2, the constants of the two maps; ELIPS_H2C_G2_FAST_CLEAR, *)
(* whether the interleaved chain is compiled, and its multipliers          *)
(* H2C_G2_CLEAR = [A, A_NEG, B, B_NEG]; ELIPS_6XSQ; and, for each group,   *)
(* H2C_HEFF, a Generator, its Order, and FieldElements, the sequences      *)
(* that a message is hashed to.                                            *)
(***************************************************************************)
Curve == Curves[build]

INSTANCE Fields WITH FP_MODULUS <- Curve.FP_MODULUS

fp_sqr(a) == fp_mul(a, a)

FpIsSquare(a) == fp_exp(a, half_e) \in {0, 1}   \* Euler's criterion

M1 == INSTANCE MapToCurve
        WITH F_add <- fp_add, F_sub <- fp_sub, F_mul <- fp_mul, F_sqr <- fp_sqr,
             F_neg <- fp_neg, F_inv <- fp_inv, F_zero <- 0, F_one <- 1,
             curve_b <- Curve.EP_B, F_sqrt <- fp_sqrt, F_sgn0 <- fp_sgn0,
             F_exp <- fp_exp, H2C_CN <- Curve.H2C_G1, F_is_square <- FpIsSquare

M2 == INSTANCE MapToCurve
        WITH F_add <- fp2_add, F_sub <- fp2_sub, F_mul <- fp2_mul,
             F_sqr <- fp2_sqr, F_neg <- fp2_neg, F_inv <- fp2_inv,
             F_zero <- fp2_zero, F_one <- fp2_one, curve_b <- Curve.EP2_B,
             F_sqrt <- fp2_sqrt, F_sgn0 <- fp2_sgn0, F_exp <- fp2_exp,
             H2C_CN <- Curve.H2C_G2, F_is_square <- fp2_is_square

NoConjugate(P) ==                                               \* variant
  [x |-> fp2_mul(P.x, Curve.PSI_X), y |-> fp2_mul(P.y, Curve.PSI_Y), z |-> P.z]

ep2_psi(P) == [x |-> fp2_mul(fp2_conj(P.x), Curve.PSI_X),
               y |-> fp2_mul(fp2_conj(P.y), Curve.PSI_Y),
               z |-> fp2_conj(P.z)]

ep2_mul2(P0, k0, P1, k1) == M2!add(M2!mul(P0, k0), M2!mul(P1, k1))

-----------------------------------------------------------------------------
(* A negative multiplier is applied to the point. *)
signed(P, negative) == IF negative THEN M2!neg(P) ELSE P

(* [A]Q + [B]psi(Q) + psi^2([2]Q) *)
clear_bls12(Q) ==
  LET K == Curve.H2C_G2_CLEAR
  IN M2!add(ep2_mul2(signed(Q, K.A_NEG), K.A, signed(ep2_psi(Q), K.B_NEG), K.B),
            ep2_psi(ep2_psi(M2!dbl(Q))))

(* [6x^2](Q + psi(Q)) + psi(Q) - psi^2(Q) *)
clear_bn(Q) ==
  LET pq  == ep2_psi(Q)
      ppq == M2!neg(ep2_psi(pq))
  IN M2!add(M2!add(M2!mul(M2!add(Q, pq), Curve.ELIPS_6XSQ), pq), ppq)

clear_cofactor_g2(Q) ==
  IF Curve.ELIPS_H2C_G2_FAST_CLEAR THEN clear_bls12(Q)
  ELSE IF Curve.FAMILY = "BN" THEN clear_bn(Q)
  ELSE M2!mul(Q, Curve.H2C_HEFF["E2"])

-----------------------------------------------------------------------------
infinity == IF g = "E1" THEN M1!set_infinity ELSE M2!set_infinity

(* A call with a tag: one field element for encode_to, two for hash_to.  The *)
(* elements come from hash_to_field.                                        *)
Call == /\ pc = "call"
        /\ u' \in Curve.FieldElements[g]
        /\ out' = infinity
        /\ pc' = "map"
        /\ UNCHANGED <<build, g, q, rc>>

(* An empty tag is refused once the output is the identity. *)
CallWithoutTag == /\ pc = "call"
                  /\ out' = infinity
                  /\ rc' = -1
                  /\ pc' = "done"
                  /\ UNCHANGED <<build, g, u, q>>

Map == /\ pc = "map"
       /\ q' = [i \in DOMAIN u |-> IF g = "E1" THEN M1!map_to_curve(u[i])
                                              ELSE M2!map_to_curve(u[i])]
       /\ pc' = "clear"
       /\ UNCHANGED <<build, g, u, out, rc>>

Sum1 == IF Len(q) = 1 THEN q[1] ELSE M1!add(q[1], q[2])
Sum2 == IF Len(q) = 1 THEN q[1] ELSE M2!add(q[1], q[2])

ClearG1 == /\ pc = "clear" /\ g = "E1"
           /\ out' = M1!mul(Sum1, Curve.H2C_HEFF["E1"])
           /\ pc' = "done"
           /\ UNCHANGED <<build, g, u, q, rc>>

ClearG2 == /\ pc = "clear" /\ g = "E2"
           /\ out' = clear_cofactor_g2(Sum2)
           /\ pc' = "done"
           /\ UNCHANGED <<build, g, u, q, rc>>

(* The caller's point holds anything before the call. *)
Init == /\ build \in DOMAIN Curves
        /\ pc = "call" /\ g \in DOMAIN Curve.Generator
        /\ u = << >> /\ q = << >> /\ rc = 0
        /\ out = LET G == Curve.Generator[g]
                IN IF g = "E1" THEN M1!from_affine(G[1], G[2])
                               ELSE M2!from_affine(G[1], G[2])

Next == Call \/ CallWithoutTag \/ Map \/ ClearG1 \/ ClearG2

Spec == Init /\ [][Next]_vars

-----------------------------------------------------------------------------
(***************************************************************************)
(* Every element of the field is mapped to the point the specification     *)
(* names, exceptional inputs included.  A wrong choice of abscissa or sign *)
(* would still be a point of the curve, and still verify against itself.   *)
(***************************************************************************)
MapIsTheStandard ==
  \A i \in DOMAIN u : IF g = "E1" THEN M1!IsMapOf(u[i]) ELSE M2!IsMapOf(u[i])

(***************************************************************************)
(* A pole of the isogeny: the map's curve has a point of its kernel there, *)
(* and no point of E is its image.                                         *)
(***************************************************************************)
AtAPole(a) ==
  IF g = "E1"
  THEN Curve.H2C_G1.SSWU /\ M1!x_den(M1!map_sswu(a).x) = 0
  ELSE Curve.H2C_G2.SSWU /\ M2!x_den(M2!map_sswu(a).x) = fp2_zero

NoPole == \A i \in DOMAIN u : ~AtAPole(u[i])

(***************************************************************************)
(* Where there is no pole, the map gives a point of the curve and not the  *)
(* identity: the addition and the ladders that follow do not check it.     *)
(***************************************************************************)
MapsOntoTheCurve ==
  \A i \in DOMAIN q : ~AtAPole(u[i]) =>
    IF g = "E1" THEN M1!on_curve(q[i]) /\ ~M1!is_infinity(q[i])
                ELSE M2!on_curve(q[i]) /\ ~M2!is_infinity(q[i])

(* The points that r annihilates: r divides the order of E, and of the     *)
(* twist, once.                                                            *)
IsInTheGroup(P) ==
  IF g = "E1"
  THEN \/ M1!is_infinity(P)
       \/ M1!on_curve(P) /\ M1!is_infinity(M1!mul(P, Curve.Order))
  ELSE \/ M2!is_infinity(P)
       \/ M2!on_curve(P) /\ M2!is_infinity(M2!mul(P, Curve.Order))

(***************************************************************************)
(* A point of the group of order r comes out of every call that meets no   *)
(* pole, for opposite and equal mapped points too; the identity on a       *)
(* refusal.                                                                *)
(***************************************************************************)
HashesIntoTheGroup ==
  pc = "done" => /\ NoPole => IsInTheGroup(out)
                 /\ rc # 0 => out = infinity

(***************************************************************************)
(* hash_to_curve.h:4 promises the same of every string.                    *)
(***************************************************************************)
EveryHashIsInTheGroup == pc = "done" => IsInTheGroup(out)

(***************************************************************************)
(* The chain of endomorphisms computes the multiple that defines the hash, *)
(* on the whole twist and not only on the subgroup, where weaker relations *)
(* hold.                                                                   *)
(***************************************************************************)
ClearsByTheCofactor ==
  pc = "done" /\ q # << >> =>
    IF g = "E1" THEN M1!eq(out, M1!mul(Sum1, Curve.H2C_HEFF["E1"]))
                ELSE M2!eq(out, M2!mul(Sum2, Curve.H2C_HEFF["E2"]))

(* The map, and the hash made of it, are the standard's.                   *)
MapIsExact == MapIsTheStandard /\ MapsOntoTheCurve

(* What comes out of a call is the group's point that the cofactor makes.  *)
HashIsExact == HashesIntoTheGroup /\ ClearsByTheCofactor
=============================================================================
