----------------------------- MODULE EcJacobian -----------------------------
(***************************************************************************)
(* ec_jacobian.h and the point routines of ec_tmpl.h: a template over the  *)
(* field, as in the source, where EC_F is fp for E(Fp) and fp2 for the     *)
(* twist.  A point is [x, y, z] with affine coordinates (x/z^2, y/z^3),    *)
(* and every triple with z = 0 is the identity.                            *)
(*                                                                         *)
(* The formulas are not complete: add computes the addition and the        *)
(* doubling side by side and selects between them, then selects away an    *)
(* input at infinity, and r is written once, at the end.                   *)
(***************************************************************************)
EXTENDS Naturals

CONSTANTS F_add(_, _), F_sub(_, _), F_mul(_, _), F_sqr(_), F_neg(_), F_inv(_),
          F_zero, F_one,
          curve_b           \* y^2 = x^3 + b

LOCAL twice(a) == F_add(a, a)

(* Variants of the code, for comparison. *)
EqualAbscissas(h, rr) == h = F_zero

point(x, y, z) == [x |-> x, y |-> y, z |-> z]

set_infinity == point(F_zero, F_one, F_zero)
is_infinity(P) == P.z = F_zero
from_affine(x, y) == point(x, y, F_one)
neg(P) == [P EXCEPT !.y = F_neg(@)]

(* Which candidate is taken: both differences vanish exactly when the two   *)
(* operands are the same point.                                             *)
is_dbl(h, rr) == h = F_zero /\ rr = F_zero

add(P, Q) ==
  LET z1z1 == F_sqr(P.z)
      z2z2 == F_sqr(Q.z)
      u1_  == F_mul(P.x, z2z2)
      u2   == F_mul(Q.x, z1z1)
      s1_  == F_mul(F_mul(P.y, Q.z), z2z2)
      s2   == F_mul(F_mul(Q.y, P.z), z1z1)
      h_   == F_sub(u2, u1_)
      rr_  == F_sub(s2, s1_)
      dbling == is_dbl(h_, rr_)
      h    == IF dbling THEN twice(P.y) ELSE h_
      rr   == IF dbling THEN F_add(twice(F_sqr(P.x)), F_sqr(P.x)) ELSE rr_
      sx   == IF dbling THEN twice(P.x) ELSE F_add(u1_, u2)
      u1   == IF dbling THEN P.x ELSE u1_
      s1   == IF dbling THEN P.y ELSE s1_
      zz   == IF dbling THEN P.z ELSE F_mul(P.z, Q.z)
      hh   == F_sqr(h)
      x3   == F_sub(F_sqr(rr), F_mul(hh, sx))
      y3   == F_sub(F_mul(F_sub(F_mul(hh, u1), x3), rr), F_mul(F_mul(hh, h), s1))
  IN IF is_infinity(P) THEN Q
     ELSE IF is_infinity(Q) THEN P
     ELSE point(x3, y3, F_mul(zz, h))

(* dbl-2009-l for a = 0, without any case. *)
dbl(P) ==
  LET a  == F_sqr(P.x)
      b  == F_sqr(P.y)
      c  == F_sqr(b)
      d  == twice(F_sub(F_sub(F_sqr(F_add(P.x, b)), a), c))
      e  == F_add(twice(a), a)
      x3 == F_sub(F_sub(F_sqr(e), d), d)
      y3 == F_sub(F_mul(F_sub(d, x3), e), twice(twice(twice(c))))
  IN point(x3, y3, twice(F_mul(P.y, P.z)))

(* ok is FALSE, and the coordinates zero, at the identity. *)
to_affine(P) ==
  LET zi  == F_inv(P.z)
      zi2 == F_sqr(zi)
  IN IF is_infinity(P)
     THEN [ok |-> FALSE, x |-> F_zero, y |-> F_zero]
     ELSE [ok |-> TRUE, x |-> F_mul(P.x, zi2), y |-> F_mul(P.y, F_mul(zi2, zi))]

on_curve(P) ==
  LET z2 == F_sqr(P.z)
      z6 == F_mul(F_sqr(z2), z2)
  IN \/ is_infinity(P)
     \/ F_sqr(P.y) = F_add(F_mul(F_sqr(P.x), P.x), F_mul(z6, curve_b))

(* Cross-multiplied: no inversion, and no test of the identity either. *)
eq(P, Q) ==
  LET pz2 == F_sqr(P.z)
      qz2 == F_sqr(Q.z)
  IN /\ F_mul(P.x, qz2) = F_mul(Q.x, pz2)
     /\ F_mul(P.y, F_mul(qz2, Q.z)) = F_mul(Q.y, F_mul(pz2, P.z))

-----------------------------------------------------------------------------
(* The digit of the non-adjacent form at the low end of k: an odd k is      *)
(* rounded to the multiple of four next to it.                              *)
naf_digit(k) == IF k % 2 = 0 THEN 0 ELSE IF k % 4 = 1 THEN 1 ELSE 2

(* [k]P for a constant of the curve, most significant digit first: one      *)
(* doubling for every digit, and P or -P added where the digit is not zero. *)
mul_pubconst(P, k) ==
  LET rest(j) == IF naf_digit(j) = 2 THEN (j + 1) \div 2 ELSE j \div 2
      acc[j \in 0 .. k] ==
        CASE j = 0 -> set_infinity
          [] j = 1 -> P
          [] j > 1 /\ naf_digit(j) = 0 -> dbl(acc[rest(j)])
          [] j > 1 /\ naf_digit(j) = 1 -> add(dbl(acc[rest(j)]), P)
          [] j > 1 /\ naf_digit(j) = 2 -> add(dbl(acc[rest(j)]), neg(P))
  IN acc[k]

(* [k]P for any k and any point of the curve, by doubling and adding: the   *)
(* module Ladders has the windows of mul and shows that they compute it.    *)
mul(P, k) ==
  LET acc[j \in 0 .. k] ==
        IF j = 0 THEN set_infinity
        ELSE LET half == acc[j \div 2]
             IN IF is_infinity(half) THEN IF j % 2 = 1 THEN P ELSE half
                ELSE IF j % 2 = 1 THEN add(dbl(half), P) ELSE dbl(half)
  IN acc[k]

-----------------------------------------------------------------------------
(* The reference for the uniform formulas: the group law by chord and       *)
(* tangent in affine coordinates, with its cases spelled out.  The identity *)
(* is the empty tuple.                                                      *)
affine_identity == << >>

affine_neg(P) == IF P = affine_identity THEN P ELSE <<P[1], F_neg(P[2])>>

affine_slope(P, Q) ==
  IF P = Q
  THEN LET xx == F_mul(P[1], P[1])
       IN F_mul(F_add(F_add(xx, xx), xx), F_inv(F_add(P[2], P[2])))
  ELSE F_mul(F_sub(Q[2], P[2]), F_inv(F_sub(Q[1], P[1])))

affine_plus(P, Q) ==
  LET lam == affine_slope(P, Q)
      x3  == F_sub(F_sub(F_mul(lam, lam), P[1]), Q[1])
  IN IF P = affine_identity THEN Q
     ELSE IF Q = affine_identity THEN P
     ELSE IF P = affine_neg(Q) THEN affine_identity
     ELSE <<x3, F_sub(F_mul(lam, F_sub(P[1], x3)), P[2])>>
=============================================================================
