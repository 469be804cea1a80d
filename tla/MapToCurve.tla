----------------------------- MODULE MapToCurve -----------------------------
(***************************************************************************)
(* h2c_tmpl.h: a field element to a point of the curve, once for E(Fp) and *)
(* once for the twist.  A curve compiles one of two maps: simplified SWU   *)
(* on an isogenous curve, followed by the isogeny, or Shallue-van de       *)
(* Woestijne on the curve itself.  Either computes every candidate and     *)
(* selects under a mask; inv0 sends zero to zero.                          *)
(***************************************************************************)
EXTENDS EcJacobian, Integers, Sequences, FiniteSetsExt

CONSTANTS F_sqrt(_), F_sgn0(_), F_exp(_, _),
          F_is_square(_),   \* for the reference only
          H2C_CN            \* the generated constants of this curve and group

-----------------------------------------------------------------------------
HalfTable(k) == H2C_CN.FIX[(k % 4) + 1]                         \* variant

gx(x, A, B) == F_add(F_add(F_mul(F_sqr(x), x), F_mul(A, x)), B)

(* The sign of the root is made that of u. *)
sgn_of(y, u) == IF F_sgn0(y) = F_sgn0(u) THEN y ELSE F_neg(y)

-----------------------------------------------------------------------------
(* One exponentiation for either root.  The index k of the eighth root of   *)
(* unity cand^2 / gx1 says which abscissa is right and what is missing; k   *)
(* is found by comparison with each power of zeta.                          *)
correction(k) == H2C_CN.FIX[k + 1]

sswu_root(gx1, u) ==
  LET cand == F_exp(gx1, H2C_CN.SQRT_EXP)
      ks   == {k \in 0 .. 7 : F_mul(gx1, H2C_CN.ZETA[k + 1]) = F_sqr(cand)}
      fix  == IF ks = {} THEN F_zero ELSE correction(Max(ks))
      even == \E k \in ks : k % 2 = 0
  IN [first |-> even,
      y |-> F_mul(F_mul(cand, fix), IF even THEN F_one ELSE F_mul(F_sqr(u), u))]

(* The other form, for a field without the table: both roots. *)
two_roots(gx1, gx2) ==
  LET y1 == F_sqrt(gx1)
  IN [first |-> y1.ok, y |-> IF y1.ok THEN y1.root ELSE F_sqrt(gx2).root]

(* The first abscissa, from t = (Z u^2)^2 + Z u^2. *)
sswu_x1(t) ==
  IF t = F_zero THEN H2C_CN.B_OVER_ZA
  ELSE F_mul(F_add(F_one, F_inv(t)), H2C_CN.MB_OVER_A)

map_sswu(u) ==
  LET zu2 == F_mul(F_sqr(u), H2C_CN.Z)
      x1  == sswu_x1(F_add(F_sqr(zu2), zu2))
      x2  == F_mul(zu2, x1)
      gx1 == gx(x1, H2C_CN.ISO_A, H2C_CN.ISO_B)
      r   == IF H2C_CN.SSWU_ONE_ROOT
             THEN sswu_root(gx1, u)
             ELSE two_roots(gx1, gx(x2, H2C_CN.ISO_A, H2C_CN.ISO_B))
  IN [x |-> IF r.first THEN x1 ELSE x2, y |-> sgn_of(r.y, u)]

(* A polynomial by its coefficients, the constant one first. *)
horner(tbl, x) ==
  LET acc[i \in 1 .. Len(tbl)] ==
        IF i = Len(tbl) THEN tbl[i] ELSE F_add(F_mul(acc[i + 1], x), tbl[i])
  IN acc[1]

x_den(x) == horner(H2C_CN.ISO_XDEN, x)

iso_map(P) ==
  [x |-> F_mul(horner(H2C_CN.ISO_XNUM, P.x), F_inv(x_den(P.x))),
   y |-> F_mul(F_mul(horner(H2C_CN.ISO_YNUM, P.x), P.y),
               F_inv(horner(H2C_CN.ISO_YDEN, P.x)))]

-----------------------------------------------------------------------------
(* Three candidates, of which one has a square g; the first that has is     *)
(* taken.                                                                   *)
chosen(e1, e2) == IF e1 THEN 1 ELSE IF e2 THEN 2 ELSE 3

map_svdw(u) ==
  LET c    == F_mul(F_sqr(u), H2C_CN.C1)
      plus == F_add(F_one, c)
      less == F_sub(F_one, c)
      inv  == F_inv(F_mul(less, plus))
      d    == F_mul(F_mul(F_mul(u, less), inv), H2C_CN.C3)
      x    == <<F_sub(H2C_CN.C2, d),
                F_add(H2C_CN.C2, d),
                F_add(F_mul(F_sqr(F_mul(F_sqr(plus), inv)), H2C_CN.C4), H2C_CN.Z)>>
      y    == [i \in 1 .. 3 |-> F_sqrt(gx(x[i], F_zero, curve_b))]
      i    == chosen(y[1].ok, y[2].ok)
  IN [x |-> x[i], y |-> sgn_of(y[i].root, u)]

-----------------------------------------------------------------------------
map_to_curve(u) ==
  LET P == IF H2C_CN.SSWU THEN iso_map(map_sswu(u)) ELSE map_svdw(u)
  IN from_affine(P.x, P.y)

-----------------------------------------------------------------------------
(***************************************************************************)
(* RFC 9380, 6.6.1 and 6.6.2, as relations between an input and a point of *)
(* the curve a map runs on: what the maps above are compared with.  There  *)
(* is no root here, and a square is recognised by F_is_square.             *)
(***************************************************************************)
SignOf(y, u) == y = F_zero \/ F_sgn0(y) = F_sgn0(u)

(* x1 solves A (w^2 + w) x1 = -B (w^2 + w + 1) for w = Z u^2, or            *)
(* Z A x1 = B where w^2 + w vanishes.                                       *)
IsX1(x, w) ==
  LET t == F_add(F_sqr(w), w)
  IN IF t = F_zero
     THEN F_mul(F_mul(H2C_CN.Z, H2C_CN.ISO_A), x) = H2C_CN.ISO_B
     ELSE F_mul(F_mul(H2C_CN.ISO_A, t), x)
          = F_neg(F_mul(H2C_CN.ISO_B, F_add(t, F_one)))

(* Above x1 if there is a point there, otherwise above w x1. *)
IsSswuOf(P, u) ==
  LET w    == F_mul(H2C_CN.Z, F_sqr(u))
      g(x) == gx(x, H2C_CN.ISO_A, H2C_CN.ISO_B)
      x1   == F_mul(P.x, F_inv(w))
  IN /\ F_sqr(P.y) = g(P.x)
     /\ SignOf(P.y, u)
     /\ \/ IsX1(P.x, w)
        \/ IsX1(x1, w) /\ ~F_is_square(g(x1))

(* The first of three abscissas with a point above it. *)
IsSvdwOf(P, u) ==
  LET c    == F_mul(F_sqr(u), H2C_CN.C1)
      plus == F_add(F_one, c)
      less == F_sub(F_one, c)
      d    == IF less = F_zero THEN F_zero
              ELSE F_mul(F_mul(u, H2C_CN.C3), F_inv(plus))
      g(x) == gx(x, F_zero, curve_b)
      x1   == F_sub(H2C_CN.C2, d)
      x2   == F_add(H2C_CN.C2, d)
      IsX3(x) == IF less = F_zero THEN x = H2C_CN.Z
                 ELSE F_mul(F_sub(x, H2C_CN.Z), F_sqr(less))
                      = F_mul(H2C_CN.C4, F_sqr(plus))
  IN /\ F_sqr(P.y) = g(P.x)
     /\ SignOf(P.y, u)
     /\ IF F_is_square(g(x1)) THEN P.x = x1
        ELSE IF F_is_square(g(x2)) THEN P.x = x2
        ELSE IsX3(P.x)

IsMapOf(u) ==
  IF H2C_CN.SSWU THEN IsSswuOf(map_sswu(u), u) ELSE IsSvdwOf(map_svdw(u), u)
=============================================================================
