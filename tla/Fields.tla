------------------------------- MODULE Fields -------------------------------
(***************************************************************************)
(* The prime field of fp.c and the quadratic extension of fpx.c, as        *)
(* operators on canonical residues.  A Montgomery image is identified with *)
(* the residue it stands for: what is kept is the single conditional       *)
(* correction of each addition, the square-and-multiply exponents of the   *)
(* roots, and the choices a root makes.  An element of Fp2 = Fp[u],        *)
(* u^2 = -1, is the pair <<a0, a1>> that the source stores.                *)
(***************************************************************************)
EXTENDS Naturals

CONSTANT FP_MODULUS     \* the prime p

(* Every root below assumes it, and fp_sqrt refuses to run without it. *)
ASSUME ModulusIs3Mod4 == FP_MODULUS \in Nat /\ FP_MODULUS % 4 = 3

Fp == 0 .. FP_MODULUS - 1

-----------------------------------------------------------------------------
fp_add(a, b) == LET t == a + b IN IF t >= FP_MODULUS THEN t - FP_MODULUS ELSE t
fp_sub(a, b) == IF a < b THEN a + FP_MODULUS - b ELSE a - b
fp_neg(a) == fp_sub(0, a)
fp_mul(a, b) == (a * b) % FP_MODULUS

(* The bits of e from the top: the recursion squares once for every bit and *)
(* multiplies where the bit is set.                                         *)
fp_exp(a, e) ==
  LET acc[k \in 0 .. e] ==
        IF k = 0 THEN 1
        ELSE LET h  == acc[k \div 2]
                 sq == fp_mul(h, h)
             IN IF k % 2 = 1 THEN fp_mul(sq, a) ELSE sq
  IN acc[e]

(* Zero has no inverse and is sent to zero. *)
fp_inv(a) == fp_exp(a, FP_MODULUS - 2)

(* The three exponents are right shifts of p or of p + 1. *)
sqrt_e_truncated == FP_MODULUS \div 4                          \* variant
sqrt_e    == (FP_MODULUS + 1) \div 4
half_e    == FP_MODULUS \div 2
quarter_e == FP_MODULUS \div 4

fp_sqrt(a) ==
  LET c == fp_exp(a, sqrt_e)
      ok == fp_mul(c, c) = a
  IN [ok |-> ok, root |-> IF ok THEN c ELSE 0]

fp_is_lex_largest(a) == half_e < a
fp_sgn0(a) == a % 2

-----------------------------------------------------------------------------
fp2_zero == <<0, 0>>
fp2_one  == <<1, 0>>

fp2_add(a, b) == <<fp_add(a[1], b[1]), fp_add(a[2], b[2])>>
fp2_sub(a, b) == <<fp_sub(a[1], b[1]), fp_sub(a[2], b[2])>>
fp2_neg(a) == <<fp_neg(a[1]), fp_neg(a[2])>>
fp2_conj(a) == <<a[1], fp_neg(a[2])>>

(* Three products rather than four. *)
fp2_mul(a, b) ==
  LET t0 == fp_mul(a[1], b[1])
      t1 == fp_mul(a[2], b[2])
      s  == fp_mul(fp_add(a[1], a[2]), fp_add(b[1], b[2]))
  IN <<fp_sub(t0, t1), fp_sub(fp_sub(s, t0), t1)>>

fp2_sqr(a) ==
  LET m == fp_mul(a[1], a[2])
  IN <<fp_mul(fp_add(a[1], a[2]), fp_sub(a[1], a[2])), fp_add(m, m)>>

fp2_mul_u(a) == <<fp_neg(a[2]), a[1]>>

norm(a) == fp_add(fp_mul(a[1], a[1]), fp_mul(a[2], a[2]))

fp2_inv(a) ==
  LET n == fp_inv(norm(a))
  IN <<fp_mul(a[1], n), fp_neg(fp_mul(a[2], n))>>

(* A power, whatever the ladder: the module Ladders has the windows of      *)
(* fp2_exp and shows that they compute it.                                  *)
fp2_exp(a, e) ==
  LET acc[k \in 0 .. e] ==
        IF k = 0 THEN fp2_one
        ELSE LET h  == acc[k \div 2]
                 sq == fp2_sqr(h)
             IN IF k % 2 = 1 THEN fp2_mul(sq, a) ELSE sq
  IN acc[e]

(* Both candidates are computed and one is selected; the verdict is that    *)
(* the candidate squares to a, not a test of the norm.                      *)
fp2_sqrt(a) ==
  LET a1    == fp2_exp(a, quarter_e)
      alpha == fp2_mul(fp2_sqr(a1), a)
      x0    == fp2_mul(a1, a)
      root  == IF alpha = fp2_neg(fp2_one)
               THEN fp2_mul_u(x0)
               ELSE fp2_mul(fp2_exp(fp2_add(fp2_one, alpha), half_e), x0)
      ok    == fp2_sqr(root) = a
  IN [ok |-> ok, root |-> IF ok THEN root ELSE fp2_zero]

(* The imaginary part decides, the real part only where it is zero. *)
fp2_is_lex_largest(a) ==
  fp_is_lex_largest(a[2]) \/ (a[2] = 0 /\ fp_is_lex_largest(a[1]))

fp2_sgn0(a) == IF fp_sgn0(a[1]) = 1 \/ (a[1] = 0 /\ fp_sgn0(a[2]) = 1) THEN 1 ELSE 0

fp2_is_square(a) == fp_sqrt(norm(a)).ok \/ norm(a) = 0
=============================================================================
