-------------------------------- MODULE Tower --------------------------------
(***************************************************************************)
(* The extension tower of fpx.c above Fp2: Fp6 = Fp2[v]/(v^3 - xi) and     *)
(* Fp12 = Fp6[w]/(w^2 - v), with xi = 1 + u.  An element is nested as it   *)
(* is stored, <<a[0], a[1], a[2]>> and <<a[0], a[1]>>.  The lazily reduced *)
(* kernels compute the same products with fewer reductions and are the     *)
(* same operators here.                                                    *)
(***************************************************************************)
EXTENDS Fields, Integers, Sequences, TLC

CONSTANTS
  FROB,                   \* FROB[k][i] = xi^(i (p^k - 1) / 6), i in 1 .. 5
  KARABINA_MIN_RUN        \* ELIPS_KARABINA_MIN_RUN

-----------------------------------------------------------------------------
fp2_mul_xi(a) == <<fp_sub(a[1], a[2]), fp_add(a[1], a[2])>>
fp2_mul_fp(a, b) == <<fp_mul(a[1], b), fp_mul(a[2], b)>>
twice(a) == fp2_add(a, a)
thrice(a) == fp2_add(twice(a), a)

fp6_zero == <<fp2_zero, fp2_zero, fp2_zero>>
fp6_one == <<fp2_one, fp2_zero, fp2_zero>>
fp6_add(a, b) ==
  <<fp2_add(a[1], b[1]), fp2_add(a[2], b[2]), fp2_add(a[3], b[3])>>
fp6_sub(a, b) ==
  <<fp2_sub(a[1], b[1]), fp2_sub(a[2], b[2]), fp2_sub(a[3], b[3])>>
fp6_neg(a) == <<fp2_neg(a[1]), fp2_neg(a[2]), fp2_neg(a[3])>>
fp6_mul_v(a) == <<fp2_mul_xi(a[3]), a[1], a[2]>>

(* A cross product x1 y2 + x2 y1 from the product of the sums. *)
cross(x1, x2, y1, y2, t1, t2) ==
  fp2_sub(fp2_sub(fp2_mul(fp2_add(x1, x2), fp2_add(y1, y2)), t1), t2)

fp6_mul(a, b) ==
  LET t0 == fp2_mul(a[1], b[1])
      t1 == fp2_mul(a[2], b[2])
      t2 == fp2_mul(a[3], b[3])
  IN <<fp2_add(fp2_mul_xi(cross(a[2], a[3], b[2], b[3], t1, t2)), t0),
       fp2_add(cross(a[1], a[2], b[1], b[2], t0, t1), fp2_mul_xi(t2)),
       fp2_add(cross(a[1], a[3], b[1], b[3], t0, t2), t1)>>

(* The doubled cross products come from squarings: 2ab = (a+b)^2 - a^2 - b^2. *)
doubled(x1, x2, s1, s2) == fp2_sub(fp2_sub(fp2_sqr(fp2_add(x1, x2)), s1), s2)

fp6_sqr(a) ==
  LET s0 == fp2_sqr(a[1])
      s1 == fp2_sqr(a[2])
      s2 == fp2_sqr(a[3])
  IN <<fp2_add(s0, fp2_mul_xi(doubled(a[2], a[3], s1, s2))),
       fp2_add(doubled(a[1], a[2], s0, s1), fp2_mul_xi(s2)),
       fp2_add(s1, doubled(a[1], a[3], s0, s2))>>

fp6_inv(a) ==
  LET A == fp2_sub(fp2_sqr(a[1]), fp2_mul_xi(fp2_mul(a[2], a[3])))
      B == fp2_sub(fp2_mul_xi(fp2_sqr(a[3])), fp2_mul(a[1], a[2]))
      C == fp2_sub(fp2_sqr(a[2]), fp2_mul(a[1], a[3]))
      F == fp2_inv(fp2_add(fp2_mul_xi(fp2_add(fp2_mul(a[3], B),
                                              fp2_mul(a[2], C))),
                           fp2_mul(a[1], A)))
  IN <<fp2_mul(A, F), fp2_mul(B, F), fp2_mul(C, F)>>

-----------------------------------------------------------------------------
fp12_one == <<fp6_one, fp6_zero>>
fp12_conj(a) == <<a[1], fp6_neg(a[2])>>

fp12_mul(a, b) ==
  LET t0 == fp6_mul(a[1], b[1])
      t1 == fp6_mul(a[2], b[2])
      s  == fp6_mul(fp6_add(a[1], a[2]), fp6_add(b[1], b[2]))
  IN <<fp6_add(t0, fp6_mul_v(t1)), fp6_sub(fp6_sub(s, t0), t1)>>

(* Two products rather than three. *)
fp12_sqr(a) ==
  LET m == fp6_mul(a[1], a[2])
      s == fp6_mul(fp6_add(a[1], a[2]), fp6_add(fp6_mul_v(a[2]), a[1]))
  IN <<fp6_sub(fp6_sub(s, m), fp6_mul_v(m)), fp6_add(m, m)>>

conj_over(a, f) == <<fp6_mul(a[1], f), fp6_neg(fp6_mul(a[2], f))>>
fp12_inv(a) ==
  conj_over(a, fp6_inv(fp6_sub(fp6_sqr(a[1]), fp6_mul_v(fp6_sqr(a[2])))))

(* f (A + B v^2) in five products.                                         *)
fp6_mul_a0b(f, A, B) ==
  LET p1 == fp2_mul(f[1], A)
      p4 == fp2_mul(f[3], B)
  IN <<fp2_add(p1, fp2_mul_xi(fp2_mul(f[2], B))),
       fp2_add(fp2_mul(f[2], A), fp2_mul_xi(p4)),
       cross(f[1], f[3], A, B, p1, p4)>>

(* f times w (c0 + c3 w^3 + c5 w^5), the factor w included. *)
fp12_mul_sparse035w(f, c0, c3, c5) ==
  LET A  == fp2_mul_xi(c5)
      t0 == fp6_mul_a0b(f[1], A, c3)
      t1 == <<fp2_mul(f[2][1], c0), fp2_mul(f[2][2], c0), fp2_mul(f[2][3], c0)>>
      s  == fp6_mul_a0b(fp6_add(f[1], f[2]), fp2_add(A, c0), c3)
  IN <<fp6_add(t0, fp6_mul_v(t1)), fp6_sub(fp6_sub(s, t0), t1)>>

(* An odd power of p conjugates every coefficient; the one of w^i is then  *)
(* multiplied by gamma^i.  Any k that is not named copies.                 *)
fp12_frobenius(a, k) ==
  LET c(x) == IF k % 2 = 1 THEN fp2_conj(x) ELSE x
      g == FROB[k]
  IN CASE k \in 1 .. 3 ->
            <<<<c(a[1][1]), fp2_mul(c(a[1][2]), g[2]), fp2_mul(c(a[1][3]), g[4])>>,
              <<fp2_mul(c(a[2][1]), g[1]), fp2_mul(c(a[2][2]), g[3]),
                fp2_mul(c(a[2][3]), g[5])>>>>
       [] k = 6 -> fp12_conj(a)
       [] OTHER -> a

-----------------------------------------------------------------------------
(* Inside the cyclotomic subgroup.                                         *)

(* (a + b s)^2 in Fp4 = Fp2[s]/(s^2 - xi). *)
fp4_sqr(a, b) ==
  LET aa == fp2_sqr(a)
      bb == fp2_sqr(b)
  IN <<fp2_add(aa, fp2_mul_xi(bb)), doubled(a, b, aa, bb)>>

fp2_3a_sub2b(a, b) == fp2_add(twice(fp2_sub(a, b)), a)
fp2_3a_add2b(a, b) == fp2_add(twice(fp2_add(a, b)), a)

(* Granger and Scott, over the three Fp4 coordinates (g0, g3), (g1, g4)    *)
(* and (g2, g5); a[0] holds g0, g2, g4 and a[1] holds g1, g3, g5.          *)
fp12_sqr_cyc(a) ==
  LET t0 == fp4_sqr(a[1][1], a[2][2])
      t1 == fp4_sqr(a[2][1], a[1][3])
      t2 == fp4_sqr(a[1][2], a[2][3])
  IN <<<<fp2_3a_sub2b(t0[1], a[1][1]), fp2_3a_sub2b(t1[1], a[1][2]),
         fp2_3a_sub2b(t2[1], a[1][3])>>,
       <<fp2_3a_add2b(fp2_mul_xi(t2[2]), a[2][1]), fp2_3a_add2b(t0[2], a[2][2]),
         fp2_3a_add2b(t1[2], a[2][3])>>>>

(* Karabina: the four coordinates g1, g2, g4, g5.                          *)
fp12_compress(a) ==
  [g1 |-> a[2][1], g2 |-> a[1][2], g4 |-> a[1][3], g5 |-> a[2][3]]

fp12_comp_sqr(a) ==
  LET s1 == fp2_sqr(a.g1)
      s2 == fp2_sqr(a.g2)
      s4 == fp2_sqr(a.g4)
      s5 == fp2_sqr(a.g5)
  IN [g1 |-> fp2_add(thrice(fp2_mul_xi(doubled(a.g2, a.g5, s2, s5))), twice(a.g1)),
      g2 |-> fp2_sub(thrice(fp2_add(fp2_mul_xi(s4), s1)), twice(a.g2)),
      g4 |-> fp2_sub(thrice(fp2_add(fp2_mul_xi(s5), s2)), twice(a.g4)),
      g5 |-> fp2_add(thrice(doubled(a.g1, a.g4, s1, s4)), twice(a.g5))]

(* Two relations give g3: one divides by g1, the other by g5.              *)
NeverTheSecond(c) == FALSE        \* variant: always divides by g1
UsesTheSecond(c) == c.g1 = fp2_zero

fp12_decompress(c) ==
  LET n1 == fp2_sub(fp2_add(thrice(fp2_sqr(c.g2)), fp2_mul_xi(fp2_sqr(c.g5))),
                    twice(c.g4))
      n2 == fp2_add(fp2_sub(fp2_sqr(c.g1), twice(c.g2)),
                    thrice(fp2_mul_xi(fp2_sqr(c.g4))))
      n  == IF UsesTheSecond(c) THEN n2 ELSE n1
      d  == twice(twice(IF UsesTheSecond(c) THEN fp2_mul_xi(c.g5) ELSE c.g1))
      g3 == fp2_mul(n, fp2_inv(d))
      g0 == fp2_add(fp2_sub(fp2_mul(c.g1, c.g5), thrice(fp2_mul(c.g2, c.g4))),
                    twice(fp2_sqr(g3)))
  IN <<<<fp2_add(fp2_mul_xi(g0), fp2_one), c.g2, c.g4>>, <<c.g1, g3, c.g5>>>>

Iterated(op(_), x, n) ==
  LET at[k \in 0 .. n] == IF k = 0 THEN x ELSE op(at[k - 1]) IN at[n]

fp12_sqr_cyc_run(a, n) ==
  IF n <= 0 THEN a
  ELSE fp12_decompress(Iterated(fp12_comp_sqr, fp12_compress(a), n))

Squarings(a, run) ==
  IF run >= KARABINA_MIN_RUN THEN fp12_sqr_cyc_run(a, run)
  ELSE Iterated(fp12_sqr_cyc, a, run)

(* f^x over the signed digits of x, most significant first: a zero digit   *)
(* joins the run of squarings that the next nonzero digit ends, and the    *)
(* last run may end with the digits.                                       *)
fp12_exp_param(f, digits) ==
  LET times(acc, d) == fp12_mul(acc, IF d > 0 THEN f ELSE fp12_conj(f))
      first == IF digits[1] > 0 THEN f ELSE fp12_conj(f)
      state[k \in 1 .. Len(digits)] ==        \* <<acc, pending squarings>>
        IF k = 1 THEN <<first, 0>>
        ELSE LET s == state[k - 1]
             IN IF digits[k] = 0 THEN <<s[1], s[2] + 1>>
                ELSE <<times(Squarings(s[1], s[2] + 1), digits[k]), 0>>
      last == state[Len(digits)]
  IN Squarings(last[1], last[2])

-----------------------------------------------------------------------------
(* The final exponentiation of miller.c.                                   *)

(* f^((p^6 - 1)(p^2 + 1)), which lands in the cyclotomic subgroup. *)
times_p2_plus_1(t) == fp12_mul(fp12_frobenius(t, 2), t)
easy_part(f) == times_p2_plus_1(fp12_mul(fp12_conj(f), fp12_inv(f)))

(* BLS12: m to 3 lambda = (x-1)^2 (x+p) (x^2+p^2-1) + 3, by the values of  *)
(* a, b, c, d and r in turn; z is the one before, raised to x to y, and to *)
(* x twice for d.                                                          *)
next_bls12(n, m, z, y) ==
  CASE n = 1 -> fp12_mul(y, fp12_conj(m))
    [] n = 2 -> fp12_mul(y, fp12_conj(z))
    [] n = 3 -> fp12_mul(y, fp12_frobenius(z, 1))
    [] n = 4 -> fp12_mul(fp12_mul(y, fp12_frobenius(z, 2)), fp12_conj(z))
    [] n = 5 -> fp12_mul(z, fp12_mul(fp12_sqr_cyc(m), m))

hard_part_bls12(n, m, z, digits) ==
  LET once == fp12_exp_param(IF n = 1 THEN m ELSE z, digits)
  IN next_bls12(n, m, z, IF n = 4 THEN fp12_exp_param(once, digits) ELSE once)

(* a^6, a^12, a^18, a^30 and a^36, each from smaller powers of a. *)
Summands == 6 :> <<4, 2>> @@ 18 :> <<12, 6>> @@ 30 :> <<18, 12>>

small_powers(a) ==
  LET pow[n \in {1, 2, 4, 6, 12, 18, 30, 36}] ==
        CASE n = 1 -> a
          [] n \in DOMAIN Summands ->
               fp12_mul(pow[Summands[n][1]], pow[Summands[n][2]])
          [] OTHER -> fp12_sqr_cyc(pow[n \div 2])
  IN pow

(* BN: m to lambda = d0 + d1 p + d2 p^2 + p^3, regrouped by the powers     *)
(* u1 = m^x, u2 = u1^x, u3 = u2^x: the factors that each of them, then m   *)
(* itself, contributes; s holds the small powers.                          *)
factors_u3(s) == <<fp12_conj(s[36]), fp12_conj(fp12_frobenius(s[36], 1))>>

factors_u2_bare(s) ==                                \* variant: p^2 dropped
  <<fp12_conj(s[30]), fp12_conj(fp12_frobenius(s[18], 1)), s[6]>>

factors_u2(s) == <<fp12_conj(s[30]), fp12_conj(fp12_frobenius(s[18], 1)),
                   fp12_frobenius(s[6], 2)>>

factors_u1(s) == <<fp12_conj(s[18]), fp12_conj(fp12_frobenius(s[12], 1))>>

factors_m(m) == <<fp12_conj(fp12_sqr_cyc(m)), fp12_frobenius(m, 1),
                  fp12_frobenius(m, 2), fp12_frobenius(m, 3)>>

Multiplied(z, factors) ==
  LET of[n \in 0 .. Len(factors)] ==
        IF n = 0 THEN z ELSE fp12_mul(of[n - 1], factors[n])
  IN of[Len(factors)]

FactorsOf(n, m, s) == CASE n = 4 -> factors_u3(s)
                        [] n = 5 -> factors_u2(s)
                        [] n = 6 -> factors_u1(s)
                        [] n = 7 -> factors_m(m)

hard_part_bn(n, m, z, u) ==
  Multiplied(z, FactorsOf(n, m, small_powers(IF n = 7 THEN m ELSE u[7 - n])))
=============================================================================
