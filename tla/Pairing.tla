------------------------------- MODULE Pairing -------------------------------
(***************************************************************************)
(* One pairing of miller.c on real field elements: the Miller loop with    *)
(* its running point in homogeneous coordinates and its lines as three     *)
(* coefficients, BN's correction lines, and the final exponentiation in    *)
(* its three forms.  MultiPairing has the loops over many pairs, and names *)
(* the lines that are computed here.                                       *)
(***************************************************************************)
EXTENDS Tower

CONSTANTS
  curve_b,                    \* b; the twist is y^2 = x^3 + b xi
  PSI_X, PSI_Y, PSI2_X, PSI2_Y,
  ELIPS_HARD_EXP,             \* (p^4 - p^2 + 1) / r, bits from the top
  Builds,                     \* records [loop, bn, param, hard, value]
  G1, G2,                     \* multiples of the generators, 1 .. r - 1
  Pairs,                      \* the pairs of multiples a caller pairs
  Values                      \* what a caller exponentiates directly

VARIABLES build, pc, pair,
          T, f, i,            \* as in pairing_miller
          m, acc, u           \* after the easy part; the power so far; u1 .. u3

vars == <<build, pc, pair, T, f, i, m, acc, u>>

Order == Len(G2) + 1         \* r
Loop == build.loop
Q == G2[pair[2]]
P == G1[pair[1]]

-----------------------------------------------------------------------------
(* Points of the twist in homogeneous coordinates, <<X, Y, Z>>.            *)
from_affine(q) == <<q[1], q[2], fp2_one>>
negated(q) == <<q[1], fp2_neg(q[2])>>
ep2_curve_b == fp2_mul_xi(<<curve_b, 0>>)

(* The complete addition, whatever the two points are. *)
homog_add(p, q) ==
  LET b3 == thrice(ep2_curve_b)
      t0 == fp2_mul(p[1], q[1])
      t1 == fp2_mul(p[2], q[2])
      t2 == fp2_mul(b3, fp2_mul(p[3], q[3]))
      xy == cross(p[1], p[2], q[1], q[2], t0, t1)
      yz == cross(p[2], p[3], q[2], q[3], t1, fp2_mul(p[3], q[3]))
      xz == fp2_mul(b3, cross(p[1], p[3], q[1], q[3], t0, fp2_mul(p[3], q[3])))
      x3 == thrice(t0)
      s  == fp2_add(t1, t2)
      d  == fp2_sub(t1, t2)
  IN <<fp2_sub(fp2_mul(xy, d), fp2_mul(yz, xz)),
       fp2_add(fp2_mul(d, s), fp2_mul(xz, x3)),
       fp2_add(fp2_mul(s, yz), fp2_mul(x3, xy))>>

(* A line [a, b, c] evaluates to a yP + c w^3 + b xP w^5.                  *)
tangent_c_plus(B, E) == fp2_add(B, E)                       \* variant
tangent_c(B, E) == fp2_sub(B, E)

(* The tangent at t and the doubled point, computed together: the dedicated *)
(* formulas, undefined at the identity and at points of order two.         *)
dbl_line(t) ==
  LET B == fp2_sqr(t[2])
      C == fp2_sqr(t[3])
      H == doubled(t[2], t[3], B, C)
      E == fp2_mul(thrice(ep2_curve_b), C)
      F == thrice(E)
      z3 == fp2_mul(B, H)
  IN [line |-> [a |-> fp2_mul_xi(H), b |-> fp2_neg(thrice(fp2_sqr(t[1]))),
                c |-> tangent_c(B, E)],
      point |-> <<fp2_mul(twice(fp2_mul(t[1], t[2])), fp2_sub(B, F)),
                  fp2_sub(fp2_sqr(fp2_add(B, F)),
                          twice(twice(thrice(fp2_sqr(E))))),
                  twice(twice(z3))>>]

add_line(t, q) ==
  LET H == fp2_sub(fp2_mul(q[1], t[3]), t[1])
      R == fp2_sub(fp2_mul(q[2], t[3]), t[2])
  IN [line |-> [a |-> fp2_mul_xi(fp2_mul(H, t[3])),
                b |-> fp2_neg(fp2_mul(R, t[3])),
                c |-> fp2_sub(fp2_mul(R, t[1]), fp2_mul(t[2], H))],
      point |-> homog_add(t, from_affine(q))]

line_mul(g, L, p) ==
  fp12_mul_sparse035w(g, fp2_mul_fp(L.a, p[2]), L.c, fp2_mul_fp(L.b, p[1]))

(* psi carried through the untwisting, and minus psi^2. *)
psi(q) == <<fp2_mul(fp2_conj(q[1]), PSI_X), fp2_mul(fp2_conj(q[2]), PSI_Y)>>
plain_psi2(q) ==                                 \* variant: not negated
  <<fp2_mul(q[1], PSI2_X), fp2_mul(q[2], PSI2_Y)>>
minus_psi2(q) == <<fp2_mul(q[1], PSI2_X), fp2_neg(fp2_mul(q[2], PSI2_Y))>>

-----------------------------------------------------------------------------
Idle == /\ pc = "idle" /\ pair = << >> /\ T = << >>
        /\ f = fp12_one /\ m = fp12_one /\ acc = fp12_one /\ i = 0
        /\ u = << >>

Init == build \in Builds /\ Idle

(* pairing_miller, on points its callers have validated.                   *)
Miller ==
  /\ pc = "idle" /\ pc' = "loop"
  /\ pair' \in Pairs
  /\ LET q == G2[pair'[2]]
     IN T' = from_affine(IF Loop[1] > 0 THEN q ELSE negated(q))
  /\ f' = fp12_one /\ i' = 2
  /\ UNCHANGED <<build, m, acc, u>>

StepWith(d) ==
  LET D == dbl_line(T)
      g == line_mul(fp12_sqr(f), D.line, P)
      A == add_line(D.point, IF d > 0 THEN Q ELSE negated(Q))
  IN IF d = 0 THEN T' = D.point /\ f' = g
     ELSE T' = A.point /\ f' = line_mul(g, A.line, P)

Iterate ==
  /\ pc = "loop" /\ i <= Len(Loop)
  /\ StepWith(Loop[i])
  /\ i' = i + 1
  /\ UNCHANGED <<build, pc, pair, m, acc, u>>

Correct ==
  /\ pc = "loop" /\ i > Len(Loop) /\ pc' = "final"
  /\ IF build.bn
     THEN LET A1 == add_line(T, psi(Q))
              A2 == add_line(A1.point, minus_psi2(Q))
          IN T' = A2.point
             /\ f' = line_mul(line_mul(f, A1.line, P), A2.line, P)
     ELSE UNCHANGED <<T, f>>
  /\ UNCHANGED <<build, pair, i, m, acc, u>>

(* A caller may exponentiate any nonzero value.                            *)
FinalExp ==
  /\ pc = "idle" /\ pc' = "final"
  /\ f' \in Values
  /\ UNCHANGED <<build, pair, T, i, m, acc, u>>

EasyPart ==
  /\ pc = "final" /\ pc' = "hard"
  /\ m' = easy_part(f) /\ i' = 1
  /\ UNCHANGED <<build, pair, T, f, acc, u>>

(* pairing_final_exp_fast of BLS12, an intermediate value at a time. *)
HardBls12 ==
  /\ pc = "hard" /\ build.hard = "bls12"
  /\ acc' = hard_part_bls12(i, m, acc, build.param)
  /\ i' = i + 1 /\ pc' = IF i = 5 THEN "done" ELSE "hard"
  /\ UNCHANGED <<build, pair, T, f, m, u>>

(* pairing_final_exp_fast of BN: three powers, then four groups of factors. *)
HardBn ==
  /\ pc = "hard" /\ build.hard = "bn"
  /\ IF i <= 3
     THEN /\ u' = Append(u, fp12_exp_param(IF i = 1 THEN m ELSE u[i - 1],
                                           build.param))
          /\ UNCHANGED acc
     ELSE acc' = hard_part_bn(i, m, acc, u) /\ UNCHANGED u
  /\ i' = i + 1 /\ pc' = IF i = 7 THEN "done" ELSE "hard"
  /\ UNCHANGED <<build, pair, T, f, m>>

(* pairing_final_exp_plain, a bit at a time. *)
HardPlain ==
  /\ pc = "hard" /\ build.hard = "plain"
  /\ LET s == fp12_sqr_cyc(acc)
     IN acc' = IF ELIPS_HARD_EXP[i] = 1 THEN fp12_mul(s, m) ELSE s
  /\ i' = i + 1
  /\ pc' = IF i = Len(ELIPS_HARD_EXP) THEN "done" ELSE "hard"
  /\ UNCHANGED <<build, pair, T, f, m, u>>

Return ==
  /\ pc = "done" /\ pc' = "idle" /\ pair' = << >> /\ T' = << >> /\ i' = 0
  /\ f' = fp12_one /\ m' = fp12_one /\ acc' = fp12_one
  /\ u' = << >> /\ UNCHANGED build

Next == Miller \/ Iterate \/ Correct \/ FinalExp \/ EasyPart \/ HardBls12
        \/ HardBn \/ HardPlain \/ Return

Spec == Init /\ [][Next]_vars

-----------------------------------------------------------------------------
(* The reference: Fp12 as the polynomials in w over Fp2 modulo w^6 - xi,   *)
(* multiplied term by term and raised to powers by multiplying.            *)
Coefficients(a) == <<a[1][1], a[2][1], a[1][2], a[2][2], a[1][3], a[2][3]>>

ComplexProduct(a, b) ==
  <<(a[1] * b[1] + (FP_MODULUS - a[2]) * b[2]) % FP_MODULUS,
    (a[1] * b[2] + a[2] * b[1]) % FP_MODULUS>>

Term(x, y, n) ==                 \* the coefficient of w^n before reduction
  LET sum[j \in 0 .. 6] ==
        IF j = 0 THEN fp2_zero
        ELSE IF n - (j - 1) \in 0 .. 5
             THEN fp2_add(sum[j - 1], ComplexProduct(x[j], y[n - j + 2]))
             ELSE sum[j - 1]
  IN sum[6]

Times(a, b) ==
  LET x == Coefficients(a)
      y == Coefficients(b)
      c(n) == fp2_add(Term(x, y, n), ComplexProduct(<<1, 1>>, Term(x, y, n + 6)))
  IN <<<<c(0), c(2), c(4)>>, <<c(1), c(3), c(5)>>>>

Fp2 == Fp \X Fp
Fp12 == (Fp2 \X Fp2 \X Fp2) \X (Fp2 \X Fp2 \X Fp2)

Power(a, e) ==
  LET by[product, square \in Fp12, n \in Nat] ==
        IF n = 0 THEN product
        ELSE by[IF n % 2 = 1 THEN Times(product, square) ELSE product,
                Times(square, square), n \div 2]
  IN by[fp12_one, a, e]

IsPower(b, a, e) ==              \* b = a^e, for e of either sign
  IF e >= 0 THEN b = Power(a, e) ELSE Times(b, Power(a, -e)) = fp12_one

w == <<fp6_zero, fp6_one>>

-----------------------------------------------------------------------------
(***************************************************************************)
(* For every value the computation reaches, each routine of the tower      *)
(* agrees with the arithmetic of polynomials: the Karatsuba products, the  *)
(* sparse product with its extra w, the inverse, the Frobenius tables; and *)
(* after the easy part, where they may be used, the squarings of Granger   *)
(* and Scott and of Karabina for every length of run, with the coordinate  *)
(* they divide by zero or not (fpx.c:740).                                 *)
(***************************************************************************)
Dense(g) ==
  /\ fp12_mul(g, fp12_sqr(g)) = Power(g, 3)
  /\ Times(fp12_inv(g), g) = fp12_one
  /\ fp12_frobenius(g, 1) = Power(g, FP_MODULUS)
  /\ \A k \in {2, 3, 6} :
       fp12_frobenius(g, k) = fp12_frobenius(fp12_frobenius(g, k \div 2), (k + 1) \div 2)
  /\ LET c == g[1]
     IN fp12_mul_sparse035w(g, c[1], c[2], c[3]) =
        Times(g, Times(w, <<<<c[1], fp2_zero, fp2_zero>>,
                            <<fp2_zero, c[2], c[3]>>>>))

MaxRun == 4                      \* bound on the lengths of run looked at

Cyclotomic(g) ==
  /\ Times(g, fp12_conj(g)) = fp12_one
  /\ fp12_sqr_cyc(g) = Times(g, g)
  /\ \A n \in 0 .. MaxRun : fp12_sqr_cyc_run(g, n) = Power(g, 2 ^ n)

TowerIsTheField ==
  /\ pc \in {"loop", "final"} => Dense(f)
  /\ pc = "hard" => Cyclotomic(m) /\ Cyclotomic(acc)

(***************************************************************************)
(* The doubling has no case for the identity nor for a point of order two, *)
(* and the line is divided by Z; it may, because the running point is [v]Q *)
(* for the value v of the digits so far, and r never divides v             *)
(* (miller.c:79).  The same for the corrections, psi being [p].  Nor does  *)
(* an addition ever meet Q or -Q, where its line would be zero.            *)
(***************************************************************************)
Prefix(n) ==
  LET v[k \in 0 .. n] == IF k = 0 THEN 0 ELSE 2 * v[k - 1] + Loop[k] IN v[n]

MultipleOfQ ==
  IF pc = "loop" THEN Prefix(i - 1)
  ELSE Prefix(Len(Loop)) +
       (IF build.bn THEN FP_MODULUS - FP_MODULUS * FP_MODULUS ELSE 0)

StandsFor(t, q) == /\ t[1] = ComplexProduct(q[1], t[3])
                   /\ t[2] = ComplexProduct(q[2], t[3])

RunningPointIsTheMultiple ==
  (pc \in {"loop", "final"} /\ pair # << >>) =>
    /\ T[2] # fp2_zero /\ T[3] # fp2_zero
    /\ (MultipleOfQ * pair[2]) % Order # 0
    /\ StandsFor(T, G2[(MultipleOfQ * pair[2]) % Order])
    /\ f # <<fp6_zero, fp6_zero>>

(***************************************************************************)
(* The exponent of the chain is the one its derivation claims, for every   *)
(* parameter and sign; the easy part is (p^6 - 1)(p^2 + 1); and every      *)
(* power of w that the lines leave in the Miller value is gone after it    *)
(* (miller.c:274).                                                         *)
(***************************************************************************)
ValueOf(digits) ==
  LET v[k \in 0 .. Len(digits)] ==
        IF k = 0 THEN 0 ELSE 2 * v[k - 1] + digits[k]
  IN v[Len(digits)]

Bls12Exponent(x, p) == (x - 1) * (x - 1) * (x + p) * (x * x + p * p - 1) + 3

BnExponent(x, p) ==
  LET d0 == -36 * x * x * x - 30 * x * x - 18 * x - 2
      d1 == -36 * x * x * x - 18 * x * x - 12 * x + 1
      d2 == 6 * x * x + 1
  IN d0 + d1 * p + d2 * p * p + p * p * p

FinalExponent ==
  CASE build.hard = "bls12" -> Bls12Exponent(ValueOf(build.param), FP_MODULUS)
    [] build.hard = "bn" -> BnExponent(ValueOf(build.param), FP_MODULUS)
    [] build.hard = "plain" -> ValueOf(ELIPS_HARD_EXP)

FinalExpIsThePower ==
  pc = "done" =>
    /\ IsPower(acc, m, FinalExponent)
    /\ Times(m, Times(f, fp12_frobenius(f, 2))) =
       fp12_frobenius(Times(f, fp12_frobenius(f, 2)), 6)
    /\ \A k \in 1 .. 5 : easy_part(fp12_mul(f, Power(w, k))) = m

(***************************************************************************)
(* The pairing of [a]G1 and [b]G2 is the pairing of the generators to the  *)
(* power ab, and that one is the optimal ate pairing, worked out from the  *)
(* textbook lines on the untwisted curve: no scaling of a line and no      *)
(* stray power of w shows.                                                 *)
(***************************************************************************)
PairingIsBilinear ==
  (pc = "done" /\ pair # << >> /\ build.hard = "plain") =>
    acc = Power(build.value, (pair[1] * pair[2]) % Order)
=============================================================================
