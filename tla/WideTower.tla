------------------------------ MODULE WideTower ------------------------------
(***************************************************************************)
(* The lazily reduced tower of fpx.c on x86-64: raw double-width products, *)
(* combined modulo p R and reduced once per coefficient of the result.  A  *)
(* wide element of Fp2 is a pair of wide numbers, real part first; the     *)
(* eager forms, which reduce every product, are in Tower.                  *)
(***************************************************************************)
EXTENDS MontField, Sequences

CONSTANTS
  Fp2Operands(_),       \* of a modulus: pairs of elements of Fp2, to multiply
  Fp6Operands(_),       \* pairs of elements of Fp6
  LineOperands(_)       \* [f, c0, c3, c5] of the line multiply

pR == FP_MODULUS * R

-----------------------------------------------------------------------------
(* Each round adds a row to NLIMB + 1 limbs and stores the low one.        *)
elips_fp_mulw(a, b) ==
  LET done[j \in 0 .. NLIMB] ==
        IF j = 0 THEN [stored |-> 0, acc |-> 0]
        ELSE LET prev == done[j - 1]
                 row == MulChain(prev.acc, a, Digit(b, j - 1))
             IN  [stored |-> prev.stored + (row % Base) * Base ^ (j - 1),
                  acc |-> row \div Base]
      last == done[NLIMB]
  IN  last.stored + last.acc * R

(* The carry less the borrow says whether the sum was below the modulus.   *)
Reduced(sum) ==
  LET red == sub_borrow(sum % R, FP_MODULUS)
  IN  IF sum \div R - red.borrow < 0 THEN sum % R ELSE red.r

(* Only the low half is reduced; the high half is added to what it leaves. *)
elips_fp_redcw(w) ==
  LET acc[j \in 0 .. NLIMB] == IF j = 0 THEN w % R ELSE ReduceChain(acc[j - 1])
  IN  Reduced((acc[NLIMB] % R) + w \div R)

(* Modulo p R, whose low half is zero: only the high half is corrected.    *)
BorrowKept(a, b) == (a - b) % (R * R)                          \* variant

WSUB(a, b) ==
  LET diff == (a - b) % (R * R)
  IN  IF a < b THEN (diff + pR) % (R * R) ELSE diff

WADD(a, b) ==
  LET sum == a + b
  IN  (sum % R) + R * Reduced(sum \div R)

w2_sub(a, b) == <<WSUB(a[1], b[1]), WSUB(a[2], b[2])>>
w2_add(a, b) == <<WADD(a[1], b[1]), WADD(a[2], b[2])>>
w2_xi(a) == <<WSUB(a[1], a[2]), WADD(a[1], a[2])>>

(* The sum of two coefficients, whose carry nobody keeps.                  *)
NarrowSum(a) ==
  LET sum == (a[1] + a[2]) % R
  IN  IF sum < FP_MODULUS THEN sum ELSE sum - FP_MODULUS

fp2_mulw(a, b) ==
  LET t0 == elips_fp_mulw(a[1], b[1])
      t1 == elips_fp_mulw(a[2], b[2])
      s  == elips_fp_mulw(NarrowSum(a), NarrowSum(b))
  IN  <<WSUB(t0, t1), WSUB(WSUB(s, t0), t1)>>

fp2_redcw(w) == <<elips_fp_redcw(w[1]), elips_fp_redcw(w[2])>>

fp2_mul_lazy(a, b) == fp2_redcw(fp2_mulw(a, b))

-----------------------------------------------------------------------------
fp2_add(a, b) == <<fp_add(a[1], b[1]), fp_add(a[2], b[2])>>
fp2_mul_xi(a) == <<fp_sub(a[1], a[2]), fp_add(a[1], a[2])>>

(* The products v0, v1, v2, w01, w02, w12 into the three coefficients.     *)
elips_fp6_comb_x2(w) ==
  <<w2_add(w2_xi(w2_sub(w2_sub(w[6], w[2]), w[3])), w[1]),
    w2_add(w2_sub(w2_sub(w[4], w[1]), w[2]), w2_xi(w[3])),
    w2_add(w2_sub(w2_sub(w[5], w[1]), w[3]), w[2])>>

fp6_redcw(w) == <<fp2_redcw(w[1]), fp2_redcw(w[2]), fp2_redcw(w[3])>>

fp6_mul_lazy(a, b) ==
  LET sums(i1, i2) == fp2_mulw(fp2_add(a[i1], a[i2]), fp2_add(b[i1], b[i2]))
  IN  fp6_redcw(elips_fp6_comb_x2(
        <<fp2_mulw(a[1], b[1]), fp2_mulw(a[2], b[2]), fp2_mulw(a[3], b[3]),
          sums(1, 2), sums(1, 3), sums(2, 3)>>))

(* The five products of f (A + B v^2), in the order of the buffer.         *)
LineProducts(f, A, B) ==
  <<fp2_mulw(f[1], A), fp2_mulw(f[2], B), fp2_mulw(f[2], A), fp2_mulw(f[3], B),
    fp2_mulw(fp2_add(f[1], f[3]), fp2_add(A, B))>>

CombineLine(w) == <<w2_add(w[1], w2_xi(w[2])), w2_add(w[3], w2_xi(w[4])),
                    w2_sub(w2_sub(w[5], w[1]), w[4])>>

(* Of the three blocks of thirteen products: t0 + v t1 and s - t0 - t1.    *)
elips_fp12_line_comb_x2(t0, s, t1) ==
  <<<<w2_add(t0[1], w2_xi(t1[3])), w2_add(t0[2], t1[1]), w2_add(t0[3], t1[2])>>,
    <<w2_sub(w2_sub(s[1], t0[1]), t1[1]), w2_sub(w2_sub(s[2], t0[2]), t1[2]),
      w2_sub(w2_sub(s[3], t0[3]), t1[3])>>>>

fp12_mul_sparse035w_lazy(f, c0, c3, c5) ==
  LET A == fp2_mul_xi(c5)
      d == <<fp2_add(f[1][1], f[2][1]), fp2_add(f[1][2], f[2][2]),
             fp2_add(f[1][3], f[2][3])>>
      out == elips_fp12_line_comb_x2(
               CombineLine(LineProducts(f[1], A, c3)),
               CombineLine(LineProducts(d, fp2_add(A, c0), c3)),
               <<fp2_mulw(f[2][1], c0), fp2_mulw(f[2][2], c0),
                 fp2_mulw(f[2][3], c0)>>)
  IN  <<fp6_redcw(out[1]), fp6_redcw(out[2])>>

-----------------------------------------------------------------------------
(* Only this build has the kernels.                                        *)
Lazy(call, args, value) ==
  /\ pc = "idle" /\ build.mul = "x86_64" /\ pc' = "lazy"
  /\ result' = [call |-> call, args |-> args, value |-> value]
  /\ UNCHANGED <<build, x, y, i, t>>

LazyFp2 == \E v \in Fp2Operands(FP_MODULUS) :
             Lazy("fp2_mul", v, fp2_mul_lazy(v[1], v[2]))
LazyFp6 == \E v \in Fp6Operands(FP_MODULUS) :
             Lazy("fp6_mul", v, fp6_mul_lazy(v[1], v[2]))
LazyLine == \E v \in LineOperands(FP_MODULUS) :
              Lazy("line", v, fp12_mul_sparse035w_lazy(v.f, v.c0, v.c3, v.c5))

LazyReturn == pc = "lazy" /\ pc' = "idle" /\ result' = <<>>
              /\ UNCHANGED <<build, x, y, i, t>>

WideNext == Next \/ LazyFp2 \/ LazyFp6 \/ LazyLine \/ LazyReturn

-----------------------------------------------------------------------------
(* The products by their definition, over the integers, of representatives *)
(* each of which carries a factor R.                                       *)
Schoolbook2(a, b) == <<a[1] * b[1] - a[2] * b[2], a[1] * b[2] + a[2] * b[1]>>
Plus2(a, b) == <<a[1] + b[1], a[2] + b[2]>>
Xi2(a) == <<a[1] - a[2], a[1] + a[2]>>

Schoolbook6(a, b) ==                                       \* v^3 = xi = 1 + u
  <<Plus2(Schoolbook2(a[1], b[1]),
          Xi2(Plus2(Schoolbook2(a[2], b[3]), Schoolbook2(a[3], b[2])))),
    Plus2(Plus2(Schoolbook2(a[1], b[2]), Schoolbook2(a[2], b[1])),
          Xi2(Schoolbook2(a[3], b[3]))),
    Plus2(Plus2(Schoolbook2(a[1], b[3]), Schoolbook2(a[2], b[2])),
          Schoolbook2(a[3], b[1]))>>

Stands2(r, exact) ==
  \A k \in 1 .. 2 : r[k] \in Fp /\ (r[k] * R - exact[k]) % FP_MODULUS = 0
Stands6(r, exact) == \A k \in 1 .. 3 : Stands2(r[k], exact[k])

(* w (c0 + c3 w^3 + c5 w^5) = (xi c5 + c3 v^2) + c0 w, with w^2 = v.       *)
LineIsExact(f, c0, c3, c5, r) ==
  LET even == <<Xi2(c5), <<0, 0>>, c3>>
      odd == <<c0, <<0, 0>>, <<0, 0>>>>
      lower == Schoolbook6(f[2], odd)
      shifted == <<Xi2(lower[3]), lower[1], lower[2]>>
      straight == Schoolbook6(f[1], even)
      upper == Schoolbook6(f[1], odd)
      cross == Schoolbook6(f[2], even)
  IN  /\ Stands6(r[1], [k \in 1 .. 3 |-> Plus2(straight[k], shifted[k])])
      /\ Stands6(r[2], [k \in 1 .. 3 |-> Plus2(upper[k], cross[k])])

(***************************************************************************)
(* Deferring the reductions changes nothing: every coefficient is the      *)
(* canonical representative of the product.  It takes that no sum of two   *)
(* coefficients leaves the limbs, that every wide number stays below p R,  *)
(* and that one subtraction then is enough.                                *)
(***************************************************************************)
LazyIsEager ==
  pc = "lazy" =>
    LET v == result.args
        r == result.value
    IN  CASE result.call = "fp2_mul" -> Stands2(r, Schoolbook2(v[1], v[2]))
          [] result.call = "fp6_mul" -> Stands6(r, Schoolbook6(v[1], v[2]))
          [] result.call = "line" -> LineIsExact(v.f, v.c0, v.c3, v.c5, r)
=============================================================================
