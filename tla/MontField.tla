------------------------------ MODULE MontField ------------------------------
(***************************************************************************)
(* The arithmetic of fp.c: modular addition and subtraction, and the       *)
(* Montgomery product as each backend computes it, portable C and the      *)
(* assembly of x86-64 and AArch64, a round at a time.  An array of n limbs *)
(* is the number it spells: a chain over limbs that drops its last carry   *)
(* is arithmetic modulo Base^n, as GlvScalar checks of such chains.        *)
(***************************************************************************)
EXTENDS Integers

CONSTANTS
  W, NLIMB,     \* bits in a limb, limbs in an element
  Builds        \* [mul, addsub: which code runs; FP_MODULUS, FP_MONT_N0, FP_R2]

Base == 2 ^ W
R == Base ^ NLIMB

(* What fp_params.h generates for a curve: an odd modulus, its negated     *)
(* inverse modulo the base, and the square of the Montgomery radix.  The   *)
(* assembly asserts a sparse modulus.                                      *)
BuildsAreLegal ==
  \A b \in Builds :
    /\ b.FP_MODULUS \in 3 .. R - 1 /\ b.FP_MODULUS % 2 = 1
    /\ (b.FP_MONT_N0 * b.FP_MODULUS + 1) % Base = 0
    /\ b.FP_R2 = (R * R) % b.FP_MODULUS
    /\ b.mul # "portable" => 2 * b.FP_MODULUS < R

VARIABLES
  build,        \* what the library was compiled from, and for
  pc,           \* "idle", "mul", "product", "computed"
  x, y, i, t,   \* operands, round and accumulator of a product
  result

fieldVars == <<build, pc, x, y, i, t, result>>

FP_MODULUS == build.FP_MODULUS
Fp == 0 .. FP_MODULUS - 1

-----------------------------------------------------------------------------
(* The last carry or borrow of a chain of NLIMB limbs, and what it leaves. *)
add_carry(a, b) == [r |-> (a + b) % R, carry |-> (a + b) \div R]
sub_borrow(a, b) == [r |-> (a - b) % R, borrow |-> IF a < b THEN 1 ELSE 0]

(* The reduced sum where the sum left the array or did not borrow.         *)
fp_add_portable(a, b) ==
  LET s == add_carry(a, b)
      red == sub_borrow(s.r, FP_MODULUS)
  IN  IF s.carry = 1 \/ red.borrow = 0 THEN red.r ELSE s.r

fp_sub_portable(a, b) ==
  LET s == sub_borrow(a, b)
  IN  IF s.borrow = 1 THEN add_carry(s.r, FP_MODULUS).r ELSE s.r

(* The carry less the borrow goes below zero where the sum is kept.        *)
elips_fp_add_x86_64(a, b) ==
  LET s == add_carry(a, b)
      red == sub_borrow(s.r, FP_MODULUS)
  IN  IF s.carry - red.borrow < 0 THEN s.r ELSE red.r

(* The modulus is masked by the borrow, then added.                        *)
elips_fp_sub_x86_64(a, b) ==
  LET s == sub_borrow(a, b)
  IN  add_carry(s.r, s.borrow * FP_MODULUS).r

fp_add(a, b) == IF build.addsub = "x86_64" THEN elips_fp_add_x86_64(a, b)
                                           ELSE fp_add_portable(a, b)
fp_sub(a, b) == IF build.addsub = "x86_64" THEN elips_fp_sub_x86_64(a, b)
                                           ELSE fp_sub_portable(a, b)
fp_neg(a) == fp_sub(0, a)

-----------------------------------------------------------------------------
(* The multiple of the modulus that clears the low limb.                   *)
Clearing(acc) == (((acc % Base) * build.FP_MONT_N0) % Base) * FP_MODULUS

(* CIOS, one round, on NLIMB + 2 limbs: the product row overwrites the top *)
(* limb; the reduction shifts out the low one and leaves the top behind.   *)
CiosRound(acc, a, digit) ==
  LET row == (acc % (Base * R)) + a * digit
      top == row \div (Base * R)
  IN  (((row + Clearing(row)) \div Base) % (Base * R)) + top * Base * R

(* The assembly, on NLIMB + 1: nothing is added to the last carries, and   *)
(* the limb that the reduction cleared is renamed to be the top.           *)
MulChain(acc, a, digit) == (acc + a * digit) % (Base * R)
ReduceChain(acc) == ((acc + Clearing(acc)) % (Base * R)) \div Base

AsmRound(acc, a, digit) == ReduceChain(MulChain(acc, a, digit))

MulRound(acc, a, digit) == IF build.mul = "portable" THEN CiosRound(acc, a, digit)
                                                     ELSE AsmRound(acc, a, digit)

(* One conditional subtraction; only the portable code has a limb above    *)
(* the result to look at.                                                  *)
FinalSubtraction(acc) ==
  LET red == sub_borrow(acc % R, FP_MODULUS)
      over == build.mul = "portable" /\ (acc \div R) % Base # 0
  IN  IF over \/ red.borrow = 0 THEN red.r ELSE acc % R

Digit(b, j) == (b \div Base ^ j) % Base

(* The whole product, for its callers within the field.                    *)
fp_mul(a, b) ==
  LET acc[j \in 0 .. NLIMB] ==
        IF j = 0 THEN 0 ELSE MulRound(acc[j - 1], a, Digit(b, j - 1))
  IN  FinalSubtraction(acc[NLIMB])

fp_from_limbs(plain) == fp_mul(plain, build.FP_R2)
fp_to_limbs(a) == fp_mul(a, 1)

(* (p + 1 or p) shifted right, in one limb more than p has.                *)
modulus_shifted(add_one, shift) == ((FP_MODULUS + add_one) \div 2 ^ shift) % R

fp_is_lex_largest(a) == sub_borrow(modulus_shifted(0, 1), fp_to_limbs(a)).borrow
fp_sgn0(a) == fp_to_limbs(a) % 2

-----------------------------------------------------------------------------
Init == /\ build \in Builds /\ pc = "idle"
        /\ x = 0 /\ y = 0 /\ i = 0 /\ t = 0 /\ result = <<>>

MulStart == /\ pc = "idle" /\ pc' = "mul"
            /\ x' \in Fp /\ y' \in Fp
            /\ UNCHANGED <<build, i, t, result>>

MulDigit == /\ pc = "mul" /\ i < NLIMB
            /\ t' = MulRound(t, x, Digit(y, i)) /\ i' = i + 1
            /\ UNCHANGED <<build, pc, x, y, result>>

MulEnd == /\ pc = "mul" /\ i = NLIMB /\ pc' = "product"
          /\ t' = FinalSubtraction(t)
          /\ UNCHANGED <<build, x, y, i, result>>

(* The operations without rounds of their own.                             *)
Compute ==
  /\ pc = "idle" /\ pc' = "computed"
  /\ \E a, b \in Fp :
       result' = [a |-> a, b |-> b, sum |-> fp_add(a, b), difference |-> fp_sub(a, b),
                  negated |-> fp_neg(a), mont |-> fp_from_limbs(a),
                  plain |-> fp_to_limbs(a), largest |-> fp_is_lex_largest(a),
                  sgn0 |-> fp_sgn0(a)]
  /\ UNCHANGED <<build, x, y, i, t>>

Collect == /\ pc \in {"product", "computed"} /\ pc' = "idle"
           /\ x' = 0 /\ y' = 0 /\ i' = 0 /\ t' = 0 /\ result' = <<>>
           /\ UNCHANGED build

Next == MulStart \/ MulDigit \/ MulEnd \/ Compute \/ Collect

-----------------------------------------------------------------------------
(* Whichever code computed them, sums, differences, conversions and signs  *)
(* are those of the field, in its one canonical form: a result of p or     *)
(* more would make fp_eq, which compares limbs, call equal elements        *)
(* different, and write a second encoding of a point.                      *)
FieldIsExact ==
  pc = "computed" =>
    LET p == FP_MODULUS
        a == result.a
        b == result.b
    IN  /\ result.sum = (a + b) % p
        /\ result.difference = (a - b) % p
        /\ result.negated = (-a) % p
        /\ result.mont = (a * R) % p
        /\ result.plain < p /\ (result.plain * R) % p = a
        /\ result.largest = (IF 2 * result.plain > p - 1 THEN 1 ELSE 0)
        /\ result.sgn0 = result.plain % 2

-----------------------------------------------------------------------------
(* Every backend's fp_mul is the Montgomery product, round by round: after *)
(* each, the accumulator is the one number the algorithm has, no carry was *)
(* lost above it, and the result is canonical.                             *)
Multiplying == pc \in {"mul", "product"}
Taken == y % Base ^ i

Product ==
  INSTANCE Montgomery WITH
    phase <- CASE pc = "mul" -> "busy" [] pc = "product" -> "done" [] OTHER -> "idle",
    base <- IF Multiplying THEN Base ELSE 1,
    p <- IF Multiplying THEN FP_MODULUS ELSE 1,
    t <- t % (Base * R), scale <- Base ^ i, used <- Taken,
    q <- ((t % (Base * R)) * Base ^ i - x * Taken) \div FP_MODULUS

ImplementsMontgomery == Product!Spec
=============================================================================
