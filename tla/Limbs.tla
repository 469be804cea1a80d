-------------------------------- MODULE Limbs --------------------------------
(***************************************************************************)
(* Little-endian arrays of W-bit limbs, the carry and borrow chains of     *)
(* arith/glv_scalar.h over them, and the integer an array stands for.  An  *)
(* array of n limbs is a function on 0 .. n - 1; W is 64 in the code.      *)
(***************************************************************************)
EXTENDS Integers, FiniteSets, FiniteSetsExt, Functions

CONSTANT W                                  \* bits in a limb

ASSUME WAssumption == W \in Nat /\ W >= 1

Base == 2 ^ W
Arrays(n) == [0 .. n - 1 -> 0 .. Base - 1]
Zeros(n) == [j \in 0 .. n - 1 |-> 0]

ValueOf(a) == MapThenSumSet(LAMBDA j : a[j] * Base ^ j, DOMAIN a)
LimbsOf(v, n) == [j \in 0 .. n - 1 |-> (v \div Base ^ j) % Base]

BitAt(a, b) == (a[b \div W] \div 2 ^ (b % W)) % 2
TopBit(limb) == limb \div (Base \div 2)

(* A mask laundered by ct_mask picks one of two arrays, limb by limb.      *)
Select(mask, a, b) == [j \in DOMAIN a |-> IF mask THEN a[j] ELSE b[j]]

-----------------------------------------------------------------------------
(* a = 2 a + in, dropping the bit shifted out of the top limb.             *)
glv_shl1(a, in) ==
  [j \in DOMAIN a |->
     ((2 * a[j]) % Base) + IF j = 0 THEN in ELSE TopBit(a[j - 1])]

(* The borrow into limb j: set by the limb below when it, less its own     *)
(* borrow, wraps around.  The two tests are those of the code.             *)
Borrows(a, b) ==
  LET n == Cardinality(DOMAIN a)
      into[j \in 0 .. n] ==
        IF j = 0 THEN 0
        ELSE LET d == (a[j - 1] - b[j - 1]) % Base
             IN  IF a[j - 1] < b[j - 1] \/ d < into[j - 1] THEN 1 ELSE 0
  IN  into

glv_sub(a, b) ==
  [j \in DOMAIN a |-> (a[j] - b[j] - Borrows(a, b)[j]) % Base]

BorrowOut(a, b) == Borrows(a, b)[Cardinality(DOMAIN a)]

(* Likewise the carry into limb j.                                         *)
OneTestOnly(a, b) ==                        \* variant: s2 < s is not tested
  LET n == Cardinality(DOMAIN a)
      into[j \in 0 .. n] ==
        IF j = 0 THEN 0
        ELSE IF (a[j - 1] + b[j - 1]) % Base < a[j - 1] THEN 1 ELSE 0
  IN  into

Carries(a, b) ==
  LET n == Cardinality(DOMAIN a)
      into[j \in 0 .. n] ==
        IF j = 0 THEN 0
        ELSE LET s == (a[j - 1] + b[j - 1]) % Base
             IN  IF s < a[j - 1] \/ (s + into[j - 1]) % Base < s
                 THEN 1 ELSE 0
  IN  into

glv_add(a, b) ==
  [j \in DOMAIN a |-> (a[j] + b[j] + Carries(a, b)[j]) % Base]

CarryOut(a, b) == Carries(a, b)[Cardinality(DOMAIN a)]

(* Schoolbook product: row x adds a[x] * b, shifted by x limbs, to the     *)
(* array t of the rows before it; carries out of the top limb are dropped. *)
MulRow(t, a, b, x) ==
  LET n == Cardinality(DOMAIN a)
      sum[j \in 0 .. n - 1] ==              \* the double-width s at column j
        t[j] + (IF j >= x THEN a[x] * b[j - x] ELSE 0) +
        (IF j > x THEN sum[j - 1] \div Base ELSE 0)
  IN  [j \in DOMAIN a |-> IF j < x THEN t[j] ELSE sum[j] % Base]

glv_mul(a, b) ==
  LET n == Cardinality(DOMAIN a)
      rows[x \in 0 .. n] ==
        IF x = 0 THEN Zeros(n) ELSE MulRow(rows[x - 1], a, b, x - 1)
  IN  rows[n]

(* mask ? -a : a, in two's complement.                                     *)
glv_cneg(a, mask) ==
  Select(mask, glv_sub(Zeros(Cardinality(DOMAIN a)), a), a)
=============================================================================
