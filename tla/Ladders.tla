------------------------------- MODULE Ladders -------------------------------
(***************************************************************************)
(* The plain scalar multiplications and exponentiations: mul and           *)
(* mul_pubconst of arith/ec_tmpl.h, ep2_mul2 of arith/ec.c, fp2_exp and    *)
(* fp12_exp of arith/fpx.c.  A group element is its discrete logarithm to  *)
(* the argument, a number mod Order; infinity and one are 0.               *)
(***************************************************************************)
EXTENDS Integers, Sequences, FiniteSetsExt

CONSTANTS
  Order,                    \* of the group
  Second,                   \* the second point of ep2_mul2
  LimbBits,                 \* bits of a limb, 64
  PubconstBits,             \* PUBCONST_BITS, a limb more than the order has
  Calls                     \* [op, k, kbits] and, for mul2, k1, k1bits

(* The callers of ep2_mul2 pass the exact lengths of two constants.        *)
ASSUME CallsAssumption ==
  /\ Order \in Nat /\ Order > 1 /\ Second \in 0 .. Order - 1
  /\ LimbBits \in Nat \ {0}
  /\ \A c \in Calls :
       /\ c.k \in Nat /\ c.kbits \in Int /\ c.k1 \in Nat
       /\ c.op = "mul2" => c.k < 2 ^ c.kbits /\ c.k1 < 2 ^ c.k1bits

VARIABLES
  pc, call,
  t, naf,                   \* mul_pubconst: value left to recode, and digits
  pos,                      \* bit or digit position of the ladder
  acc,
  started                   \* fp2_exp: acc has been set

vars == <<pc, call, t, naf, pos, acc, started>>

NoCall == [op |-> "none", k |-> 0, kbits |-> 0, k1 |-> 0, k1bits |-> 0]

Add(a, b) == (a + b) % Order
Neg(a) == (-a) % Order

(* Bits of a public length; none for a length that is not positive.        *)
LowBits(k, kbits) == IF kbits <= 0 THEN 0 ELSE k % 2 ^ kbits

Init == /\ pc = "idle" /\ call = NoCall /\ t = 0 /\ naf = <<>> /\ pos = 0
        /\ acc = 0 /\ started = FALSE

-----------------------------------------------------------------------------
RoundUp(bits, win) == ((bits + win - 1) \div win) * win
GLV_TOP(bits) == ((bits + 2) \div 2) * 2

(* mul_pubconst falls back to mul outside the lengths its arrays hold.     *)
FallsBack(c) == c.op = "mul_pubconst" /\ (c.kbits <= 0 \/ c.kbits > PubconstBits)

Call ==
  /\ pc = "idle"
  /\ \E c \in Calls :
       /\ call' = IF FallsBack(c) THEN [c EXCEPT !.op = "mul",
                                                 !.kbits = Max({c.kbits, 0})]
                  ELSE c
       /\ t' = IF call'.op = "mul_pubconst" THEN LowBits(c.k, c.kbits) ELSE 0
       /\ pos' = CASE call'.op \in {"mul", "fp2_exp"} -> RoundUp(call'.kbits, 4)
                   [] call'.op = "mul2" ->
                        GLV_TOP(Max({call'.kbits, call'.k1bits}))
                   [] OTHER -> call'.kbits
       /\ pc' = IF call'.op = "mul_pubconst" THEN "recode" ELSE "ladder"
  /\ naf' = <<>> /\ acc' = 0 /\ started' = FALSE

-----------------------------------------------------------------------------
(* One digit of the non-adjacent form: +1 or -1 when t is odd, whichever   *)
(* leaves the next digit zero.  t has PubconstBits bits and no more.       *)
NafDigit(v) == IF v % 2 = 0 THEN 0 ELSE 2 - (v % 4)

Recode ==
  /\ pc = "recode" /\ t # 0
  /\ LET z == NafDigit(t)
     IN /\ naf' = Append(naf, z)
        /\ t' = ((t - z) % 2 ^ PubconstBits) \div 2
  /\ UNCHANGED <<pc, call, pos, acc, started>>

(* The leading digit seeds the accumulator.                                *)
Recoded ==
  /\ pc = "recode" /\ t = 0
  /\ \/ /\ naf = <<>>
        /\ acc' = 0 /\ pos' = 0 /\ pc' = "done"
     \/ /\ naf # <<>>
        /\ acc' = IF naf[Len(naf)] > 0 THEN 1 ELSE Neg(1)
        /\ pos' = Len(naf) - 1 /\ pc' = "naf_ladder"
  /\ UNCHANGED <<call, t, naf, started>>

NafStep ==
  /\ pc = "naf_ladder" /\ pos > 0
  /\ acc' = LET doubled == Add(acc, acc)
            IN  CASE naf[pos] > 0 -> Add(doubled, 1)
                  [] naf[pos] < 0 -> Add(doubled, Neg(1))
                  [] naf[pos] = 0 -> doubled
  /\ pos' = pos - 1
  /\ UNCHANGED <<pc, call, t, naf, started>>

-----------------------------------------------------------------------------
(* The width-4 table of one point: doublings and additions of the point.   *)
WindowEntry(tbl, i, p) ==
  IF i % 2 = 1 THEN Add(tbl[i - 1], p) ELSE Add(tbl[i \div 2], tbl[i \div 2])

WindowTable(p) ==
  LET tbl[i \in 0 .. 15] == IF i < 2 THEN i * p ELSE WindowEntry(tbl, i, p)
  IN  tbl

(* Four bits of the scalar at position b, those at or past kbits read as 0.*)
ReadsPastTheEnd(k, kbits, b) == (k \div 2 ^ b) % 16    \* variant

WindowAt(k, kbits, b) == (LowBits(k, kbits) \div 2 ^ b) % 16

(* mul adds the entry for every window; entry 0 is infinity.               *)
MulStep ==
  /\ call.op = "mul" /\ pc = "ladder" /\ pos > 0
  /\ pos' = pos - 4
  /\ acc' = Add(16 * acc,
                WindowTable(1)[WindowAt(call.k, call.kbits, pos')])
  /\ UNCHANGED <<pc, call, t, naf, started>>

(* fp2_exp skips zero windows, and has no accumulator until the first      *)
(* window that is not zero.                                                *)
Fp2ExpStep ==
  /\ call.op = "fp2_exp" /\ pc = "ladder" /\ pos > 0
  /\ pos' = pos - 4
  /\ LET w == WindowAt(call.k, call.kbits, pos')
         entry == WindowTable(1)[w]
     IN \/ /\ started
           /\ acc' = IF w # 0 THEN Add(16 * acc, entry)
                     ELSE (16 * acc) % Order
           /\ UNCHANGED started
        \/ /\ ~started /\ w # 0
           /\ acc' = entry /\ started' = TRUE
        \/ /\ ~started /\ w = 0
           /\ UNCHANGED <<acc, started>>
  /\ UNCHANGED <<pc, call, t, naf>>

(* fp12_exp: one bit a step.                                               *)
Fp12ExpStep ==
  /\ call.op = "fp12_exp" /\ pc = "ladder" /\ pos > 0
  /\ pos' = pos - 1
  /\ acc' = IF (call.k \div 2 ^ pos') % 2 = 1 THEN Add(Add(acc, acc), 1)
            ELSE Add(acc, acc)
  /\ UNCHANGED <<pc, call, t, naf, started>>

(* glv_ladder2 of two points: entry j is [j & 3]P0 + [j >> 2]P1.           *)
Ladder2Table ==
  LET tbl[j \in 0 .. 15] ==
        CASE j = 0 -> 0
          [] j = 1 -> 1
          [] j = 2 -> Add(1, 1)
          [] j = 3 -> Add(tbl[2], 1)
          [] j > 3 -> Add(tbl[j - 4], Second)
  IN  tbl

(* ep2_mul2: two bits of each scalar a step, each scalar copied to a       *)
(* zeroed buffer first, a limb at a time and only as far as its own length.*)
Copied(k, kbits) == k % 2 ^ RoundUp(kbits, LimbBits)

Mul2Step ==
  /\ call.op = "mul2" /\ pc = "ladder" /\ pos > 0
  /\ pos' = pos - 2
  /\ LET two(k, kbits) == (Copied(k, kbits) \div 2 ^ pos') % 4
         w == two(call.k, call.kbits) + 4 * two(call.k1, call.k1bits)
     IN acc' = Add(4 * acc, Ladder2Table[w])
  /\ UNCHANGED <<pc, call, t, naf, started>>

Return ==
  /\ pc \in {"ladder", "naf_ladder"} /\ pos = 0 /\ pc' = "done"
  /\ acc' = IF call.op = "fp2_exp" /\ ~started THEN 0 ELSE acc
  /\ UNCHANGED <<call, t, naf, pos, started>>

Collect ==
  /\ pc = "done" /\ pc' = "idle" /\ call' = NoCall
  /\ t' = 0 /\ naf' = <<>> /\ pos' = 0 /\ acc' = 0 /\ started' = FALSE

-----------------------------------------------------------------------------
Work == \/ Recode \/ Recoded \/ NafStep \/ MulStep \/ Fp2ExpStep
        \/ Fp12ExpStep \/ Mul2Step \/ Return

Next == Call \/ Work \/ Collect

Spec == Init /\ [][Next]_vars /\ WF_vars(Work)

-----------------------------------------------------------------------------
DigitSum(digits) == MapThenSumSet(LAMBDA i : digits[i] * 2 ^ (i - 1),
                                  DOMAIN digits)

(* Digits and remaining value always make up the constant, no two          *)
(* neighbouring digits are non-zero, and the digits stay in their array:   *)
(* what makes the ladder of mul_pubconst correct, and short (ec_tmpl.h:55, *)
(* ec_tmpl.h:102).                                                         *)
RecodingIsExact ==
  pc = "recode" =>
    /\ Len(naf) <= PubconstBits + 1
    /\ DigitSum(naf) + t * 2 ^ Len(naf) = LowBits(call.k, call.kbits)
    /\ \A i \in 1 .. Len(naf) - 1 : naf[i] = 0 \/ naf[i + 1] = 0

-----------------------------------------------------------------------------
ScalarOf(c) ==
  IF c.op = "mul2" THEN LowBits(c.k, c.kbits) +
                        Second * LowBits(c.k1, c.k1bits)
  ELSE LowBits(c.k, c.kbits)

Multiplication ==
  INSTANCE ScalarMul WITH
    phase <- CASE pc = "idle" -> "idle" [] pc = "done" -> "done"
               [] OTHER -> "busy",
    scalar <- ScalarOf(call), order <- Order

(* Every ladder computes [k]P, or [k0]P0 + [k1]P1, for the bits of k that  *)
(* its length argument names.                                              *)
ImplementsMultiplication == Multiplication!Spec

(* The result alone, for calls of mul_pubconst at the limit of its arrays. *)
PubconstComputesKP ==
  (pc = "done" /\ call.op = "mul_pubconst") =>
    acc = LowBits(call.k, call.kbits) % Order
=============================================================================
