------------------------------- MODULE GlvMul --------------------------------
(***************************************************************************)
(* The endomorphism-accelerated multiplications: ep_mul_glv and            *)
(* ep2_mul_glv of arith/ec.c for both families, and fp12_exp_gt of         *)
(* arith/fpx.c.  Reduce the scalar mod r, split it into short digits,      *)
(* and run one ladder over all of them.                                    *)
(*                                                                         *)
(* An element of a group of order r is its discrete logarithm to the       *)
(* argument P, a number mod r: addition is addition, and an endomorphism   *)
(* is multiplication by its eigenvalue, which gen_params.py asserts.  The  *)
(* scalar arithmetic is that of GlvScalar, on integers.                    *)
(***************************************************************************)
EXTENDS Integers, Sequences, FiniteSetsExt

CONSTANTS
  Seeds,                    \* curves [family, x]: the parameter x of each
  ScalarBits,               \* bits of the scalars a caller passes (kbits)
  Scalars,                  \* the scalars
  Width                     \* bits of the double width, 128 * FP_LIMBS

ScalarsAreLegal ==
  \A k \in Scalars : k \in Nat /\ k < 2 ^ ScalarBits

-----------------------------------------------------------------------------
(* Generated parameters, from include/elips/fp_params.h.                   *)
BitLength(v) == CHOOSE n \in 0 .. 30 : 2 ^ n > v /\ (n = 0 \/ 2 ^ (n - 1) <= v)

Abs(v) == IF v < 0 THEN -v ELSE v

OrderOf(c) == IF c.family = "BLS12" THEN c.x ^ 4 - c.x ^ 2 + 1
            ELSE 36 * c.x ^ 4 + 36 * c.x ^ 3 + 18 * c.x ^ 2 + 6 * c.x + 1

SixXSq(c) == 6 * c.x ^ 2

(* The reduced lattice basis (-a, c), (-a-c, -a) of BN's G1, and the bound *)
(* on its digits, as gen_params.py emits them.                             *)
LatticeA(c) == 2 * c.x + 1
LatticeC(c) == 6 * c.x ^ 2 + 2 * c.x
LatticeD(c) == LatticeA(c) + LatticeC(c)
LatticeBits(c) == BitLength((LatticeA(c) + LatticeD(c)) \div 2 + 1)

(* What the endomorphisms act as.                                          *)
Phi(c) == IF c.family = "BLS12" THEN -(c.x ^ 2)
          ELSE 36 * c.x ^ 3 + 18 * c.x ^ 2 + 6 * c.x + 1
Psi(c) == IF c.family = "BLS12" THEN c.x ELSE SixXSq(c)

GLV_TOP(bits) == ((bits + 2) \div 2) * 2

(* How a group splits its scalar: digits in base B of digitBits bits, win  *)
(* bits of each a step, from bit top - win down.  BN's G1 takes its digits *)
(* from the lattice instead.                                               *)
Split(ndig, base, digitBits, win, top) ==
  [ndig |-> ndig, base |-> base, digitBits |-> digitBits, win |-> win,
   top |-> top]

PlanOf(c, group) ==
  LET absx == BitLength(Abs(c.x))
      x2 == BitLength(c.x ^ 2)
      six == BitLength(SixXSq(c))
  IN  CASE c.family = "BLS12" /\ group = "G1" ->
             Split(2, c.x ^ 2, x2, 2, GLV_TOP(x2))
        [] c.family = "BLS12" /\ group = "G2" ->
             Split(4, Abs(c.x), absx, 1, absx + 1)
        [] c.family = "BLS12" /\ group = "GT" ->
             Split(4, Abs(c.x), absx, 1, absx + 1)
        [] c.family = "BN" /\ group = "G1" ->
             Split(2, 0, LatticeBits(c), 2, GLV_TOP(LatticeBits(c)))
        [] c.family = "BN" /\ group = "G2" ->
             Split(2, SixXSq(c), six, 2, GLV_TOP(six))
        [] c.family = "BN" /\ group = "GT" ->
             Split(2, SixXSq(c), six, 2, ((six + 2) \div 2) * 2)

Lattice(c, group) == c.family = "BN" /\ group = "G1"

-----------------------------------------------------------------------------
(* glv_divrem reads kbits bits of k and no more.                           *)
glv_divrem(k, kbits, d) ==
  LET bitsRead == k % 2 ^ kbits IN [quo |-> bitsRead \div d, rem |-> bitsRead % d]

(* Two's complement at the double width.                                   *)
Wrap(v) == v % 2 ^ Width
Negative(v) == v >= 2 ^ (Width - 1)

VARIABLES
  pc,                       \* "idle", "reduce", "peel", "points", "ladder",
                            \* "done"
  curve, group,             \* the build, and the routine by its group
  k,                        \* the scalar passed
  tmp, bits,                \* value still to split, and the bits read of it
  d,                        \* digits so far
  neg,                      \* digits whose point is negated (lattice only)
  P,                        \* base points
  acc, pos                  \* the ladder's accumulator and bit position

vars == <<pc, curve, group, k, tmp, bits, d, neg, P, acc, pos>>

plan == PlanOf(curve, group)
r == OrderOf(curve)

Init == /\ pc = "idle" /\ curve \in Seeds /\ group = "G1"
        /\ k = 0 /\ tmp = 0 /\ bits = 0 /\ d = <<>> /\ neg = <<>> /\ P = <<>>
        /\ acc = 0 /\ pos = 0

Call ==
  /\ pc = "idle" /\ pc' = "reduce"
  /\ group' \in {"G1", "G2", "GT"} /\ k' \in Scalars
  /\ UNCHANGED <<curve, tmp, bits, d, neg, P, acc, pos>>

(* tmp = k mod r.                                                          *)
Reduce ==
  /\ pc = "reduce"
  /\ LET orderBits == BitLength(r)
         inbits == Max({ScalarBits, orderBits})
     IN /\ tmp' = glv_divrem(k, inbits, r).rem
        /\ bits' = orderBits
  /\ pc' = "peel"
  /\ UNCHANGED <<curve, group, k, d, neg, P, acc, pos>>

(* One digit in base B off tmp; the next division reads fewer bits.        *)
ShrinksTooFast(b, digitBits) == b - digitBits      \* variant: no - 1

NextBits(b, digitBits) == Max({b - (digitBits - 1), digitBits})

Peel ==
  /\ pc = "peel" /\ ~Lattice(curve, group) /\ Len(d) < plan.ndig - 1
  /\ LET division == glv_divrem(tmp, bits, plan.base)
     IN d' = Append(d, division.rem) /\ tmp' = division.quo
  /\ bits' = NextBits(bits, plan.digitBits)
  /\ UNCHANGED <<pc, curve, group, k, neg, P, acc, pos>>

LastDigit ==
  /\ pc = "peel" /\ ~Lattice(curve, group) /\ Len(d) = plan.ndig - 1
  /\ d' = Append(d, tmp)
  /\ neg' = [n \in 1 .. plan.ndig |-> FALSE]
  /\ pc' = "points"
  /\ UNCHANGED <<curve, group, k, tmp, bits, P, acc, pos>>

(* q1 = round(k a / r), q2 = round(k c / r); the digits are signed, and a  *)
(* negative one is negated with its point.                                 *)
RoundNumerator(c, entry) == Wrap(Wrap(2 * tmp * entry) + OrderOf(c))

Rounded(c, entry) ==
  glv_divrem(RoundNumerator(c, entry),
             BitLength(OrderOf(c)) + BitLength(entry) + 1, 2 * OrderOf(c)).quo

BabaiRound ==
  /\ pc = "peel" /\ Lattice(curve, group)
  /\ LET a == LatticeA(curve)
         c == LatticeC(curve)
         q1 == Rounded(curve, a)
         q2 == Rounded(curve, c)
         e1 == Wrap(tmp - q1 * a - q2 * LatticeD(curve))
         e2 == Wrap(q1 * c - q2 * a)
         magnitude(e) == IF Negative(e) THEN Wrap(-e) ELSE e
     IN /\ d' = <<magnitude(e1), magnitude(e2)>>
        /\ neg' = <<Negative(e1), Negative(e2)>>
  /\ pc' = "points"
  /\ UNCHANGED <<curve, group, k, tmp, bits, P, acc, pos>>

-----------------------------------------------------------------------------
(* [B^i]P for each digit.  Where an eigenvalue is negative the point is    *)
(* negated: phi on BLS12's G1, the odd powers of psi when x < 0.           *)
SignedBy(flag, point) == (IF flag THEN -point ELSE point) % r

OddAndNegative(i) == curve.family = "BLS12" /\ curve.x < 0 /\ i % 2 = 1

BasePoints ==
  IF group = "G1"
  THEN <<1, SignedBy(curve.family = "BLS12", Phi(curve))>>
  ELSE [i \in 1 .. plan.ndig |->
          SignedBy(OddAndNegative(i - 1), Psi(curve) ^ (i - 1))]

Points ==
  /\ pc = "points"
  /\ P' = [i \in 1 .. plan.ndig |-> SignedBy(neg[i], BasePoints[i])]
  /\ acc' = 0 /\ pos' = plan.top
  /\ pc' = "ladder"
  /\ UNCHANGED <<curve, group, k, tmp, bits, d, neg>>

(* glv_ladder2: entry j is [j & 3]P[1] + [j >> 2]P[2], filled by additions.*)
Ladder2Table ==
  LET tbl[j \in 0 .. 15] ==
        CASE j = 0 -> 0
          [] j = 1 -> P[1]
          [] j = 2 -> (2 * P[1]) % r
          [] j = 3 -> (tbl[2] + P[1]) % r
          [] j > 3 -> (tbl[j - 4] + P[2]) % r
  IN  tbl

(* The index bits of a table of ndig digits of win bits: bit b weighs the  *)
(* base point of digit b / win by 2 to the b % win.                        *)
WeightIgnored(b) == P[b \div plan.win + 1]      \* variant: never squared

BitFactor(b) == (2 ^ (b % plan.win) * P[b \div plan.win + 1]) % r

LowestBit(j) == CHOOSE b \in 0 .. j : j % 2 ^ (b + 1) = 2 ^ b

(* An entry is the entry without its lowest bit, plus that bit's factor.   *)
BitTable ==
  LET tbl[j \in 0 .. 2 ^ (Len(P) * plan.win) - 1] ==
        IF j = 0 THEN 0
        ELSE LET b == LowestBit(j)
             IN  (tbl[j - 2 ^ b] + BitFactor(b)) % r
  IN  tbl

Table == IF plan.win = 2 /\ group # "GT" THEN Ladder2Table ELSE BitTable

(* win bits of every digit at bit position b, packed into a table index.   *)
Window(b) ==
  MapThenSumSet(LAMBDA i : ((d[i] \div 2 ^ b) % 2 ^ plan.win) *
                             2 ^ ((i - 1) * plan.win),
                1 .. plan.ndig)

LadderStep ==
  /\ pc = "ladder" /\ pos > 0
  /\ pos' = pos - plan.win
  /\ acc' = (2 ^ plan.win * acc + Table[Window(pos')]) % r
  /\ UNCHANGED <<pc, curve, group, k, tmp, bits, d, neg, P>>

Return == /\ pc = "ladder" /\ pos = 0 /\ pc' = "done"
          /\ UNCHANGED <<curve, group, k, tmp, bits, d, neg, P, acc, pos>>

Collect ==
  /\ pc = "done" /\ pc' = "idle" /\ group' = "G1" /\ k' = 0
  /\ tmp' = 0 /\ bits' = 0 /\ d' = <<>> /\ neg' = <<>> /\ P' = <<>>
  /\ acc' = 0 /\ pos' = 0
  /\ UNCHANGED curve

Work == \/ Reduce \/ Peel \/ LastDigit \/ BabaiRound \/ Points \/ LadderStep
        \/ Return

Next == Call \/ Work \/ Collect

Spec == Init /\ [][Next]_vars /\ WF_vars(Work)

-----------------------------------------------------------------------------
(* No step loses bits of the scalar: no division reads fewer bits than its *)
(* dividend has, though the bound shrinks with every digit (ec.c:267), and *)
(* the ladder is long enough for every digit, also for the last one, which *)
(* is a quotient and not a remainder (ec.c:226 and ec.c:271).              *)
NothingIsTruncated ==
  /\ (pc = "peel" /\ ~Lattice(curve, group) /\ Len(d) < plan.ndig - 1) =>
       tmp < 2 ^ bits
  /\ pc = "ladder" => \A i \in DOMAIN d : d[i] < 2 ^ plan.top

-----------------------------------------------------------------------------
Multiplication ==
  INSTANCE ScalarMul WITH
    phase <- CASE pc = "idle" -> "idle" [] pc = "done" -> "done"
               [] OTHER -> "busy",
    scalar <- k, order <- r

(* Every routine computes [k]P, for every group and family.                *)
ImplementsMultiplication == Multiplication!Spec
=============================================================================
