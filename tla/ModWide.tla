------------------------------- MODULE ModWide -------------------------------
(***************************************************************************)
(* elips_mod_wide of arith/wide.c: w mod m in place, w of nn limbs and m   *)
(* of dn, by binary long division with one masked subtraction per bit and  *)
(* an accumulator one limb wider than the modulus.                         *)
(***************************************************************************)
EXTENDS Limbs

CONSTANTS
  WideMax,                          \* WIDE_MAX, 2 * FP_LIMBS + 2
  Inputs                            \* the arguments [w, nn, m, dn]

(* What the three callers guarantee: a modulus with a non-zero top limb.   *)
InputsAreLegal ==
  \A v \in Inputs : /\ DOMAIN v.w = 0 .. v.nn - 1
                    /\ v.dn >= 1 => /\ DOMAIN v.m = 0 .. v.dn - 1
                                    /\ v.m[v.dn - 1] # 0

VARIABLES
  pc,                               \* "idle", "loop" or "done"
  input,                            \* the arguments, as passed
  w,                                \* the caller's array
  acc,                              \* limbs 0 .. dn of the accumulator
  bit,                              \* bits of w still to shift in
  quo                               \* history: the quotient's bits so far

vars == <<pc, input, w, acc, bit, quo>>

NoInput == [w |-> <<>>, nn |-> 0, m |-> <<>>, dn |-> 0]
nn == input.nn
dn == input.dn

Init == /\ pc = "idle" /\ input = NoInput /\ w = <<>> /\ acc = <<>>
        /\ bit = 0 /\ quo = 0

-----------------------------------------------------------------------------
(* Widths outside the buffers: the result is zero.                         *)
Unusable(v) == v.nn > WideMax \/ v.dn < 1 \/ v.dn > v.nn

(* The top dn - 1 limbs of w are below m and are read all at once.         *)
Seed(v) == v.dn - 1

SeededAcc(v) == LET seed == Seed(v)
                IN  [j \in 0 .. v.dn |->
                       IF j < seed THEN v.w[v.nn - seed + j] ELSE 0]

Call ==
  /\ pc = "idle"
  /\ \E v \in Inputs :
       /\ input' = v
       /\ \/ /\ Unusable(v)
             /\ w' = Zeros(v.nn) /\ pc' = "done"
             /\ UNCHANGED <<acc, bit>>
          \/ /\ ~Unusable(v)
             /\ w' = v.w /\ pc' = "loop"
             /\ acc' = SeededAcc(v)
             /\ bit' = (v.nn - Seed(v)) * W
  /\ UNCHANGED quo

(* m as the subtraction reads it: limb dn is zero.                         *)
Modulus == [j \in 0 .. dn |-> IF j < dn THEN input.m[j] ELSE 0]

(* Shift in the next bit, then keep the difference unless it borrowed.     *)
AccNarrow(a) == [a EXCEPT ![dn] = 0]     \* variant: acc has dn limbs only

AccWide(a) == a

ReduceBit ==
  /\ pc = "loop" /\ bit > 0
  /\ LET shifted == AccWide(glv_shl1(acc, BitAt(w, bit - 1)))
         keep == BorrowOut(shifted, Modulus) = 1
     IN /\ acc' = Select(keep, shifted, glv_sub(shifted, Modulus))
        /\ quo' = 2 * quo + IF keep THEN 0 ELSE 1
  /\ bit' = bit - 1
  /\ UNCHANGED <<pc, input, w>>

(* The remainder takes the low dn limbs; the rest are cleared.             *)
WriteBack ==
  /\ pc = "loop" /\ bit = 0
  /\ w' = [j \in 0 .. nn - 1 |-> IF j < dn THEN acc[j] ELSE 0]
  /\ pc' = "done"
  /\ UNCHANGED <<input, acc, bit, quo>>

Collect == /\ pc = "done" /\ pc' = "idle" /\ input' = NoInput
           /\ w' = <<>> /\ acc' = <<>> /\ bit' = 0 /\ quo' = 0

Next == Call \/ ReduceBit \/ WriteBack \/ Collect

(* The loop is bounded and nothing in it waits.                            *)
Spec == Init /\ [][Next]_vars /\ WF_vars(ReduceBit \/ WriteBack)

-----------------------------------------------------------------------------
-----------------------------------------------------------------------------
(* The loop is long division of the dividend as it was passed.  A call     *)
(* with unusable widths divides nothing and is hidden.                     *)
Busy == pc # "idle" /\ ~Unusable(input)

Division ==
  INSTANCE LongDivision WITH
    phase <- CASE Busy /\ pc = "loop" -> "busy"
               [] Busy /\ pc = "done" -> "done"
               [] OTHER -> "idle",
    den <- IF Busy THEN ValueOf(input.m) ELSE 1,
    rem <- CASE Busy /\ pc = "loop" -> ValueOf(acc)
             [] Busy /\ pc = "done" -> ValueOf(w)
             [] OTHER -> 0,
    quo <- IF Busy THEN quo ELSE 0,
    read <- IF Busy THEN ValueOf(input.w) \div 2 ^ bit ELSE 0

ImplementsDivision == Division!Spec
=============================================================================
