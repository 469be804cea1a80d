----------------------------- MODULE LongDivision ----------------------------
(***************************************************************************)
(* Binary long division, the algorithm behind elips_mod_wide and           *)
(* glv_divrem, over the integers: the dividend comes in one bit at a time, *)
(* most significant first, and each step shifts the remainder and takes    *)
(* the divisor away at most once.  read is the part of the dividend        *)
(* already read.  ModWide and GlvDivrem, which work limb by limb with      *)
(* carries and borrows, implement it.                                      *)
(***************************************************************************)
EXTENDS Integers, TLAPS

VARIABLES
  phase,                \* "idle", "busy" or "done"
  den,                  \* the divisor
  read,                 \* the dividend's leading bits, as a number
  quo, rem              \* quotient and remainder so far

vars == <<phase, den, read, quo, rem>>

Init == phase = "idle" /\ den = 1 /\ read = 0 /\ quo = 0 /\ rem = 0

(* Leading bits whose value is below the divisor can be read at once: they *)
(* are their own remainder.                                                *)
Start ==
  /\ phase = "idle" /\ phase' = "busy"
  /\ den' \in Nat \ {0}
  /\ read' \in Nat /\ read' < den'
  /\ quo' = 0 /\ rem' = read'

Shifted(bit) == 2 * rem + bit
Fits(bit) == Shifted(bit) >= den

ReadBit(bit) ==
  /\ phase = "busy" /\ phase' = "busy"
  /\ read' = 2 * read + bit
  /\ rem' = IF Fits(bit) THEN Shifted(bit) - den ELSE Shifted(bit)
  /\ quo' = IF Fits(bit) THEN 2 * quo + 1 ELSE 2 * quo
  /\ UNCHANGED den

Finish == phase = "busy" /\ phase' = "done" /\ UNCHANGED <<den, read, quo, rem>>

Collect == /\ phase = "done" /\ phase' = "idle"
           /\ den' = 1 /\ read' = 0 /\ quo' = 0 /\ rem' = 0

Next == Start \/ (\E bit \in {0, 1} : ReadBit(bit)) \/ Finish \/ Collect

(* A division ends.                                                        *)
Ends == phase = "busy" /\ phase' = "done"

Spec == Init /\ [][Next]_vars /\ WF_phase(Ends)

-----------------------------------------------------------------------------
TypeOK == /\ phase \in {"idle", "busy", "done"}
          /\ den \in Nat \ {0} /\ read \in Nat /\ quo \in Nat /\ rem \in Nat

(* What division means, at every step and not only at the end.             *)
Divides == read = quo * den + rem /\ rem < den

-----------------------------------------------------------------------------
(* One conditional subtraction per bit is enough, for every divisor and    *)
(* every dividend.                                                         *)
IInv == TypeOK /\ Divides

(* One step of the division, as plain arithmetic.                          *)
LEMMA OneSubtraction ==
  ASSUME NEW d \in Nat \ {0}, NEW r \in Nat, r < d, NEW b \in {0, 1}
  PROVE  /\ 2 * r + b >= d => 2 * r + b - d \in Nat /\ 2 * r + b - d < d
         /\ 2 * r + b \in Nat
OBVIOUS

LEMMA StepDivides ==
  ASSUME NEW d \in Nat, NEW q \in Nat, NEW r \in Nat, NEW b \in {0, 1}
  PROVE  /\ 2 * (q * d + r) + b = (2 * q) * d + (2 * r + b)
         /\ 2 * (q * d + r) + b = (2 * q + 1) * d + (2 * r + b - d)
<1>1. q * d \in Nat  OBVIOUS
<1>2. (2 * q) * d = 2 * (q * d)  OBVIOUS
<1>3. (2 * q + 1) * d = 2 * (q * d) + d  OBVIOUS
<1>. QED  BY <1>1, <1>2, <1>3

LEMMA NothingRead ==
  ASSUME NEW d \in Nat, NEW r \in Nat PROVE r = 0 * d + r
OBVIOUS

LEMMA StepIInv == IInv /\ [Next]_vars => IInv'
<1> SUFFICES ASSUME IInv, [Next]_vars PROVE IInv'
  OBVIOUS
<1> USE DEF IInv, TypeOK, Divides
<1>1. CASE Start
  <2>1. TypeOK' /\ rem' < den' /\ read' = rem' /\ quo' = 0
    BY <1>1 DEF Start
  <2>2. rem' = 0 * den' + rem'
    <3>1. den' \in Nat /\ rem' \in Nat  BY <2>1
    <3>. QED  BY <3>1, NothingRead, Zenon
  <2>3. read' = quo' * den' + rem'  BY <2>1, <2>2, Zenon
  <2>. QED  BY <2>1, <2>3, Zenon
<1>2. ASSUME NEW bit \in {0, 1}, ReadBit(bit) PROVE IInv'
  <2>1. CASE Fits(bit)
    <3>1. rem' \in Nat /\ rem' < den
      BY <1>2, <2>1, OneSubtraction DEF ReadBit, Fits, Shifted
    <3>2. read' = (2 * quo + 1) * den + rem'
      BY <1>2, <2>1, StepDivides DEF ReadBit, Shifted
    <3>3. quo' = 2 * quo + 1 /\ den' = den /\ phase' = "busy" /\ read' \in Nat
      BY <1>2, <2>1 DEF ReadBit
    <3>4. read' = quo' * den' + rem'  BY <3>2, <3>3
    <3>5. TypeOK'  BY <3>1, <3>3
    <3>. QED  BY <3>1, <3>3, <3>4, <3>5
  <2>2. CASE ~Fits(bit)
    <3>1. rem' \in Nat /\ rem' < den
      BY <1>2, <2>2 DEF ReadBit, Fits, Shifted
    <3>2. read' = (2 * quo) * den + rem'
      BY <1>2, <2>2, StepDivides DEF ReadBit, Shifted
    <3>3. quo' = 2 * quo /\ den' = den /\ phase' = "busy" /\ read' \in Nat
      BY <1>2, <2>2 DEF ReadBit
    <3>4. read' = quo' * den' + rem'  BY <3>2, <3>3
    <3>5. TypeOK'  BY <3>1, <3>3
    <3>. QED  BY <3>1, <3>3, <3>4, <3>5
  <2>. QED  BY <2>1, <2>2
<1>3. CASE Finish
  BY <1>3 DEF Finish
<1>4. CASE Collect
  BY <1>4 DEF Collect
<1>5. CASE UNCHANGED vars
  BY <1>5 DEF vars
<1>. QED  BY <1>1, <1>2, <1>3, <1>4, <1>5 DEF Next

(* Types, for every divisor and dividend.                                  *)
THEOREM LongDivisionTypeCorrect == Spec => []TypeOK
<1>1. Init => IInv  BY DEF Init, IInv, TypeOK, Divides
<1>2. IInv => TypeOK  BY DEF IInv
<1>. QED  BY <1>1, <1>2, StepIInv, PTL DEF Spec

(* The invariant the comment at wide.c:67 relies on: after every bit the   *)
(* remainder is below the divisor and quotient and remainder account for   *)
(* every bit read, so one subtraction per bit never falls behind.          *)
THEOREM LongDivisionDivides == Spec => []Divides
<1>1. Init => IInv  BY DEF Init, IInv, TypeOK, Divides
<1>2. IInv => Divides  BY DEF IInv
<1>. QED  BY <1>1, <1>2, StepIInv, PTL DEF Spec
=============================================================================
