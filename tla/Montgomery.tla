----------------------------- MODULE Montgomery ------------------------------
(***************************************************************************)
(* Interleaved Montgomery multiplication, the algorithm of fp_mul, over    *)
(* the integers: each round takes one digit of the multiplier, adds that   *)
(* multiple of x and the multiple of p that makes the sum divisible by the *)
(* base, and divides.  scale is the power of the base divided by so far,   *)
(* used the part of the multiplier taken, and q the multiple of p added:   *)
(* ghosts that say what t stands for.  MontField implements it limb by     *)
(* limb, with carries, three times.                                        *)
(***************************************************************************)
EXTENDS Integers, TLAPS

VARIABLES
  phase,                \* "idle", "busy" or "done"
  base, p, x,           \* the radix, the modulus, the multiplicand
  t,                    \* the accumulator, then the result
  used, scale, q

vars == <<phase, base, p, x, t, used, scale, q>>

Init == /\ phase = "idle" /\ base = 1 /\ p = 1 /\ x = 0
        /\ t = 0 /\ used = 0 /\ scale = 1 /\ q = 0

Start == /\ phase = "idle" /\ phase' = "busy"
         /\ base' \in Nat \ {0} /\ p' \in Nat \ {0} /\ x' \in Nat /\ x' < p'
         /\ t' = 0 /\ used' = 0 /\ scale' = 1 /\ q' = 0

(* The digit d of the multiplier, and the m that clears the low digit.     *)
Sum(d, m) == t + x * d + m * p

Round(d, m) ==
  /\ phase = "busy" /\ phase' = "busy"
  /\ Sum(d, m) % base = 0
  /\ t' = Sum(d, m) \div base
  /\ used' = used + d * scale /\ q' = q + m * scale /\ scale' = base * scale
  /\ UNCHANGED <<base, p, x>>

(* One conditional subtraction, and no more.                               *)
Finish == /\ phase = "busy" /\ phase' = "done"
          /\ IF t >= p THEN t' = t - p /\ q' = q - scale ELSE UNCHANGED <<t, q>>
          /\ UNCHANGED <<base, p, x, used, scale>>

Collect == /\ phase = "done" /\ phase' = "idle" /\ base' = 1 /\ p' = 1 /\ x' = 0
           /\ t' = 0 /\ used' = 0 /\ scale' = 1 /\ q' = 0

Next == \/ Start
        \/ \E d, m \in 0 .. base - 1 : Round(d, m)
        \/ Finish \/ Collect

Ends == phase = "busy" /\ phase' = "done"

Spec == Init /\ [][Next]_vars /\ WF_phase(Ends)

-----------------------------------------------------------------------------
TypeOK == /\ phase \in {"idle", "busy", "done"}
          /\ base \in Nat \ {0} /\ p \in Nat \ {0} /\ x \in Nat /\ t \in Nat
          /\ used \in Nat /\ scale \in Nat /\ q \in Int

(* What t stands for, at every round: t is x * used / scale modulo p.      *)
Represents == t * scale = x * used + q * p

(* Below 2p before the subtraction, canonical after it.                    *)
Bounded == x < p /\ t < (IF phase = "done" THEN p ELSE 2 * p)

IsTheProduct == Represents /\ Bounded

-----------------------------------------------------------------------------
IInv == TypeOK /\ IsTheProduct

LEMMA ProductMonotone ==
  ASSUME NEW a \in Nat, NEW b \in Nat, NEW c \in Nat, NEW d \in Nat,
         a <= b, c <= d
  PROVE  a * c <= b * d
<1>1. a * c <= b * c  OBVIOUS
<1>2. b * c <= b * d  OBVIOUS
<1>3. a * c \in Nat /\ b * c \in Nat /\ b * d \in Nat  OBVIOUS
<1>. QED  BY <1>1, <1>2, <1>3

(* A round keeps the accumulator below twice the modulus.                  *)
LEMMA SumIsBounded ==
  ASSUME NEW B \in Nat \ {0}, NEW P \in Nat \ {0}, NEW X \in Nat, X < P,
         NEW T \in Nat, T < 2 * P, NEW d \in 0 .. B - 1, NEW m \in 0 .. B - 1
  PROVE  /\ T + X * d + m * P \in Nat
         /\ T + X * d + m * P < (2 * P) * B
<1>1. X * d <= (P - 1) * (B - 1)
  BY ProductMonotone, P - 1 \in Nat, B - 1 \in Nat, X <= P - 1, d <= B - 1, d \in Nat
<1>2. m * P <= (B - 1) * P
  BY ProductMonotone, B - 1 \in Nat, m <= B - 1, m \in Nat, P <= P, P \in Nat
<1>3. (P - 1) * (B - 1) = P * B - P - B + 1  OBVIOUS
<1>4. (B - 1) * P = P * B - P  OBVIOUS
<1>5. (2 * P) * B = 2 * (P * B)  OBVIOUS
<1>6. P * B \in Nat /\ X * d \in Nat /\ m * P \in Nat  OBVIOUS
<1>. QED  BY <1>1, <1>2, <1>3, <1>4, <1>5, <1>6

LEMMA ExactQuotient ==
  ASSUME NEW B \in Nat \ {0}, NEW z \in Nat, NEW c \in Nat, z % B = 0, z < c * B
  PROVE  z \div B \in Nat /\ (z \div B) * B = z /\ z \div B < c
<1>. DEFINE w == z \div B
<1>1. w \in Nat /\ z = B * w + (z % B)  OBVIOUS
<1>2. w * B = z  BY <1>1
<1>3. w < c
  <2>1. SUFFICES ASSUME w >= c PROVE FALSE  BY <1>1
  <2>2. c * B <= w * B  BY <2>1, <1>1, ProductMonotone, B <= B, B \in Nat
  <2>3. w * B \in Nat /\ c * B \in Nat  BY <1>1
  <2>. QED  BY <2>2, <2>3, <1>2
<1>. QED  BY <1>1, <1>2, <1>3

(* What the round does to the equation t * scale = x * used + q * p, in    *)
(* the products it is made of.                                             *)
LEMMA Distribute ==
  ASSUME NEW P \in Nat, NEW X \in Nat, NEW T \in Nat, NEW U \in Nat,
         NEW S \in Nat, NEW Q \in Int, NEW d \in Nat, NEW m \in Nat
  PROVE  /\ (T + X * d + m * P) * S = T * S + (X * d) * S + (m * P) * S
         /\ X * (U + d * S) = X * U + (X * d) * S
         /\ (Q + m * S) * P = Q * P + (m * P) * S
         /\ X * U \in Nat /\ Q * P \in Int
         /\ (X * d) * S \in Nat /\ (m * P) * S \in Nat
<1>1. (T + X * d + m * P) * S = T * S + (X * d) * S + (m * P) * S  OBVIOUS
<1>2. X * (U + d * S) = X * U + (X * d) * S  OBVIOUS
<1>3. (Q + m * S) * P = Q * P + (m * P) * S  OBVIOUS
<1>4. /\ X * U \in Nat /\ Q * P \in Int
      /\ (X * d) * S \in Nat /\ (m * P) * S \in Nat
  OBVIOUS
<1>. QED  BY <1>1, <1>2, <1>3, <1>4

LEMMA Associate ==
  ASSUME NEW T \in Nat, NEW B \in Nat, NEW S \in Nat
  PROVE  T * (B * S) = (T * B) * S
OBVIOUS

LEMMA ConstantsAreTyped == 0 \in Nat /\ 1 \in Nat /\ 0 \in Int
OBVIOUS

LEMMA TwiceIsPositive == ASSUME NEW P \in Nat \ {0} PROVE 0 < 2 * P
OBVIOUS

LEMMA NothingUsed ==
  ASSUME NEW X \in Nat, NEW P \in Nat PROVE 0 * 1 = X * 0 + 0 * P
OBVIOUS

LEMMA OneLess ==
  ASSUME NEW P \in Nat, NEW T \in Nat, NEW S \in Nat, NEW X \in Nat,
         NEW U \in Nat, NEW Q \in Int, T * S = X * U + Q * P
  PROVE  (T - P) * S = X * U + (Q - S) * P
<1>1. (T - P) * S = T * S - S * P  OBVIOUS
<1>2. (Q - S) * P = Q * P - S * P  OBVIOUS
<1>3. S * P \in Nat /\ X * U \in Nat /\ Q * P \in Int  OBVIOUS
<1>. QED  BY <1>1, <1>2, <1>3

LEMMA StepIInv == IInv /\ [Next]_vars => IInv'
<1> SUFFICES ASSUME IInv, [Next]_vars PROVE IInv'
  OBVIOUS
<1>. DEFINE Typed == /\ base \in Nat \ {0} /\ p \in Nat \ {0} /\ x \in Nat
                     /\ t \in Nat /\ used \in Nat /\ scale \in Nat /\ q \in Int
<1>0. /\ Typed /\ x < p /\ t * scale = x * used + q * p
      /\ phase = "busy" => t < 2 * p
  BY DEF IInv, TypeOK, IsTheProduct, Represents, Bounded
<1>1. CASE Start
  <2>1. /\ phase' = "busy" /\ base' \in Nat \ {0} /\ p' \in Nat \ {0}
        /\ x' \in Nat /\ x' < p' /\ t' = 0 /\ used' = 0 /\ scale' = 1 /\ q' = 0
    BY <1>1 DEF Start
  <2>2. x' \in Nat /\ p' \in Nat /\ 0 < 2 * p'
    <3>1. p' \in Nat \ {0} /\ x' \in Nat  BY <2>1
    <3>2. p' \in Nat  BY <3>1, Zenon
    <3>. QED  BY <3>1, <3>2, TwiceIsPositive, Zenon
  <2>3. 0 * 1 = x' * 0 + 0 * p'  BY <2>2, NothingUsed, Zenon
  <2>4. Represents'  BY <2>1, <2>3, Zenon DEF Represents
  <2>5. TypeOK'  BY <2>1, Zenon, ConstantsAreTyped DEF TypeOK
  <2>6. Bounded'  BY <2>1, <2>2, Zenon DEF Bounded
  <2>. QED  BY <2>4, <2>5, <2>6 DEF IInv, IsTheProduct
<1>2. ASSUME NEW d \in 0 .. base - 1, NEW m \in 0 .. base - 1, Round(d, m)
      PROVE  IInv'
  <2>1. /\ phase = "busy" /\ phase' = "busy" /\ base' = base /\ p' = p /\ x' = x
        /\ used' = used + d * scale /\ q' = q + m * scale /\ scale' = base * scale
        /\ t' = Sum(d, m) \div base /\ Sum(d, m) % base = 0
    BY <1>2 DEF Round
  <2>2. Sum(d, m) \in Nat /\ Sum(d, m) < (2 * p) * base
    BY <1>0, <2>1, SumIsBounded DEF Sum
  <2>3. 2 * p \in Nat  BY <1>0
  <2>4. t' \in Nat /\ t' * base = Sum(d, m) /\ t' < 2 * p
    BY <1>0, <2>1, <2>2, <2>3, ExactQuotient
  <2>5. d \in Nat /\ m \in Nat /\ base \in Nat /\ p \in Nat  BY <1>0
  <2>6. t' * (base * scale) = x * (used + d * scale) + (q + m * scale) * p
    <3>1. t' * base = t + x * d + m * p  BY <2>4 DEF Sum
    <3>2. t' * (base * scale) = (t' * base) * scale
      BY <1>0, <2>4, <2>5, Associate
    <3>. DEFINE xds == (x * d) * scale
                mps == (m * p) * scale
                xu == x * used
                qp == q * p
    <3>3. /\ (t + x * d + m * p) * scale = t * scale + xds + mps
          /\ x * (used + d * scale) = xu + xds
          /\ (q + m * scale) * p = qp + mps
          /\ xu \in Nat /\ qp \in Int /\ xds \in Nat /\ mps \in Nat
      BY <1>0, <2>5, Distribute
    <3>4. t * scale = xu + qp  BY <1>0
    <3>. HIDE DEF xds, mps, xu, qp
    <3>5. xu + qp + xds + mps = xu + xds + (qp + mps)  BY <3>3
    <3>. QED  BY <3>1, <3>2, <3>3, <3>4, <3>5
  <2>7. used' \in Nat /\ scale' \in Nat /\ q' \in Int  BY <1>0, <2>1, <2>5
  <2>8. Represents'  BY <2>1, <2>6, Zenon DEF Represents
  <2>9. TypeOK' /\ Bounded'  BY <1>0, <2>1, <2>4, <2>7 DEF TypeOK, Bounded
  <2>. QED  BY <2>8, <2>9 DEF IInv, IsTheProduct
<1>3. CASE Finish
  <2>1. /\ phase = "busy" /\ phase' = "done" /\ base' = base /\ p' = p /\ x' = x
        /\ used' = used /\ scale' = scale
    BY <1>3 DEF Finish
  <2>2. CASE t >= p
    <3>1. t' = t - p /\ q' = q - scale  BY <1>3, <2>2 DEF Finish
    <3>2. (t - p) * scale = x * used + (q - scale) * p  BY <1>0, OneLess
    <3>3. Represents'  BY <2>1, <3>1, <3>2 DEF Represents
    <3>4. TypeOK' /\ Bounded'  BY <1>0, <2>1, <2>2, <3>1 DEF TypeOK, Bounded
    <3>. QED  BY <3>3, <3>4 DEF IInv, IsTheProduct
  <2>3. CASE ~(t >= p)
    <3>1. t' = t /\ q' = q  BY <1>3, <2>3 DEF Finish
    <3>2. Represents'  BY <1>0, <2>1, <3>1 DEF Represents
    <3>3. TypeOK' /\ Bounded'  BY <1>0, <2>1, <2>3, <3>1 DEF TypeOK, Bounded
    <3>. QED  BY <3>2, <3>3 DEF IInv, IsTheProduct
  <2>. QED  BY <2>2, <2>3
<1>4. CASE Collect
  <2>1. /\ phase' = "idle" /\ base' = 1 /\ p' = 1 /\ x' = 0
        /\ t' = 0 /\ used' = 0 /\ scale' = 1 /\ q' = 0
    BY <1>4 DEF Collect
  <2>. QED
    BY <2>1 DEF IInv, TypeOK, IsTheProduct, Represents, Bounded
<1>5. CASE UNCHANGED vars
  BY <1>5 DEF vars, IInv, TypeOK, IsTheProduct, Represents, Bounded
<1>. QED  BY <1>1, <1>2, <1>3, <1>4, <1>5 DEF Next

(* For every radix, modulus and pair of operands, one conditional          *)
(* subtraction at the end of fp_mul gives the canonical Montgomery         *)
(* product: fact (1) of fp_mul_x86_64.S, proved.                           *)
THEOREM MontgomeryIsTheProduct == Spec => []IsTheProduct
<1>1. Init => IInv
  BY DEF Init, IInv, TypeOK, IsTheProduct, Represents, Bounded
<1>2. IInv => IsTheProduct  BY DEF IInv
<1>. QED  BY <1>1, <1>2, StepIInv, PTL DEF Spec
=============================================================================
