------------------------------ MODULE GlvScalar ------------------------------
(***************************************************************************)
(* The constant-time scalar arithmetic of arith/glv_scalar.h: glv_divrem   *)
(* bit by bit, and the straight-line routines in one step, on arrays of N  *)
(* limbs.                                                                  *)
(***************************************************************************)
EXTENDS Limbs

CONSTANTS
  N,                                 \* limbs, n in the code
  Divisions,                         \* arguments <<k, kbits, d>> of glv_divrem
  Operands                           \* arguments <<a, b>> of the others

(* What the callers in ec.c and fpx.c guarantee: kbits bounds k, and the   *)
(* remainder, doubled, still fits in N limbs.                              *)
ASSUME DivisionsAssumption ==
  \A v \in Divisions : /\ v.d \in 1 .. 2 ^ (W * N - 1)
                       /\ v.kbits \in 1 .. W * N
                       /\ v.k \in 0 .. 2 ^ v.kbits - 1

VARIABLES
  pc,                                \* "idle", "divrem", "divided", "computed"
  k, d,                              \* arguments
  q, rem,                            \* outputs
  i,                                 \* bits of k still to read
  result                             \* of a straight-line routine

vars == <<pc, k, d, q, rem, i, result>>

Init == /\ pc = "idle" /\ i = 0
        /\ k = Zeros(N) /\ d = LimbsOf(1, N)
        /\ q = Zeros(N) /\ rem = Zeros(N) /\ result = <<>>

DivremStart ==
  /\ pc = "idle" /\ pc' = "divrem"
  /\ \E v \in Divisions : /\ k' = LimbsOf(v.k, N) /\ d' = LimbsOf(v.d, N)
                          /\ i' = v.kbits
  /\ q' = Zeros(N) /\ rem' = Zeros(N)
  /\ UNCHANGED result

(* rem >= d after the shift, told by the borrow of the trial subtraction.  *)
NoBorrow(r, dd) == BorrowOut(r, dd) = 0

DivremBit ==
  /\ pc = "divrem" /\ i > 0
  /\ LET shifted == glv_shl1(rem, BitAt(k, i - 1))
         mask == NoBorrow(shifted, d)
     IN /\ rem' = Select(mask, glv_sub(shifted, d), shifted)
        /\ q' = [q EXCEPT ![(i - 1) \div W] =
                   IF mask THEN @ + 2 ^ ((i - 1) % W) ELSE @]
  /\ i' = i - 1
  /\ UNCHANGED <<pc, k, d, result>>

DivremEnd == /\ pc = "divrem" /\ i = 0 /\ pc' = "divided"
             /\ UNCHANGED <<k, d, q, rem, i, result>>

(* random.c asks the same of a scalar: k < r, told by the borrow of k - r. *)
elips_scalar_is_reduced(kk, r) == BorrowOut(kk, r) = 1

(* The routines that run without a loop over bits.                         *)
Compute ==
  /\ pc = "idle" /\ pc' = "computed"
  /\ \E v \in Operands :
       result' = [a |-> v[1], b |-> v[2],
                  sum |-> glv_add(v[1], v[2]), carry |-> CarryOut(v[1], v[2]),
                  difference |-> glv_sub(v[1], v[2]),
                  borrow |-> BorrowOut(v[1], v[2]),
                  reduced |-> elips_scalar_is_reduced(v[1], v[2]),
                  product |-> glv_mul(v[1], v[2]),
                  negated |-> glv_cneg(v[1], TRUE),
                  kept |-> glv_cneg(v[1], FALSE)]
  /\ UNCHANGED <<k, d, q, rem, i>>

(* The caller takes the results and goes on.                               *)
Collect == /\ pc \in {"divided", "computed"} /\ pc' = "idle"
           /\ k' = Zeros(N) /\ d' = LimbsOf(1, N)
           /\ q' = Zeros(N) /\ rem' = Zeros(N) /\ result' = <<>>
           /\ UNCHANGED i

Next == DivremStart \/ DivremBit \/ DivremEnd \/ Compute \/ Collect

(* The loops are bounded and nothing in them waits.                        *)
Spec == Init /\ [][Next]_vars /\ WF_vars(DivremBit \/ DivremEnd)

-----------------------------------------------------------------------------
(* The chains over limbs compute with the integers, modulo 2^(W N) where   *)
(* the code drops the carry: what callers rely on when they subtract past  *)
(* zero and read the sign off the top bit (ec.c:439); and a scalar is      *)
(* reduced exactly when it is below the order (random.c:53).               *)
LimbChainsAreExact ==
  pc = "computed" =>
    LET modulus == Base ^ N
        a == ValueOf(result.a)
        b == ValueOf(result.b)
    IN  /\ ValueOf(result.sum) + modulus * result.carry = a + b
        /\ ValueOf(result.difference) = a - b + modulus * result.borrow
        /\ result.reduced = (a < b)
        /\ ValueOf(result.product) = (a * b) % modulus
        /\ ValueOf(result.negated) = (-a) % modulus
        /\ result.kept = result.a

-----------------------------------------------------------------------------
(* glv_divrem is long division: at every bit, for every k and d.           *)
Division ==
  INSTANCE LongDivision WITH
    phase <- CASE pc = "divrem" -> "busy" [] pc = "divided" -> "done"
               [] OTHER -> "idle",
    den <- ValueOf(d), quo <- ValueOf(q) \div 2 ^ i, rem <- ValueOf(rem),
    read <- ValueOf(k) \div 2 ^ i

ImplementsDivision == Division!Spec
=============================================================================
