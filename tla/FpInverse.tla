------------------------------ MODULE FpInverse ------------------------------
(***************************************************************************)
(* The two inversions of fp.c: batched divsteps, a fixed number of batches *)
(* for every operand, and the variable-time binary Euclid, a step at a     *)
(* time.  Both read a Montgomery representative and return one.            *)
(***************************************************************************)
EXTENDS MontField

(* A build also has FP_BITS and FP_INV_FIX.                                *)
INV_K == W - 2
INV_ITERS == 3 * build.FP_BITS
INV_BLOCKS == (INV_ITERS + INV_K - 1) \div INV_K
INV_N == NLIMB + 1

FixesAreLegal ==
  \A c \in Builds :
    LET blocks == (3 * c.FP_BITS + INV_K - 1) \div INV_K
    IN  /\ c.FP_MODULUS \in 2 ^ (c.FP_BITS - 1) .. 2 ^ c.FP_BITS - 1
        /\ c.FP_INV_FIX =
             ((2 ^ ((W - INV_K) * blocks) % c.FP_MODULUS) * c.FP_R2) % c.FP_MODULUS

VARIABLES
  delta, F, G, d, e, batch,     \* fp_inv
  u, v, x1, x2                  \* fp_inv_vartime

divVars == <<delta, F, G, d, e, batch>>
euclidVars == <<u, v, x1, x2>>
inverseVars == <<build, pc, x, result, divVars, euclidVars>>

-----------------------------------------------------------------------------
(* Numbers in two's complement, n limbs.                                   *)
Top(n) == Base ^ n
Negative(a, n) == a >= Top(n) \div 2
Signed(a, n) == IF Negative(a, n) THEN a - Top(n) ELSE a

(* One divstep on the low limbs, and its half of the matrix.               *)
Divstep(s) ==
  LET odd == s.g % 2
  IN  IF odd = 1 /\ s.delta > 0
      THEN [delta |-> 1 - s.delta, f |-> s.g, g |-> ((s.g - s.f) % Base) \div 2,
            u |-> 2 * s.q, v |-> 2 * s.r, q |-> s.q - s.u, r |-> s.r - s.v]
      ELSE [delta |-> 1 + s.delta, f |-> s.f,
            g |-> ((s.g + odd * s.f) % Base) \div 2,
            u |-> 2 * s.u, v |-> 2 * s.v,
            q |-> s.q + odd * s.u, r |-> s.r + odd * s.v]

divsteps(del, f, g) ==
  LET s[k \in 0 .. INV_K] ==
        IF k = 0 THEN [delta |-> del, f |-> f, g |-> g, u |-> 1, v |-> 0,
                       q |-> 0, r |-> 1]
        ELSE Divstep(s[k - 1])
  IN  s[INV_K]

mat_shift(a, A, b, B) ==
  ((a * Signed(A, INV_N) + b * Signed(B, INV_N)) \div 2 ^ INV_K) % Top(INV_N)

(* One Montgomery step on a signed combination, then into [0, p): twice    *)
(* the modulus is added, and it is subtracted while the top bit is clear.  *)
Normalised(acc, p) ==
  LET left[k \in 0 .. 4] ==
        IF k = 0 THEN (acc + 2 * p) % Top(INV_N)
        ELSE LET tmp == (left[k - 1] - p) % Top(INV_N)
             IN  IF Negative(tmp, INV_N) THEN left[k - 1] ELSE tmp
  IN  left[4] % R

redc_lin(a, dd, b, ee) ==
  LET s == a * dd + b * ee
  IN  Normalised(((s + Clearing(s)) \div Base) % Top(INV_N), FP_MODULUS)

-----------------------------------------------------------------------------
InvInit ==
  /\ build \in Builds /\ pc = "idle" /\ x = 0 /\ result = <<>>
  /\ delta = 1 /\ F = 0 /\ G = 0 /\ d = 0 /\ e = 0 /\ batch = 0
  /\ u = 0 /\ v = 0 /\ x1 = 0 /\ x2 = 0

InvStart ==
  /\ pc = "idle" /\ pc' = "divsteps"
  /\ x' \in Fp
  /\ F' = FP_MODULUS /\ G' = fp_to_limbs(x')
  /\ d' = 0 /\ e' = 1 /\ delta' = 1 /\ batch' = 0
  /\ UNCHANGED <<build, result, euclidVars>>

InvBatch ==
  /\ pc = "divsteps" /\ batch < INV_BLOCKS
  /\ LET m == divsteps(delta, F % Base, G % Base)
     IN  /\ delta' = m.delta
         /\ F' = mat_shift(m.u, F, m.v, G) /\ G' = mat_shift(m.q, F, m.r, G)
         /\ d' = redc_lin(m.u, d, m.v, e) /\ e' = redc_lin(m.q, d, m.r, e)
  /\ batch' = batch + 1
  /\ UNCHANGED <<build, pc, x, result, euclidVars>>

InvEnd ==
  /\ pc = "divsteps" /\ batch = INV_BLOCKS /\ pc' = "inverted"
  /\ LET signed == IF Negative(F, INV_N) THEN fp_neg(d) ELSE d
     IN  result' = IF x = 0 THEN 0 ELSE fp_mul(signed, build.FP_INV_FIX)
  /\ UNCHANGED <<build, x, divVars, euclidVars>>

-----------------------------------------------------------------------------
CarryLost(a) == IF a % 2 = 0 THEN a \div 2                    \* variant
                ELSE ((a + FP_MODULUS) % R) \div 2

(* The sum with the modulus may leave the array; its carry is the top bit. *)
half_mod_p(a) ==
  IF a % 2 = 0 THEN a \div 2
  ELSE LET s == add_carry(a, FP_MODULUS) IN s.r \div 2 + s.carry * (R \div 2)

VartimeStart ==
  /\ pc = "idle"
  /\ x' \in Fp
  /\ IF x' = 0
     THEN pc' = "inverted" /\ result' = 0 /\ UNCHANGED euclidVars
     ELSE /\ pc' = "head" /\ u' = x' /\ v' = FP_MODULUS /\ x1' = 1 /\ x2' = 0
          /\ UNCHANGED result
  /\ UNCHANGED <<build, divVars>>

Goto(next) == pc' = next /\ UNCHANGED <<build, x, result, divVars>>

UnitU == u = 1                                                \* variant

Unit == u = 1 \/ v = 1

Head == pc = "head" /\ ~Unit /\ Goto("halve u") /\ UNCHANGED euclidVars

HalveU == /\ pc = "halve u" /\ u % 2 = 0
          /\ u' = u \div 2 /\ x1' = half_mod_p(x1)
          /\ Goto("halve u") /\ UNCHANGED <<v, x2>>

OddU == pc = "halve u" /\ u % 2 = 1 /\ Goto("halve v") /\ UNCHANGED euclidVars

HalveV == /\ pc = "halve v" /\ v % 2 = 0
          /\ v' = v \div 2 /\ x2' = half_mod_p(x2)
          /\ Goto("halve v") /\ UNCHANGED <<u, x1>>

geq(a, b) == a >= b

Subtract ==
  /\ pc = "halve v" /\ v % 2 = 1 /\ Goto("head")
  /\ IF geq(u, v) THEN u' = u - v /\ x1' = fp_sub(x1, x2) /\ UNCHANGED <<v, x2>>
                  ELSE v' = v - u /\ x2' = fp_sub(x2, x1) /\ UNCHANGED <<u, x1>>

VartimeEnd ==
  /\ pc = "head" /\ Unit /\ pc' = "inverted"
  /\ LET inverse == IF u = 1 THEN x1 ELSE x2
     IN  result' = fp_mul(fp_mul(inverse, build.FP_R2), build.FP_R2)
  /\ UNCHANGED <<build, x, divVars, euclidVars>>

(* The caller takes the inverse; the locals are gone.                      *)
Return == /\ pc = "inverted" /\ pc' = "idle" /\ x' = 0 /\ result' = <<>>
          /\ delta' = 1 /\ F' = 0 /\ G' = 0 /\ d' = 0 /\ e' = 0 /\ batch' = 0
          /\ u' = 0 /\ v' = 0 /\ x1' = 0 /\ x2' = 0
          /\ UNCHANGED build

Euclid == Head \/ HalveU \/ OddU \/ HalveV \/ Subtract \/ VartimeEnd
InvNext == InvStart \/ InvBatch \/ InvEnd \/ VartimeStart \/ Euclid \/ Return

-----------------------------------------------------------------------------
Power(k) == (2 ^ k) % FP_MODULUS                       \* k stays below 31

(* F and G are what the matrices make of p and a, and d and e are F and G  *)
(* over a, with the two powers of two that FP_INV_FIX makes up for; the    *)
(* next matrix has entries that mat_shift can add up in a double limb.     *)
BatchIsExact ==
  LET p == FP_MODULUS
      a == fp_to_limbs(x)
      off == Power((W - INV_K) * batch)
      m == divsteps(delta, F % Base, G % Base)
      abs(z) == IF z < 0 THEN -z ELSE z
  IN  /\ F % 2 = 1 /\ d \in Fp /\ e \in Fp
      /\ Signed(F, INV_N) % p = (((d * a) % p) * off) % p
      /\ Signed(G, INV_N) % p = (((e * a) % p) * off) % p
      /\ abs(m.u) + abs(m.v) <= 2 ^ INV_K /\ abs(m.q) + abs(m.r) <= 2 ^ INV_K
      /\ batch = INV_BLOCKS => G = 0

EuclidIsExact ==
  /\ x1 \in Fp /\ x2 \in Fp
  /\ (x1 * x) % FP_MODULUS = u % FP_MODULUS
  /\ (x2 * x) % FP_MODULUS = v % FP_MODULUS

(***************************************************************************)
(* Both inversions return the canonical Montgomery form of the inverse, of *)
(* every element, and zero for zero: 3 * FP_BITS divsteps are enough to    *)
(* bring G to zero, whatever the operand, with no test that it is.         *)
(***************************************************************************)
InverseIsExact ==
  /\ pc = "divsteps" => BatchIsExact
  /\ pc \in {"head", "halve u", "halve v"} => EuclidIsExact
  /\ pc = "inverted" =>
       IF x = 0 THEN result = 0
       ELSE result \in Fp /\ (result * x) % FP_MODULUS = build.FP_R2

(* The loop of fp_inv_vartime has no bound: it ends because the odd        *)
(* modulus is prime, so that neither u nor v can reach zero.               *)
EuclidEnds == pc = "head" ~> pc = "inverted"
=============================================================================
