---------------------------- MODULE MCScalarArith ----------------------------
(***************************************************************************)
(* The arithmetic on limbs, one call at a time: glv_divrem on three limbs  *)
(* of two bits, with every k and d that the callers' widths allow and the  *)
(* straight-line routines for every pair of operands; elips_mod_wide for   *)
(* every dividend of one to three limbs, every modulus of one or two, and  *)
(* widths that are refused; the field of fp.c and the lazily reduced tower *)
(* on the same limbs, in six builds; and the inversions, whose batches     *)
(* need wider limbs, on two of four bits in three.                         *)
(***************************************************************************)
EXTENDS GlvScalar, Sequences

CONSTANTS WideMax, Inputs, FieldBuilds, InverseBuilds

VARIABLES
  part,         \* which of the four divides, multiplies or inverts
  wpc, input, w, acc, bit, quo,                                 \* ModWide
  fpc, fbuild, fx, fy, fi, ft, fresult,                         \* WideTower
  ipc, ibuild, ix, iresult, delta, F, G, dd, ee, batch, u, v, x1, x2

wideVars == <<wpc, input, w, acc, bit, quo>>
towerVars == <<fpc, fbuild, fx, fy, fi, ft, fresult>>
inverseVars == <<ipc, ibuild, ix, iresult, delta, F, G, dd, ee, batch,
                 u, v, x1, x2>>

(* The first and the last elements, and a line of others.                  *)
Corners(p) == {0, 1, p - 1}
Fp2Pairs(p) ==
  LET P == (Corners(p) \X Corners(p)) \cup {<<a, (5 * a + 3) % p>> : a \in 0 .. p - 1}
  IN  P \X P

Largest(p) == <<p - 1, p - 1>>
Others(p, a, b) ==
  <<<<(a + 2) % p, (b + 1) % p>>, <<(2 * a + 2) % p, (b + 4) % p>>,
    <<(3 * a + 2) % p, (b + 9) % p>>>>
Fp6Elements(p) ==
  {<<Largest(p), Largest(p), Largest(p)>>,
   <<Largest(p), <<0, p - 1>>, <<p - 1, 0>>>>,
   <<<<0, 0>>, Largest(p), <<0, 0>>>>,
   <<<<0, p - 1>>, <<1, p - 1>>, Largest(p)>>,
   Others(p, 3, 8), Others(p, 7, 5)}
Fp6Pairs(p) == Fp6Elements(p) \X Fp6Elements(p)
Lines(p) == {[f |-> <<a, b>>, c0 |-> c[1], c3 |-> c[2], c5 |-> c[3]] :
               a, b, c \in Fp6Elements(p)}

Wide == INSTANCE ModWide WITH pc <- wpc

Field == INSTANCE WideTower WITH
           W <- 2, NLIMB <- 3, Builds <- FieldBuilds, Fp2Operands <- Fp2Pairs,
           Fp6Operands <- Fp6Pairs, LineOperands <- Lines,
           pc <- fpc, build <- fbuild, x <- fx, y <- fy, i <- fi, t <- ft,
           result <- fresult

Inversion == INSTANCE FpInverse WITH
               W <- 4, NLIMB <- 2, Builds <- InverseBuilds,
               pc <- ipc, build <- ibuild, x <- ix, y <- 0, i <- 0, t <- 0,
               result <- iresult, d <- dd, e <- ee

ASSUME InputsAssumption == Wide!InputsAreLegal
ASSUME BuildsAssumption == /\ Field!BuildsAreLegal
                           /\ Inversion!BuildsAreLegal /\ Inversion!FixesAreLegal

(* The builds are those of the part that runs.                             *)
ArithInit ==
  /\ Init /\ Wide!Init /\ Field!Init /\ Inversion!InvInit
  /\ part \in {"divrem", "wide", "field", "inversion"}
  /\ part # "field" => fbuild = CHOOSE b \in FieldBuilds : TRUE
  /\ part # "inversion" => ibuild = CHOOSE b \in InverseBuilds : TRUE

Divides == /\ part = "divrem" /\ Next
           /\ UNCHANGED <<part, wideVars, towerVars, inverseVars>>
DividesWide == /\ part = "wide" /\ Wide!Next
               /\ UNCHANGED <<part, vars, towerVars, inverseVars>>
Multiplies == /\ part = "field" /\ Field!WideNext
              /\ UNCHANGED <<part, vars, wideVars, inverseVars>>
Inverts == /\ part = "inversion" /\ Inversion!InvNext
           /\ UNCHANGED <<part, vars, wideVars, towerVars>>

ArithNext == Divides \/ DividesWide \/ Multiplies \/ Inverts

ArithSpec == /\ ArithInit /\ [][ArithNext]_<<part, vars, wideVars, towerVars, inverseVars>>
             /\ WF_vars(DivremBit \/ DivremEnd)
             /\ WF_wideVars(Wide!ReduceBit \/ Wide!WriteBack)
             /\ WF_towerVars(Field!MulDigit \/ Field!MulEnd)
             /\ WF_inverseVars(Inversion!Euclid)

(* Both divisions are long division of the dividend as it was passed, and  *)
(* every backend's fp_mul is the Montgomery product, round by round.       *)
ImplementsAbstractions == /\ ImplementsDivision /\ Wide!ImplementsDivision
                          /\ Field!ImplementsMontgomery

(* In every build sums, differences, conversions and signs are canonical,  *)
(* and both inversions invert, batch by batch and step by step.            *)
FieldIsExact == Field!FieldIsExact /\ Inversion!InverseIsExact

(* The lazily reduced products are the products.                           *)
LazyIsEager == Field!LazyIsEager

(* The loop of fp_inv_vartime, which has no bound, ends.                   *)
EuclidEnds == Inversion!EuclidEnds

-----------------------------------------------------------------------------
MCDivisions ==
  {[k |-> kk, kbits |-> bits, d |-> divisor] :
     <<kk, bits, divisor>> \in {a \in (0 .. 63) \X (1 .. 6) \X (1 .. 32) :
                                  a[1] < 2 ^ a[2]}}

MCOperands == Arrays(N) \X Arrays(N)

Moduli(n) == {a \in Arrays(n) : a[n - 1] # 0}

MCInputs ==
  UNION {{[w |-> a, nn |-> widths[1], m |-> b, dn |-> widths[2]] :
            a \in Arrays(widths[1]), b \in Moduli(widths[2])} :
           widths \in {<<1, 1>>, <<2, 1>>, <<2, 2>>, <<3, 2>>, <<1, 2>>}}
  \cup {[w |-> Zeros(4), nn |-> 4, m |-> [j \in {0} |-> 3], dn |-> 1],
        [w |-> Zeros(2), nn |-> 2, m |-> <<>>, dn |-> 0]}

(* What fp_params.h generates for the prime p on n limbs of width bits.    *)
MontN0(base, p) == CHOOSE n \in 0 .. base - 1 : (n * p + 1) % base = 0

FieldBuild(mul, addsub, p) ==
  [mul |-> mul, addsub |-> addsub, FP_MODULUS |-> p, FP_MONT_N0 |-> MontN0(4, p),
   FP_R2 |-> (64 * 64) % p]

MCFieldBuilds ==
  {FieldBuild("portable", "portable", 61), FieldBuild("portable", "x86_64", 61),
   FieldBuild("portable", "portable", 31), FieldBuild("x86_64", "x86_64", 31),
   FieldBuild("x86_64", "x86_64", 29), FieldBuild("aarch64", "portable", 31)}

InverseBuild(mul, addsub, p, bits) ==
  LET blocks == (3 * bits + 1) \div 2
      R2 == (256 * 256) % p
  IN  [mul |-> mul, addsub |-> addsub, FP_MODULUS |-> p,
       FP_MONT_N0 |-> MontN0(16, p), FP_R2 |-> R2, FP_BITS |-> bits,
       FP_INV_FIX |-> (((2 ^ (2 * blocks)) % p) * R2) % p]

MCInverseBuilds ==
  {InverseBuild("portable", "portable", 251, 8),
   InverseBuild("x86_64", "x86_64", 61, 6), InverseBuild("aarch64", "portable", 61, 6)}
=============================================================================
