------------------------------ MODULE MCPairing ------------------------------
(***************************************************************************)
(* Products of pairings with symbolic lines, and single pairings on field  *)
(* elements; a behaviour does one or the other.                            *)
(*                                                                         *)
(* Products: chunks of two and calls of up to five pairs: empty, below, at *)
(* and one past a chunk boundary, twice.  Three builds: the BLS12 shapes   *)
(* with the leading digit of either sign, and a BN one with its two        *)
(* corrections.                                                            *)
(*                                                                         *)
(* Single pairings: y^2 = x^3 + 1 over the field of 163 elements, whose    *)
(* points of order 13 have embedding degree 12 and a sextic twist          *)
(* y^2 = x^3 + xi with points of order 13.  The Frobenius is [7] there, so *)
(* a loop over 7 or 7 - 13 without corrections, or over -2 with the two of *)
(* BN, its digits given in two ways, computes a pairing.  The curve is in  *)
(* neither family: the fast chains are compared with the exponents they    *)
(* claim.                                                                  *)
(***************************************************************************)
EXTENDS MultiPairing, Fields

VARIABLES field, fpc, pair, point, value, bit, easy, power, powers

fieldVars == <<field, fpc, pair, point, value, bit, easy, power, powers>>

-----------------------------------------------------------------------------
xi == <<1, 1>>
MCFrob == [kk \in 1 .. 3 |->
             [n \in 1 .. 5 |-> fp2_exp(xi, n * ((FP_MODULUS ^ kk - 1) \div 6))]]

(* w^(-2(p-1)), w^(-3(p-1)) and the same for p^2. *)
MCPsiX == fp2_inv(MCFrob[1][2])
MCPsiY == fp2_inv(MCFrob[1][3])
MCPsi2X == fp2_inv(MCFrob[2][2])
MCPsi2Y == fp2_inv(MCFrob[2][3])

Bits(n, len) == [k0 \in 1 .. len |-> (n \div 2 ^ (len - k0)) % 2]

fp_sqr(x) == fp_mul(x, x)
E1 == INSTANCE EcJacobian
        WITH F_add <- fp_add, F_sub <- fp_sub, F_mul <- fp_mul,
             F_sqr <- fp_sqr, F_neg <- fp_neg, F_inv <- fp_inv,
             F_zero <- 0, F_one <- 1, curve_b <- 1
E2 == INSTANCE EcJacobian
        WITH F_add <- fp2_add, F_sub <- fp2_sub, F_mul <- fp2_mul,
             F_sqr <- fp2_sqr, F_neg <- fp2_neg, F_inv <- fp2_inv,
             F_zero <- fp2_zero, F_one <- fp2_one, curve_b <- xi

MCG1 == LET of[n \in 1 .. 12] ==
              IF n = 1 THEN <<130, 24>> ELSE E1!affine_plus(of[n - 1], of[1])
        IN [n \in 1 .. 12 |-> of[n]]
MCG2 == LET of[n \in 1 .. 12] ==
              IF n = 1 THEN <<<<101, 24>>, <<136, 78>>>>
              ELSE E2!affine_plus(of[n - 1], of[1])
        IN [n \in 1 .. 12 |-> of[n]]

(* The optimal ate pairing of the generators for each loop.                *)
Ate7 == <<<<<<95, 19>>, <<9, 80>>, <<51, 59>>>>,
          <<<<141, 106>>, <<42, 102>>, <<91, 105>>>>>>
AteMinus6 == <<<<<<95, 144>>, <<76, 33>>, <<75, 105>>>>,
               <<<<160, 105>>, <<155, 112>>, <<136, 111>>>>>>
Single(loop0, bn, param, hard, v) ==
  [loop |-> loop0, bn |-> bn, param |-> param, hard |-> hard, value |-> v]

(* The parameters of the fast chains: -5, 7 with a run that ends in a      *)
(* digit, and -8 with one that does not.                                   *)
MCSingles ==
  {Single(<<1, 0, 0, -1>>, FALSE, <<>>, "plain", Ate7),
   Single(<<-1, 0, 1, 0>>, FALSE, <<>>, "plain", AteMinus6),
   Single(<<-1, 0>>, TRUE, <<>>, "plain", Ate7),
   Single(<<-1, 1, 0>>, TRUE, <<>>, "plain", Ate7),
   Single(<<1, 0, 0, -1>>, FALSE, <<-1, 0, -1>>, "bls12", Ate7),
   Single(<<1, 0, 0, -1>>, FALSE, <<-1, 0, 0, 0>>, "bls12", Ate7),
   Single(<<-1, 0>>, TRUE, <<1, 0, 0, -1>>, "bn", Ate7),
   Single(<<-1, 0>>, TRUE, <<-1, 0, -1>>, "bn", Ate7)}

(* Values whose easy part is one, has a square with g1 = 0 and one with    *)
(* g5 = 0; and two more.                                                   *)
MCValues ==
  {<<<<<<1, 0>>, <<0, 0>>, <<0, 0>>>>, <<<<0, 0>>, <<0, 0>>, <<0, 0>>>>>>,
   <<<<<<29, 136>>, <<132, 8>>, <<84, 36>>>>,
     <<<<114, 30>>, <<159, 4>>, <<24, 106>>>>>>,
   <<<<<<66, 14>>, <<87, 60>>, <<162, 85>>>>,
     <<<<44, 39>>, <<47, 99>>, <<130, 78>>>>>>,
   <<<<<<7, 99>>, <<0, 114>>, <<151, 26>>>>,
     <<<<110, 155>>, <<68, 58>>, <<81, 7>>>>>>,
   <<<<<<0, 0>>, <<5, 6>>, <<0, 0>>>>, <<<<0, 0>>, <<0, 0>>, <<0, 0>>>>>>}

Field ==
  INSTANCE Pairing WITH
    FROB <- MCFrob, KARABINA_MIN_RUN <- 2, curve_b <- 1,
    PSI_X <- MCPsiX, PSI_Y <- MCPsiY, PSI2_X <- MCPsi2X, PSI2_Y <- MCPsi2Y,
    ELIPS_HARD_EXP <- Bits(54298861, 26), Builds <- MCSingles,
    G1 <- MCG1, G2 <- MCG2, Pairs <- {<<1, 1>>, <<2, 3>>, <<5, 12>>},
    Values <- MCValues,
    build <- field, pc <- fpc, T <- point, f <- value, i <- bit, m <- easy,
    acc <- power, u <- powers

NoField == [hard |-> "none"]
AnyBuild == CHOOSE b0 \in Builds : TRUE

PairingInit ==
  /\ Init
  /\ \/ field = NoField /\ Field!Idle
     \/ build = AnyBuild /\ Field!Init

PairingNext ==
  \/ field = NoField /\ Next /\ UNCHANGED fieldVars
  \/ field # NoField /\ Field!Next /\ UNCHANGED vars

PairingSpec ==
  PairingInit /\ [][PairingNext]_<<vars, fieldVars>> /\ WF_vars(Work)

-----------------------------------------------------------------------------
(* The exponents the two fast chains claim are those of the definition:    *)
(* with p and r the polynomials of the family, r times the exponent is     *)
(* p^4 - p^2 + 1, or three times that for BLS12.  All are of degree less   *)
(* than 31, so it is enough that they agree modulo 31 and 37 everywhere.   *)
PowerMod(a, e, q) ==
  LET of[n \in 0 .. e] == IF n = 0 THEN 1 ELSE (of[n - 1] * a) % q
  IN of[e]

Phi12(p, q) == (PowerMod(p, 4, q) - PowerMod(p, 2, q) + 1) % q

BnHardPartIsTheDefinition(q) ==
  \A x \in 0 .. q - 1 :
    LET p == (36 * PowerMod(x, 4, q) + 36 * PowerMod(x, 3, q) + 24 * x * x
              + 6 * x + 1) % q
        r == (p - 6 * x * x) % q
    IN (r * (Field!BnExponent(x, p) % q)) % q = Phi12(p, q)

Bls12HardPartIsTheDefinition(q) ==
  \A x, p \in 0 .. q - 1 :
    LET r == Phi12(x, q)
    IN (3 * (p - x)) % q = ((x - 1) * (x - 1) * r) % q =>
         (r * (Field!Bls12Exponent(x, p) % q)) % q = (3 * Phi12(p, q)) % q

ASSUME HardParts == \A q \in {31, 37} :
                      /\ BnHardPartIsTheDefinition(q)
                      /\ Bls12HardPartIsTheDefinition(q)

-----------------------------------------------------------------------------
(* Every routine of the tower agrees with polynomial arithmetic.           *)
TowerIsTheField == Field!TowerIsTheField

(* The running point is the multiple of Q the digits so far spell, and     *)
(* never one that the doubling excludes.                                   *)
RunningPointIsTheMultiple == Field!RunningPointIsTheMultiple

(* Either final exponentiation raises to the exponent it claims, and no    *)
(* power of w survives its easy part.                                      *)
FinalExpIsThePower == Field!FinalExpIsThePower

(* The value returned is the optimal ate pairing, and bilinear.            *)
PairingIsBilinear == Field!PairingIsBilinear

-----------------------------------------------------------------------------
Loop(digits) == [d \in 0 .. Len(digits) - 1 |-> digits[Len(digits) - d]]

Build(digits, bn) ==
  [top |-> Len(digits) - 1, loop |-> Loop(digits), bn |-> bn,
   lines |-> Len(digits) - 1 + (IF bn THEN 2 ELSE 0) +
             Cardinality({d \in 2 .. Len(digits) : digits[d] # 0})]

MCBuilds == {Build(<<1, 0, 1>>, FALSE), Build(<<-1, 0, -1, 0>>, FALSE),
             Build(<<1, 0, -1>>, TRUE)}

Names == <<"a", "b", "c", "d", "e">>
MaxPairs == 5

Distinct(n) == [x \in 1 .. n |-> Names[x]]
Repeated(n) == [x \in 1 .. n |-> "a"]

Bad == {"infinity", "off_subgroup"}

(* All the pairs good, distinct or repeated; or one bad point anywhere.    *)
MCCalls ==
  {[op |-> op, ps |-> s, qs |-> s] :
     op \in {"multi", "prec"},
     s \in UNION {{Distinct(n), Repeated(n)} : n \in 0 .. MaxPairs}}
  \cup UNION {{[op |-> op, ps |-> Distinct(n),
                qs |-> [Distinct(n) EXCEPT ![at] = bad]] :
                 op \in {"multi", "prec"}, at \in 1 .. n, bad \in Bad} :
                n \in 1 .. MaxPairs}
  \cup UNION {{[op |-> op, ps |-> [Distinct(n) EXCEPT ![at] = bad],
                qs |-> Distinct(n)] :
                 op \in {"multi", "prec"}, at \in 1 .. n, bad \in Bad} :
                n \in 1 .. MaxPairs}
=============================================================================
