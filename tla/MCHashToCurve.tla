--------------------------- MODULE MCHashToCurve ----------------------------
(***************************************************************************)
(* A call on each of four small curves, one for every shape of map and     *)
(* chain that a build compiles.                                            *)
(***************************************************************************)
EXTENDS HashToCurve

(***************************************************************************)
(* "sswu", as on G2 of BLS12-381: Fp2 for p = 43, one root and the table   *)
(* of eight; y^2 = x^3 + 41(1 + u) with 4 * 457 points, 3-isogenous to     *)
(* y^2 = x^3 + 6u x + 38(1 + u), Z = 1 + u.  The kernel of the isogeny has *)
(* no point over Fp2.  Every element is hashed to alone and against its    *)
(* opposite, and some pairs.                                               *)
(***************************************************************************)
F43 == (0 .. 42) \X (0 .. 42)
Minus43(a) == <<(-a[1]) % 43, (-a[2]) % 43>>

CurveSswu ==
  [FP_MODULUS |-> 43, FAMILY |-> "BLS12", EP_B |-> 1, EP2_B |-> <<41, 41>>,
   ELIPS_H2C_G2_FAST_CLEAR |-> FALSE,
   H2C_HEFF |-> [E2 |-> 4], Order |-> 457,
   Generator |-> [E2 |-> <<<<32, 10>>, <<41, 31>>>>],
   FieldElements |->
     [E2 |-> {<<a>> : a \in F43} \cup {<<a, Minus43(a)>> : a \in F43}
             \cup {<<<<i, i>>, <<i, i>>>> : i \in 0 .. 42}
             \cup {<<<<1, 0>>, <<i, 5>>>> : i \in 0 .. 42}],
   H2C_G2 |->
     [SSWU |-> TRUE, SSWU_ONE_ROOT |-> TRUE, Z |-> <<1, 1>>,
      ISO_A |-> <<0, 6>>, ISO_B |-> <<38, 38>>,
      MB_OVER_A |-> <<8, 35>>, B_OVER_ZA |-> <<0, 8>>,
      ISO_XNUM |-> <<<<33, 33>>, <<0, 8>>, <<34, 9>>, <<1, 0>>>>,
      ISO_XDEN |-> <<<<0, 24>>, <<34, 9>>, <<1, 0>>>>,
      ISO_YNUM |-> <<<<27, 27>>, <<0, 2>>, <<8, 35>>, <<1, 0>>>>,
      ISO_YDEN |-> <<<<21, 21>>, <<0, 29>>, <<8, 35>>, <<1, 0>>>>,
      SQRT_EXP |-> (43 * 43 + 7) \div 16,
      ZETA |-> <<<<1, 0>>, <<8, 35>>, <<0, 1>>, <<8, 8>>,
                 <<42, 0>>, <<35, 8>>, <<0, 42>>, <<35, 35>>>>,
      FIX |-> <<<<1, 0>>, <<0, 21>>, <<35, 35>>, <<4, 39>>,
                <<0, 42>>, <<21, 0>>, <<35, 8>>, <<4, 4>>>>]]

(***************************************************************************)
(* "isogeny", as on G1 of BLS12-381: p = 67, two roots; y^2 = x^3 + 19     *)
(* with 9 * 7 points, 3-isogenous to y^2 = x^3 + 23 x + 44, Z = 7.  As for *)
(* BLS12-381, whose isogeny has degree 11, the kernel has points over Fp   *)
(* and the map reaches them.  All pairs of elements.                       *)
(***************************************************************************)
CurveIsogeny ==
  [FP_MODULUS |-> 67, FAMILY |-> "BLS12", EP_B |-> 19, EP2_B |-> <<0, 0>>,
   H2C_HEFF |-> [E1 |-> 9], Order |-> 7, Generator |-> [E1 |-> <<64, 40>>],
   FieldElements |-> [E1 |-> {<<a>> : a \in 0 .. 66}
                             \cup {<<a, b>> : a \in 0 .. 66, b \in 0 .. 66}],
   H2C_G1 |->
     [SSWU |-> TRUE, SSWU_ONE_ROOT |-> FALSE, Z |-> 7,
      ISO_A |-> 23, ISO_B |-> 44, MB_OVER_A |-> 1, B_OVER_ZA |-> 19,
      ISO_XNUM |-> <<54, 58, 48, 1>>, ISO_XDEN |-> <<40, 48, 1>>,
      ISO_YNUM |-> <<11, 35, 5, 1>>, ISO_YDEN |-> <<22, 53, 5, 1>>]]

(***************************************************************************)
(* "bn", as BN-462: x = -1, p = 19, r = 13, xi = 1 + u; E has 13 points    *)
(* and the twist 25 * 13; Shallue-van de Woestijne.  All elements, and     *)
(* pairs.                                                                  *)
(***************************************************************************)
F19 == (0 .. 18) \X (0 .. 18)
Minus19(a) == <<(-a[1]) % 19, (-a[2]) % 19>>

CurveBN ==
  [FP_MODULUS |-> 19, FAMILY |-> "BN", EP_B |-> 2, EP2_B |-> <<1, 18>>,
   PSI_X |-> <<0, 11>>, PSI_Y |-> <<16, 16>>,
   ELIPS_H2C_G2_FAST_CLEAR |-> FALSE, ELIPS_6XSQ |-> 6,
   H2C_HEFF |-> [E1 |-> 1, E2 |-> 25], Order |-> 13,
   Generator |-> [E1 |-> <<18, 1>>, E2 |-> <<<<1, 8>>, <<8, 11>>>>],
   FieldElements |->
     [E1 |-> {<<a>> : a \in 0 .. 18} \cup {<<a, b>> : a \in 0 .. 18, b \in 0 .. 18},
      E2 |-> {<<a>> : a \in F19} \cup {<<a, Minus19(a)>> : a \in F19}
             \cup {<<a, b>> : a \in F19,
                              b \in {<<0, 0>>, <<5, 0>>, <<1, 7>>, <<0, 3>>}}],
   H2C_G1 |-> [SSWU |-> FALSE, Z |-> 18, C1 |-> 1, C2 |-> 10, C3 |-> 4, C4 |-> 5],
   H2C_G2 |-> [SSWU |-> FALSE, Z |-> <<1, 0>>, C1 |-> <<2, 18>>, C2 |-> <<9, 0>>,
               C3 |-> <<18, 8>>, C4 |-> <<10, 14>>]]

(***************************************************************************)
(* "bls", as BLS12-461: x = -5, p = 7207, r = 601; E has 12 * 601 points   *)
(* and the twist, here by the non-residue 1 + 3u, 86437 * 601.  The        *)
(* multipliers of the chain are x^2 - x - 1 and x - 1; the one on E is     *)
(* 1 - x, that of the twist 3(x^2 - 1) times its cofactor.                 *)
(***************************************************************************)
Minus7207(a) == <<(-a[1]) % 7207, (-a[2]) % 7207>>

CurveBLS ==
  [FP_MODULUS |-> 7207, FAMILY |-> "BLS12", EP_B |-> 1, EP2_B |-> <<1, 3>>,
   PSI_X |-> <<6190, 5313>>, PSI_Y |-> <<2260, 1649>>,
   ELIPS_H2C_G2_FAST_CLEAR |-> TRUE,
   H2C_G2_CLEAR |-> [A |-> 29, A_NEG |-> FALSE, B |-> 6, B_NEG |-> TRUE],
   H2C_HEFF |-> [E1 |-> 6, E2 |-> 6223464], Order |-> 601,
   Generator |-> [E1 |-> <<85, 2500>>, E2 |-> <<<<5999, 5641>>, <<4278, 3352>>>>],
   FieldElements |->
     [E1 |-> {<<a>> : a \in 0 .. 7206} \cup {<<a, (-a) % 7207>> : a \in 0 .. 40}
             \cup {<<a, a + 1>> : a \in 0 .. 40},
      E2 |-> {<<<<a, b>>>> : a \in 0 .. 10, b \in 0 .. 10}
             \cup {<<<<a, 3>>, <<a, 3>>>> : a \in 0 .. 30}
             \cup {<<<<a, 5>>, Minus7207(<<a, 5>>)>> : a \in 0 .. 30}
             \cup {<<<<a, 7>>, <<7, a>>>> : a \in 0 .. 30}],
   H2C_G1 |-> [SSWU |-> FALSE, Z |-> 1, C1 |-> 2, C2 |-> 3603, C3 |-> 5686,
               C4 |-> 4802],
   H2C_G2 |-> [SSWU |-> FALSE, Z |-> <<7206, 0>>, C1 |-> <<0, 3>>,
               C2 |-> <<3604, 0>>, C3 |-> <<3646, 3561>>, C4 |-> <<0, 7203>>]]

-----------------------------------------------------------------------------
MCCurves == [sswu |-> CurveSswu, isogeny |-> CurveIsogeny, bn |-> CurveBN,
             bls |-> CurveBLS]

MCKernelCurves == [isogeny |-> CurveIsogeny]
=============================================================================
