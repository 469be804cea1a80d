---------------------------- MODULE MCPointCodec ----------------------------
(***************************************************************************)
(* "bls": x = -5, p = 7207, r = 601; y^2 = x^3 + 1 has 7212 points, three  *)
(* of order two among them, and the twist y^2 = x^3 + 1 + 3u has 86437 *   *)
(* 601.  FP_SER_BYTES is 2, so that the integer after the flag bits has 13 *)
(* bits; the compressed buffers of E are taken exhaustively.               *)
(*                                                                         *)
(* "bn": x = -1, p = 19, r = 13, xi = 1 + u; the twist y^2 = x^3 + 2/xi    *)
(* has 325 points over Fp2.  FP_SER_BYTES is 1, so that the first integer  *)
(* has five bits and the others eight; the compressed buffers of the twist *)
(* are taken exhaustively.                                                 *)
(***************************************************************************)
EXTENDS Integers, Sequences

CurveBLS ==
  [FAMILY |-> "BLS12", EP_B |-> 1, EP2_B |-> <<1, 3>>, EP_BETA |-> 5368,
   PSI_X |-> <<6190, 5313>>, PSI_Y |-> <<2260, 1649>>,
   ELIPS_ABSX |-> 5, ELIPS_X_NEGATIVE |-> TRUE, ELIPS_6XSQ |-> 150,
   Order |-> 601,
   Generator |-> [E1 |-> <<85, 2500>>, E2 |-> <<<<5999, 5641>>, <<4278, 3352>>>>]]

CurveBN ==
  [FAMILY |-> "BN", EP_B |-> 2, EP2_B |-> <<1, 18>>, EP_BETA |-> 1,
   PSI_X |-> <<0, 11>>, PSI_Y |-> <<16, 16>>,
   ELIPS_ABSX |-> 1, ELIPS_X_NEGATIVE |-> TRUE, ELIPS_6XSQ |-> 6,
   Order |-> 13, Generator |-> [E2 |-> <<<<1, 8>>, <<8, 11>>>>]]

VARIABLES build, g, buf, p, rc

BLS == INSTANCE PointCodec WITH FP_MODULUS <- 7207, Curve <- CurveBLS
BN == INSTANCE PointCodec WITH FP_MODULUS <- 19, Curve <- CurveBN

Flags(bodies) ==
  [compressed : BOOLEAN, infinity : BOOLEAN, sign : BOOLEAN, body : bodies]

-----------------------------------------------------------------------------
(* Points of E, y off by one, and either coordinate not reduced. *)
RootAt(x) == BLS!fp_sqrt(BLS!fp_add(BLS!fp_mul(BLS!fp_sqr(x), x), 1))
SomeX == {x \in (0 .. 400) \cup (1839 .. 1845) \cup (7200 .. 7206) : RootAt(x).ok}

Near(x, y) == {<<x, y>>, <<x, y + 1>>, <<x, y + 7207>>, <<x + 7207, y>>}

BodiesE == {<<x>> : x \in 0 .. 8191} \cup {<<0, 0>>, <<0, 1>>}
           \cup UNION {Near(x, RootAt(x).root) : x \in SomeX}

(* On the twist: members of the group, and abscissas around the origin.    *)
Members == {BLS!E2!to_affine(P) : P \in BLS!MembersE2}

BodiesTwist ==
  {<<im, re>> : im \in 0 .. 20, re \in 0 .. 20}
  \cup UNION {{<<P.x[2], P.x[1]>>, <<P.x[2], P.x[1], P.y[2], P.y[1]>>,
               <<P.x[2], P.x[1], P.y[1], P.y[2]>>} : P \in Members}
  \cup {<<7207, 0>>, <<0, 7207>>, <<0, 0, 0, 0>>}

ReceivedBLS == [E1 |-> Flags(BodiesE), E2 |-> Flags(BodiesTwist)]

(* Points of the twist, y off by one, and one coordinate not reduced. *)
F19 == (0 .. 18) \X (0 .. 18)
Near2(x, y) ==
  {<<x[2], x[1], y[2], y[1]>>, <<x[2], x[1], y[2], y[1] + 1>>,
   <<x[2], x[1], y[2] + 19, y[1]>>, <<x[2], x[1] + 19, y[2], y[1]>>}

Points == {P \in F19 \X F19 : BN!E2!on_curve(BN!E2!from_affine(P[1], P[2]))}

ReceivedBN ==
  [E2 |-> Flags({<<im, re>> : im \in 0 .. 31, re \in 0 .. 255}
                \cup {<<0, 0, 0, 0>>, <<0, 0, 0, 1>>}
                \cup UNION {Near2(P[1], P[2]) : P \in Points})]

-----------------------------------------------------------------------------
Init == \/ build = "bls" /\ BLS!Init(ReceivedBLS)
        \/ build = "bn" /\ BN!Init(ReceivedBN)

Next == /\ UNCHANGED build
        /\ \/ build = "bls" /\ BLS!Next
           \/ build = "bn" /\ BN!Next

Spec == Init /\ [][Next]_<<build, g, buf, p, rc>>

-----------------------------------------------------------------------------
EncodingsBLS == BLS!Encodings
EncodingsBN == BN!Encodings
ShapesBLS == BLS!Shapes
ShapesBN == BN!Shapes

(* On either curve, exactly the encodings of members are accepted.         *)
AcceptsExactlyTheGroup ==
  IF build = "bls" THEN BLS!AcceptsExactlyTheGroup(EncodingsBLS)
                   ELSE BN!AcceptsExactlyTheGroup(EncodingsBN)

(* On either curve, an error code is true of the buffer and leaves the     *)
(* identity.                                                               *)
CodeIsTrueOfTheBuffer ==
  IF build = "bls" THEN BLS!CodeIsTrueOfTheBuffer(ShapesBLS)
                   ELSE BN!CodeIsTrueOfTheBuffer(ShapesBN)

(* On either curve, reading back gives the point that was written.         *)
ReadsBack == IF build = "bls" THEN BLS!ReadsBack ELSE BN!ReadsBack
RoundTrip == [][ReadsBack]_<<build, g, buf, p, rc>>
=============================================================================
