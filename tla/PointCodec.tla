----------------------------- MODULE PointCodec -----------------------------
(***************************************************************************)
(* Points as bytes: serialize.c over the two groups of a pairing-friendly  *)
(* curve, with the subgroup tests of miller.c that the readers end in.     *)
(* The buffer first holds anything; it is read into a point that already   *)
(* holds another; what was read is computed with and written back.         *)
(***************************************************************************)
EXTENDS Fields, Integers, Sequences

CONSTANT Curve              \* what the build generates for its curve

(***************************************************************************)
(* The fields of Curve: FAMILY; EP_B, EP2_B, the constants of E and of the *)
(* twist; EP_BETA, PSI_X, PSI_Y; ELIPS_ABSX, ELIPS_X_NEGATIVE, ELIPS_6XSQ; *)
(* the Order r of both groups, and a Generator of each, affine.            *)
(***************************************************************************)
Groups == DOMAIN Curve.Generator

VARIABLES g, buf, p, rc
vars == <<g, buf, p, rc>>

fp_sqr(a) == fp_mul(a, a)

-----------------------------------------------------------------------------
(* Field elements as big-endian integers. *)
fp_read_word(w) == IF w < FP_MODULUS THEN [rc |-> 0, value |-> w] ELSE [rc |-> -2]

fp_write_be(a) == <<a>>
fp_read_be(ws) == fp_read_word(ws[1])

RealFirst(a) == a                                               \* variant

(* The imaginary part first. *)
fp2_write_be(a) == <<a[2], a[1]>>
fp2_read_be(ws) ==
  LET im == fp_read_word(ws[1])
      re == fp_read_word(ws[2])
  IN IF im.rc # 0 THEN im
     ELSE IF re.rc # 0 THEN re
     ELSE [rc |-> 0, value |-> <<re.value, im.value>>]

-----------------------------------------------------------------------------
(* The two curves, and the endomorphism each subgroup test rests on. *)
E1 == INSTANCE EcJacobian
        WITH F_add <- fp_add, F_sub <- fp_sub, F_mul <- fp_mul, F_sqr <- fp_sqr,
             F_neg <- fp_neg, F_inv <- fp_inv, F_zero <- 0, F_one <- 1,
             curve_b <- Curve.EP_B

E2 == INSTANCE EcJacobian
        WITH F_add <- fp2_add, F_sub <- fp2_sub, F_mul <- fp2_mul,
             F_sqr <- fp2_sqr, F_neg <- fp2_neg, F_inv <- fp2_inv,
             F_zero <- fp2_zero, F_one <- fp2_one, curve_b <- Curve.EP2_B

ep_phi(P) == [P EXCEPT !.x = fp_mul(@, Curve.EP_BETA)]

ep2_psi(P) == [x |-> fp2_mul(fp2_conj(P.x), Curve.PSI_X),
               y |-> fp2_mul(fp2_conj(P.y), Curve.PSI_Y),
               z |-> fp2_conj(P.z)]

(* Variants of the code, for comparison. *)
OnTwistIsEnough(P) == E2!is_infinity(P) \/ E2!on_curve(P)

(* The cofactor of E is one on a BN curve. *)
ep_in_subgroup(P) ==
  \/ E1!is_infinity(P)
  \/ /\ E1!on_curve(P)
     /\ \/ Curve.FAMILY = "BN"
        \/ LET once == E1!mul_pubconst(P, Curve.ELIPS_ABSX)
           IN E1!eq(ep_phi(P), E1!neg(E1!mul_pubconst(once, Curve.ELIPS_ABSX)))

ep2_in_subgroup(P) ==
  \/ E2!is_infinity(P)
  \/ /\ E2!on_curve(P)
     /\ E2!eq(ep2_psi(P),
              IF Curve.FAMILY = "BN" THEN E2!mul_pubconst(P, Curve.ELIPS_6XSQ)
              ELSE IF Curve.ELIPS_X_NEGATIVE THEN E2!neg(E2!mul_pubconst(P, Curve.ELIPS_ABSX))
              ELSE E2!mul_pubconst(P, Curve.ELIPS_ABSX))

-----------------------------------------------------------------------------
S1 == INSTANCE Serialize
        WITH F_add <- fp_add, F_sub <- fp_sub, F_mul <- fp_mul, F_sqr <- fp_sqr,
             F_neg <- fp_neg, F_inv <- fp_inv, F_zero <- 0, F_one <- 1,
             curve_b <- Curve.EP_B, F_sqrt <- fp_sqrt,
             F_is_lex_largest <- fp_is_lex_largest, F_write_be <- fp_write_be,
             F_read_be <- fp_read_be, in_subgroup <- ep_in_subgroup

S2 == INSTANCE Serialize
        WITH F_add <- fp2_add, F_sub <- fp2_sub, F_mul <- fp2_mul,
             F_sqr <- fp2_sqr, F_neg <- fp2_neg, F_inv <- fp2_inv,
             F_zero <- fp2_zero, F_one <- fp2_one, curve_b <- Curve.EP2_B,
             F_sqrt <- fp2_sqrt, F_is_lex_largest <- fp2_is_lex_largest,
             F_write_be <- fp2_write_be, F_read_be <- fp2_read_be,
             in_subgroup <- ep2_in_subgroup

ep_write_compressed(P) == S1!write_compressed(P)
ep_write_uncompressed(P) == S1!write_uncompressed(P)
ep_read_compressed(e) == S1!read_compressed(e)
ep_read_uncompressed(e) == S1!read_uncompressed(e)

ep2_write_compressed(P) == S2!write_compressed(P)
ep2_write_uncompressed(P) == S2!write_uncompressed(P)
ep2_read_compressed(e) == S2!read_compressed(e)
ep2_read_uncompressed(e) == S2!read_uncompressed(e)

-----------------------------------------------------------------------------
Unread == 1                 \* rc before the buffer is read

(* The length of a buffer says which reader its owner calls. *)
Compressed(e) == Len(e.body) = IF g = "E1" THEN 1 ELSE 2

FromAffine(G) == IF g = "E1" THEN E1!from_affine(G[1], G[2])
                             ELSE E2!from_affine(G[1], G[2])

(* received: of each group, the buffers that arrive. *)
Init(received) == /\ g \in Groups
                  /\ buf \in received[g]
                  /\ p = FromAffine(Curve.Generator[g])
                  /\ rc = Unread

Return(result) == p' = result.p /\ rc' = result.rc /\ UNCHANGED <<g, buf>>

ReadE1 == /\ rc = Unread /\ g = "E1"
          /\ Return(IF Compressed(buf) THEN ep_read_compressed(buf)
                                       ELSE ep_read_uncompressed(buf))

ReadE2 == /\ rc = Unread /\ g = "E2"
          /\ Return(IF Compressed(buf) THEN ep2_read_compressed(buf)
                                       ELSE ep2_read_uncompressed(buf))

(* The point is the result of a computation: any z. *)
Compute == /\ rc = S1!OK
           /\ p.z = IF g = "E1" THEN 1 ELSE fp2_one        \* bound
           /\ p' = IF g = "E1" THEN E1!dbl(p) ELSE E2!dbl(p)
           /\ UNCHANGED <<g, buf, rc>>

Put(e) == buf' = e /\ rc' = Unread /\ UNCHANGED <<g, p>>

WriteE1 == /\ rc = S1!OK /\ g = "E1"
           /\ \/ Put(ep_write_compressed(p))
              \/ Put(ep_write_uncompressed(p))

WriteE2 == /\ rc = S1!OK /\ g = "E2"
           /\ \/ Put(ep2_write_compressed(p))
              \/ Put(ep2_write_uncompressed(p))

Next == ReadE1 \/ ReadE2 \/ Compute \/ WriteE1 \/ WriteE2

-----------------------------------------------------------------------------
(* The groups, by generation from their generators, and what their members *)
(* are written as.                                                         *)
MembersE1 ==
  LET G == Curve.Generator["E1"]
  IN {E1!mul(E1!from_affine(G[1], G[2]), k) : k \in 1 .. Curve.Order}

MembersE2 ==
  LET G == Curve.Generator["E2"]
  IN {E2!mul(E2!from_affine(G[1], G[2]), k) : k \in 1 .. Curve.Order}

Encodings ==
  [c \in Groups |->
     IF c = "E1"
     THEN {ep_write_compressed(P) : P \in MembersE1} \cup
          {ep_write_uncompressed(P) : P \in MembersE1}
     ELSE {ep2_write_compressed(P) : P \in MembersE2} \cup
          {ep2_write_uncompressed(P) : P \in MembersE2}]

FpIsSquare(a) == fp_exp(a, FP_MODULUS \div 2) \in {0, 1}   \* Euler's criterion

Same(P, Q) == IF g = "E1" THEN E1!eq(P, Q) ELSE E2!eq(P, Q)
IsIdentity(P) == IF g = "E1" THEN E1!is_infinity(P) ELSE E2!is_infinity(P)
Encode(P) ==
  IF g = "E1"
  THEN IF Compressed(buf) THEN ep_write_compressed(P) ELSE ep_write_uncompressed(P)
  ELSE IF Compressed(buf) THEN ep2_write_compressed(P) ELSE ep2_write_uncompressed(P)

(***************************************************************************)
(* The trust boundary: of all buffers of the right length, a reader        *)
(* accepts exactly those that a writer makes from a member of the group of *)
(* order r, one for each member and form.  So no point outside the group   *)
(* comes in, and no member has a second encoding: the endomorphism tests   *)
(* decide membership, and they are also what rejects a point with y = 0,   *)
(* whose two sign bits would name one point.  The argument is Encodings.   *)
(***************************************************************************)
AcceptsExactlyTheGroup(encodings) ==
  rc # Unread => (rc = S1!OK <=> buf \in encodings[g])

(***************************************************************************)
(* Reading back what was written gives the point that was written, from    *)
(* any of its representatives and in either form.                          *)
(***************************************************************************)
ReadsBack ==
  rc = Unread /\ rc' # Unread /\ buf = Encode(p) => rc' = S1!OK /\ Same(p', p)

(* What the flags of an encoding are, and its body where they leave it no  *)
(* choice: the shapes of everything a writer makes of a member.            *)
Shape(e) == [e EXCEPT !.body = IF e.infinity THEN @ ELSE [i \in DOMAIN @ |-> 1]]
Shapes == [c \in Groups |-> {Shape(e) : e \in Encodings[c]}]

(* The coordinates a body gives, and the right side of the curve equation. *)
Abscissa(ws) == IF g = "E1" THEN ws[1] ELSE <<ws[2], ws[1]>>
Ordinate(ws) == IF g = "E1" THEN ws[2] ELSE <<ws[4], ws[3]>>
Cubic(x) == IF g = "E1" THEN fp_add(fp_mul(fp_sqr(x), x), Curve.EP_B)
            ELSE fp2_add(fp2_mul(fp2_sqr(x), x), Curve.EP2_B)

(* Whether a point lies above the abscissa: an element of Fp2 is a square  *)
(* where its norm is one.                                                  *)
HasPoint(ws) == FpIsSquare(IF g = "E1" THEN Cubic(Abscissa(ws))
                           ELSE norm(Cubic(Abscissa(ws))))

IsOnCurve(ws) ==
  Cubic(Abscissa(ws)) = IF g = "E1" THEN fp_sqr(Ordinate(ws))
                                    ELSE fp2_sqr(Ordinate(ws))

(***************************************************************************)
(* An error code is true of the buffer (serialize.c:70-275): the flags are *)
(* blamed exactly where no writer sets them so; a coordinate, only where   *)
(* one is not reduced; "x has no corresponding y", only where there is no  *)
(* such y; "not on the curve", only where both coordinates are given and   *)
(* do not satisfy it; "outside the subgroup", only of a point of the       *)
(* curve.  With every code the reader leaves the identity: never what the  *)
(* caller's point held before, never a point that was rejected.  The       *)
(* argument is Shapes.                                                     *)
(***************************************************************************)
CodeIsTrueOfTheBuffer(shapes) ==
  LET canonical == \A i \in DOMAIN buf.body : buf.body[i] < FP_MODULUS
  IN /\ rc < 0 => IsIdentity(p)
     /\ rc # Unread => (rc = S1!ERR_FLAGS <=> Shape(buf) \notin shapes[g])
     /\ rc = S1!ERR_NONCANONICAL => ~canonical
     /\ rc \in {S1!ERR_NO_SQRT, S1!ERR_NOT_ON_CURVE, S1!ERR_NOT_IN_GROUP} =>
          canonical
     /\ rc = S1!ERR_NO_SQRT => Compressed(buf) /\ ~HasPoint(buf.body)
     /\ rc = S1!ERR_NOT_ON_CURVE => ~Compressed(buf) /\ ~IsOnCurve(buf.body)
     /\ rc = S1!ERR_NOT_IN_GROUP => IF Compressed(buf) THEN HasPoint(buf.body)
                                    ELSE IsOnCurve(buf.body)
=============================================================================
