----------------------------- MODULE Serialize ------------------------------
(***************************************************************************)
(* The readers and writers of serialize.c, which has them once for E(Fp)   *)
(* and once for E'(Fp2): here a template over the field, like the curve.   *)
(*                                                                         *)
(* An encoding is the three flag bits of its first byte and the integers   *)
(* of its body, each FP_SER_BYTES bytes: one field element is one integer  *)
(* over Fp and two over Fp2, a compressed point is one element and an      *)
(* uncompressed one is two.                                                *)
(***************************************************************************)
EXTENDS EcJacobian, Integers, Sequences

CONSTANTS F_sqrt(_), F_is_lex_largest(_),
          F_write_be(_),    \* the integers of an element
          F_read_be(_),     \* the element of a list of integers, or an error
          in_subgroup(_)

OK == 0
ERR_FLAGS == -1
ERR_NONCANONICAL == -2
ERR_NO_SQRT == -3
ERR_NOT_ON_CURVE == -4
ERR_NOT_IN_GROUP == -5

-----------------------------------------------------------------------------
put_flags(compressed, infinity, sign, body) ==
  [compressed |-> compressed, infinity |-> infinity, sign |-> sign, body |-> body]

zeros == F_write_be(F_zero)

write_compressed(P) ==
  LET a == to_affine(P)
  IN IF a.ok THEN put_flags(TRUE, FALSE, F_is_lex_largest(a.y), F_write_be(a.x))
     ELSE put_flags(TRUE, TRUE, FALSE, zeros)

write_uncompressed(P) ==
  LET a == to_affine(P)
  IN IF a.ok THEN put_flags(FALSE, FALSE, FALSE, F_write_be(a.x) \o F_write_be(a.y))
     ELSE put_flags(FALSE, TRUE, FALSE, zeros \o zeros)

-----------------------------------------------------------------------------
(* Rejects every combination the writers never set. *)
take_flags(e, want_compressed) ==
  IF \/ e.compressed # want_compressed
     \/ ~e.compressed /\ e.sign
     \/ e.infinity /\ (e.sign \/ \E i \in DOMAIN e.body : e.body[i] # 0)
  THEN ERR_FLAGS ELSE OK

(* x^3 + b has two roots or none; the sign bit says which. *)
recover_y(x, want_sign) ==
  LET s == F_sqrt(F_add(F_mul(F_sqr(x), x), curve_b))
      y == IF F_is_lex_largest(s.root) # want_sign THEN F_neg(s.root) ELSE s.root
  IN IF s.ok THEN [rc |-> OK, y |-> y] ELSE [rc |-> ERR_NO_SQRT]

fail(code) == [rc |-> code, p |-> set_infinity]

finish(x, y) ==
  LET P == from_affine(x, y)
  IN IF ~on_curve(P) THEN fail(ERR_NOT_ON_CURVE)
     ELSE IF ~in_subgroup(P) THEN fail(ERR_NOT_IN_GROUP)
     ELSE [rc |-> OK, p |-> P]

(* What a reader leaves in its output point and returns. *)
read_compressed(e) ==
  LET flags == take_flags(e, TRUE)
      x == F_read_be(e.body)
      y == recover_y(x.value, e.sign)
  IN IF flags # OK THEN fail(flags)
     ELSE IF e.infinity THEN [rc |-> OK, p |-> set_infinity]
     ELSE IF x.rc # OK THEN fail(x.rc)
     ELSE IF y.rc # OK THEN fail(y.rc)
     ELSE finish(x.value, y.y)

read_uncompressed(e) ==
  LET flags == take_flags(e, FALSE)
      half == Len(e.body) \div 2
      x == F_read_be(SubSeq(e.body, 1, half))
      y == F_read_be(SubSeq(e.body, half + 1, 2 * half))
  IN IF flags # OK THEN fail(flags)
     ELSE IF e.infinity THEN [rc |-> OK, p |-> set_infinity]
     ELSE IF x.rc # OK THEN fail(x.rc)
     ELSE IF y.rc # OK THEN fail(y.rc)
     ELSE finish(x.value, y.value)
=============================================================================
