---------------------------- MODULE ExpandMessage ----------------------------
(***************************************************************************)
(* Bytes out of SHA-256: expand_message_xmd and hash_to_field of           *)
(* hash/hash_to_curve.c, HMAC and HKDF of bls/hkdf.c, a block at a time.   *)
(* The hash is free: the digest of a string of bytes is the string, and    *)
(* its byte j is the pair of the two.  A literal byte is a tuple of one, a *)
(* sum of two by exclusive or a triple, so that bytes of all kinds compare.*)
(***************************************************************************)
EXTENDS Integers, Sequences, SequencesExt

CONSTANTS
  BLOCK, DIGEST,          \* ELIPS_SHA256_BLOCK and _DIGEST: 64 and 32
  ByteBase,               \* values of a byte: 256
  H2C_L,                  \* bytes hashed for an element of Fp
  INFO_MAX,               \* what hkdf_expand has room for: 512
  MaxAsked,               \* bound on the bytes asked for
  Messages, Tags, Keys, Infos     \* strings of bytes a caller passes

SizesAreLegal == /\ BLOCK \in Nat /\ ByteBase \in Nat
                 /\ BLOCK >= DIGEST /\ DIGEST \in 1 .. ByteBase - 1
                 /\ H2C_L \in Nat \ {0} /\ INFO_MAX \in Nat /\ MaxAsked \in Nat
                 /\ 4 * H2C_L <= DIGEST * (ByteBase - 1)

Strings == Seq({<<v>> : v \in 0 .. ByteBase - 1})

StringsAreLegal == /\ Messages \subseteq Strings /\ Tags \subseteq Strings
                   /\ Keys \subseteq Strings /\ Infos \subseteq Strings

ASSUME ExpandAssumption == SizesAreLegal /\ StringsAreLegal

VARIABLES
  pc,           \* "idle", "xmd", "hkdf", "done"
  request,      \* [op, msg, dst, len, room], or the arguments of hkdf
  first, prev,  \* b0 or prk, and b_(i-1) or T(i-1)
  i, out, ret

expandVars == <<pc, request, first, prev, i, out, ret>>

Byte(v) == <<v % ByteBase>>
Digest(s) == [j \in 1 .. DIGEST |-> <<s, j>>]
Xor(a, b) == [j \in 1 .. Len(a) |-> <<a[j], b[j], 0>>]
Repeat(byte, n) == [j \in 1 .. n |-> byte]
UNSET == <<-1>>

Ceiling(len) == (len + DIGEST - 1) \div DIGEST

(* memcpy to a position of the output: a copy past its end makes it grow.  *)
Copied(at, bytes) ==
  SubSeq(out, 1, at) \o bytes \o SubSeq(out, at + Len(bytes) + 1, Len(out))

Taken(digest, len, at) == SubSeq(digest, 1, IF len - at < DIGEST THEN len - at ELSE DIGEST)

ExpandInit == /\ pc = "idle" /\ request = [op |-> "none"] /\ first = <<>> /\ prev = <<>>
              /\ i = 0 /\ out = <<>> /\ ret = 0

-----------------------------------------------------------------------------
OVERSIZE == <<<<ByteBase>>>>            \* "H2C-OVERSIZE-DST-", not a byte

normalise_dst(dst) == IF Len(dst) <= ByteBase - 1 THEN dst
                                                  ELSE Digest(OVERSIZE \o dst)

Unsuffixed(dst) == normalise_dst(dst)                         \* variant

DST_prime(dst) == Append(normalise_dst(dst), Byte(Len(normalise_dst(dst))))

LowByteOnly(len) == <<Byte(0), Byte(len)>>                    \* variant

l_i_b_str(len) == <<Byte(len \div ByteBase), Byte(len)>>

B0String(msg, dst, len) ==
  Repeat(Byte(0), BLOCK) \o msg \o l_i_b_str(len) \o <<Byte(0)>> \o DST_prime(dst)

OneTooMany(len) == Ceiling(len) > ByteBase                    \* variant

XmdRefuses(len) == Ceiling(len) > ByteBase - 1 \/ len > ByteBase * ByteBase - 1

(* How many bytes each entry asks for, and how many it has room for.       *)
Asked(op, count) == IF op = "fp" THEN count * H2C_L ELSE count * 2 * H2C_L
Room(op) == IF op = "fp" THEN 2 * H2C_L ELSE 4 * H2C_L

Expand(op, msg, dst, len, room) ==
  /\ request' = [op |-> op, msg |-> msg, dst |-> dst, len |-> len]
  /\ out' = Repeat(UNSET, room)
  /\ IF dst = <<>> \/ XmdRefuses(len)
     THEN ret' = -1 /\ pc' = "done" /\ UNCHANGED <<first, i>>
     ELSE /\ first' = Digest(B0String(msg, dst, len))
          /\ i' = 1 /\ pc' = "xmd" /\ UNCHANGED ret
  /\ UNCHANGED prev

ExpandMessage == /\ pc = "idle"
                 /\ \E msg \in Messages, dst \in Tags, len \in 0 .. MaxAsked :
                      Expand("bytes", msg, dst, len, len)

HashToField == /\ pc = "idle"
               /\ \E op \in {"fp", "fp2"}, count \in 1 .. 2,
                     msg \in Messages, dst \in Tags :
                    Expand(op, msg, dst, Asked(op, count), Room(op))

XmdBlock ==
  /\ pc = "xmd" /\ i <= Ceiling(request.len)
  /\ LET chained == IF i = 1 THEN first ELSE Xor(first, prev)
         b == Digest(chained \o <<Byte(i)>> \o DST_prime(request.dst))
         off == (i - 1) * DIGEST
     IN  prev' = b /\ out' = Copied(off, Taken(b, request.len, off))
  /\ i' = i + 1
  /\ UNCHANGED <<pc, request, first, ret>>

XmdEnd == /\ pc = "xmd" /\ i > Ceiling(request.len) /\ pc' = "done"
          /\ UNCHANGED <<request, first, prev, i, out, ret>>

(* The elements a caller of hash_to_field is given: each the bytes of its  *)
(* value, least significant first, before the reduction; zero for failure. *)
reduce_to_fp(be) == Reverse(be)

Elements ==
  [j \in 1 .. request.len \div H2C_L |->
     IF ret # 0 THEN <<>>
     ELSE reduce_to_fp(SubSeq(out, (j - 1) * H2C_L + 1, j * H2C_L))]

-----------------------------------------------------------------------------
(* A key longer than the block is hashed, any other padded with zeros.     *)
PaddedKey(key) ==
  LET k == IF Len(key) > BLOCK THEN Digest(key) ELSE key
  IN  k \o Repeat(Byte(0), BLOCK - Len(k))

elips_hmac_sha256(key, msg) ==
  LET k == PaddedKey(key)
      ipad == Repeat(<<54>>, BLOCK)
      opad == Repeat(<<92>>, BLOCK)
  IN  Digest(Xor(k, opad) \o Digest(Xor(k, ipad) \o msg))

elips_hkdf_extract(salt, ikm) == elips_hmac_sha256(salt, ikm)

(* Extract, then expand; the two refusals of expand.                       *)
HkdfRefuses(len, info) == len > (ByteBase - 1) * DIGEST \/ Len(info) > INFO_MAX

HkdfStart ==
  /\ pc = "idle"
  /\ \E salt \in Keys, ikm \in Messages, info \in Infos, len \in 0 .. MaxAsked :
       /\ request' = [op |-> "hkdf", salt |-> salt, ikm |-> ikm, info |-> info,
                   len |-> len]
       /\ out' = Repeat(UNSET, len)
       /\ first' = elips_hkdf_extract(salt, ikm)
       /\ IF HkdfRefuses(len, info)
          THEN ret' = -1 /\ pc' = "done" /\ UNCHANGED i
          ELSE i' = 1 /\ pc' = "hkdf" /\ UNCHANGED ret
  /\ UNCHANGED prev

Done == (i - 1) * DIGEST

HkdfBlock ==
  /\ pc = "hkdf" /\ Done < request.len
  /\ LET block == (IF i > 1 THEN prev ELSE <<>>) \o Append(request.info, Byte(i))
         t == elips_hmac_sha256(first, block)
     IN  prev' = t /\ out' = Copied(Done, Taken(t, request.len, Done))
  /\ i' = i + 1
  /\ UNCHANGED <<pc, request, first, ret>>

HkdfEnd == /\ pc = "hkdf" /\ Done >= request.len /\ pc' = "done"
           /\ UNCHANGED <<request, first, prev, i, out, ret>>

(* The caller takes its bytes; the locals are gone.                        *)
Deliver == /\ pc = "done" /\ pc' = "idle" /\ request' = [op |-> "none"]
           /\ first' = <<>> /\ prev' = <<>> /\ i' = 0 /\ out' = <<>> /\ ret' = 0

ExpandNext == \/ ExpandMessage \/ HashToField \/ XmdBlock \/ XmdEnd
              \/ HkdfStart \/ HkdfBlock \/ HkdfEnd \/ Deliver

ExpandSpec == ExpandInit /\ [][ExpandNext]_expandVars

-----------------------------------------------------------------------------
(* RFC 9380, 5.3.1 and 5.3.3, and RFC 5869, 2.3, by their words: all the   *)
(* blocks, concatenated, of which the first len bytes are the answer.      *)
I2OSP(v, n) ==                          \* what does not fit is not a byte
  IF n = 1 THEN <<<<v>>>> ELSE <<<<v \div ByteBase>>, <<v % ByteBase>>>>

Tag(dst) == LET short == IF Len(dst) > ByteBase - 1 THEN Digest(OVERSIZE \o dst)
                         ELSE dst
            IN  short \o I2OSP(Len(short), 1)

RFC9380(msg, dst, len) ==
  LET ell == Ceiling(len)
      b_0 == Digest(Repeat(Byte(0), BLOCK) \o msg \o I2OSP(len, 2) \o I2OSP(0, 1)
                    \o Tag(dst))
      b[k \in 0 .. ell] ==
        CASE k = 0 -> b_0
          [] k = 1 -> Digest(b_0 \o I2OSP(1, 1) \o Tag(dst))
          [] OTHER -> Digest(Xor(b_0, b[k - 1]) \o I2OSP(k, 1) \o Tag(dst))
  IN  SubSeq(FlattenSeq([k \in 1 .. ell |-> b[k]]), 1, len)

RFC2104(key, msg) ==
  LET short == IF Len(key) > BLOCK THEN Digest(key) ELSE key
      pad(by) == [j \in 1 .. BLOCK |->
                    <<IF j <= Len(short) THEN short[j] ELSE Byte(0), <<by>>, 0>>]
  IN  Digest(pad(92) \o Digest(pad(54) \o msg))

RFC5869(salt, ikm, info, len) ==
  LET N == Ceiling(len)
      PRK == RFC2104(salt, ikm)
      T[k \in 0 .. N] ==
        IF k = 0 THEN <<>> ELSE RFC2104(PRK, T[k - 1] \o info \o I2OSP(k, 1))
  IN  SubSeq(FlattenSeq([k \in 1 .. N |-> T[k]]), 1, len)

(***************************************************************************)
(* Whatever is asked for, the answer is the standards' at every length up  *)
(* to the last the one-byte index can count, and not a byte more: what is  *)
(* past it in the buffer is as it was.  Longer requests are refused, not   *)
(* answered with an index that wrapped, and leave no field element but     *)
(* zero.                                                                   *)
(***************************************************************************)
ExpansionIsStandard ==
  pc = "done" =>
    LET len == request.len
        legal == /\ Ceiling(len) < ByteBase
                 /\ IF request.op = "hkdf" THEN Len(request.info) <= INFO_MAX
                                        ELSE request.dst # <<>>
        standard == IF request.op = "hkdf"
                    THEN RFC5869(request.salt, request.ikm, request.info, len)
                    ELSE RFC9380(request.msg, request.dst, len)
    IN  /\ (ret = 0) = legal
        /\ IF legal THEN SubSeq(out, 1, len) = standard
           ELSE \A j \in 1 .. Len(out) : out[j] = UNSET
        /\ Len(out) = (IF request.op \in {"fp", "fp2"} THEN Room(request.op) ELSE len)
        /\ \A j \in len + 1 .. Len(out) : out[j] = UNSET
        /\ request.op \in {"fp", "fp2"} =>
             \A k \in DOMAIN Elements :
               Elements[k] = IF legal
                             THEN [j \in 1 .. H2C_L |-> standard[k * H2C_L + 1 - j]]
                             ELSE <<>>

(* The lengths expand_message_xmd answers.                                 *)
Answered == {len \in 0 .. (ByteBase - 1) * DIGEST : ~XmdRefuses(len)}

(***************************************************************************)
(* Two calls that differ in the message, the tag or the length hash        *)
(* different strings (hash_to_curve.c:42-65): the length field keeps a     *)
(* short answer from being the start of a long one, and where the message  *)
(* ends and the tag begins can be read off the end of the string, so that  *)
(* no message of one protocol is a message and part of the tag of another. *)
(***************************************************************************)
DomainsAreApart ==
  pc = "xmd" /\ i = 1 =>
    \A msg \in Messages, dst \in Tags \ {<<>>}, len \in Answered :
      B0String(msg, dst, len) = B0String(request.msg, request.dst, request.len)
      => msg = request.msg /\ dst = request.dst /\ len = request.len
=============================================================================
