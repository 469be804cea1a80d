----------------------------- MODULE Sha256Stream ----------------------------
(***************************************************************************)
(* The streaming interface of hash/sha256.c: a message arrives in pieces   *)
(* of any length, is buffered to whole blocks, padded and finalised.  A    *)
(* byte of the message is named by its position in the stream, so that a   *)
(* block compressed twice, late or with a stale byte is visible; the hash  *)
(* state s_h is the sequence of blocks compressed so far.                  *)
(***************************************************************************)
EXTENDS Integers, Sequences, SequencesExt

CONSTANTS
  Block,                   \* ELIPS_SHA256_BLOCK, 64 in the code
  LenBytes,                \* bytes of the encoded length, 8 in the code
  ByteBits,                \* bits in a byte of that length, 8 in the code
  MaxFed                   \* bound on the message

BlockIsLegal ==
  /\ LenBytes \in Nat \ {0} /\ Block \in Nat /\ Block > LenBytes + 1
  /\ ByteBits \in Nat \ {0} /\ MaxFed \in Nat

ASSUME StreamAssumption == BlockIsLegal

VARIABLES
  mode,                    \* "open", "final" or "done"
  s_len,                   \* s->len
  fed,                     \* history: s->len before the padding
  s_buf, s_buf_len,        \* s->buf, s->buf_len
  s_h,                     \* s->h as the blocks compressed, in order
  piece,                   \* what is left of data, the piece being absorbed
  step                     \* where elips_sha256_update is

streamVars == <<mode, s_len, fed, s_buf, s_buf_len, s_h, piece, step>>

(* Bytes.                                                                  *)
Stale == <<"stale", 0>>    \* not written since elips_sha256_init
Message(x) == <<"message", x>>
Marker == <<"pad", 128>>
Zero == <<"pad", 0>>
Length(v) == <<"length", v>>

StreamInit == /\ mode = "open" /\ s_len = 0 /\ fed = 0 /\ s_buf_len = 0 /\ s_h = <<>>
              /\ s_buf = [x \in 1 .. Block |-> Stale]
              /\ piece = <<>> /\ step = "none"

-----------------------------------------------------------------------------
(* elips_sha256_update: top up a part-filled buffer, then compress whole   *)
(* blocks from the input, then keep the rest.                              *)
Least(a, b) == IF a < b THEN a ELSE b

AtTheStart(to, at, bytes) ==  \* variant: ignores what is buffered
  [x \in 1 .. Block |-> IF x <= Len(bytes) THEN bytes[x] ELSE to[x]]

Written(to, at, bytes) ==  \* memcpy(to + at, bytes)
  [x \in 1 .. Block |-> IF x \in at + 1 .. at + Len(bytes) THEN bytes[x - at]
                        ELSE to[x]]

Take(input) == Least(Block - s_buf_len, Len(input))

UpdateHead ==
  /\ step = "head"
  /\ IF s_buf_len = 0 THEN UNCHANGED <<s_buf, s_buf_len, s_h, piece>>
     ELSE LET take == Take(piece)
              filled == Written(s_buf, s_buf_len, SubSeq(piece, 1, take))
          IN /\ s_buf' = filled
             /\ piece' = SubSeq(piece, take + 1, Len(piece))
             /\ IF s_buf_len + take = Block
                THEN s_h' = Append(s_h, filled) /\ s_buf_len' = 0
                ELSE s_buf_len' = s_buf_len + take /\ UNCHANGED s_h
  /\ step' = "blocks"
  /\ UNCHANGED <<mode, s_len, fed>>

WholeBlock(input) == Len(input) >= Block

UpdateBlock ==
  /\ step = "blocks" /\ WholeBlock(piece)
  /\ s_h' = Append(s_h, SubSeq(piece, 1, Block))
  /\ piece' = SubSeq(piece, Block + 1, Len(piece))
  /\ UNCHANGED <<mode, s_len, fed, s_buf, s_buf_len, step>>

UpdateTail ==
  /\ step = "blocks" /\ ~WholeBlock(piece)
  /\ IF piece = <<>> THEN UNCHANGED <<s_buf, s_buf_len>>
     ELSE s_buf' = Written(s_buf, 0, piece) /\ s_buf_len' = Len(piece)
  /\ piece' = <<>> /\ step' = "none"
  /\ mode' = IF mode = "final" THEN "done" ELSE mode
  /\ UNCHANGED <<s_len, fed, s_h>>

(* The caller hands over the next piece; s->len counts it at once.         *)
Update ==
  /\ mode = "open" /\ step = "none"
  /\ \E count \in 0 .. MaxFed - s_len :
       /\ piece' = [x \in 1 .. count |-> Message(s_len + x)]
       /\ s_len' = s_len + count /\ fed' = s_len'
  /\ step' = "head"
  /\ UNCHANGED <<mode, s_buf, s_buf_len, s_h>>

-----------------------------------------------------------------------------
(* elips_sha256_final: the length is taken before the padding is absorbed, *)
(* the padding is long enough for the marker and the length, and goes      *)
(* through update like any other input.                                    *)
LengthByte(bits, i) == (bits \div (2 ^ (ByteBits * i))) % 2 ^ ByteBits

PaddingLen(room) == IF room < LenBytes + 1 THEN room + Block ELSE room

Padding ==
  LET bits == s_len * 8
      n == PaddingLen(Block - (s_len % Block))
  IN  [x \in 1 .. n |->
         CASE x = 1 -> Marker
           [] x > n - LenBytes -> Length(LengthByte(bits, n - x))
           [] OTHER -> Zero]

Final ==
  /\ mode = "open" /\ step = "none"
  /\ mode' = "final"
  /\ piece' = Padding /\ s_len' = s_len + Len(piece') /\ step' = "head"
  /\ UNCHANGED <<fed, s_buf, s_buf_len, s_h>>

(* elips_sha256_init does not clear the buffer: what it holds is stale.    *)
Restart ==
  /\ mode = "done" /\ mode' = "open"
  /\ s_len' = 0 /\ fed' = 0 /\ s_buf_len' = 0 /\ s_h' = <<>>
  /\ s_buf' = [x \in 1 .. Block |-> Stale]
  /\ UNCHANGED <<piece, step>>

StreamNext == UpdateHead \/ UpdateBlock \/ UpdateTail \/ Update \/ Final \/ Restart

StreamSpec == StreamInit /\ [][StreamNext]_streamVars

-----------------------------------------------------------------------------
(* Padding as FIPS 180-4 words it: a marker, the least number of zeros     *)
(* that completes a block together with the length, then the length.       *)
Zeros(m) == CHOOSE z \in 0 .. Block - 1 : (m + 1 + z + LenBytes) % Block = 0

Standard(m) ==
  [x \in 1 .. m |-> Message(x)] \o <<Marker>> \o
  [x \in 1 .. Zeros(m) |-> Zero] \o
  [x \in 1 .. LenBytes |-> Length(LengthByte(8 * m, LenBytes - x))]

(***************************************************************************)
(* However the caller cuts the message, what was compressed, what is       *)
(* buffered and what is still to be read are, at every point of every      *)
(* update, the stream so far in order: nothing is lost, repeated or stale  *)
(* (sha256.c:70).  A finalised hash is that of the standard padding of     *)
(* exactly the message fed, at every length around a block boundary        *)
(* (sha256.c:89).                                                          *)
(***************************************************************************)
StreamIsStandard ==
  /\ FlattenSeq(s_h) \o SubSeq(s_buf, 1, s_buf_len) \o piece =
       SubSeq(Standard(fed), 1, s_len)
  /\ mode = "done" => FlattenSeq(s_h) = Standard(fed) /\ s_buf_len = 0
=============================================================================
