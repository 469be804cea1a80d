---------------------------- MODULE Hashing_proofs ---------------------------
(***************************************************************************)
(* What is made of SHA-256, for every size of block and digest and any     *)
(* strings: the streaming interface, and what expand_message_xmd and HKDF  *)
(* write block after block.                                                *)
(*                                                                         *)
(* The sequences in both are of no fixed length, and FlattenSeq is defined *)
(* by recursion.  The lemmas that come first say what it does to sequences *)
(* of any length, by the least number for which they would fail.           *)
(***************************************************************************)
EXTENDS Sha256Stream, ExpandMessage, SequenceTheorems, WellFoundedInduction,
        NaturalsInduction, TLAPS

(* A set of natural numbers that is not empty has a least member.          *)
LEMMA LeastNatural ==
  ASSUME NEW T \in SUBSET Nat, T # {}
  PROVE  \E x \in T : \A y \in T : x <= y
<1> DEFINE Less == OpToRel(<, Nat)
<1>1. \A x, y \in Nat : <<y, x>> \in Less <=> y < x
  BY DEF OpToRel
<1>2. IsWellFoundedOn(Less, Nat)
  BY Zenon, NatLessThanWellFounded
<1>3. PICK x \in T : \A y \in T : ~(<<y, x>> \in Less)
  <2> HIDE DEF Less
  <2>. QED  BY Zenon, <1>2, WFMin
<1> HIDE DEF Less
<1>4. ASSUME NEW y \in T PROVE x <= y
  <2>1. x \in Nat /\ y \in Nat  OBVIOUS
  <2>2. ~(y < x)  BY Zenon, <1>1, <1>3, <2>1
  <2>. QED  BY <2>1, <2>2
<1>. QED  BY <1>4

(* Induction, over a set in place of an operator.                          *)
LEMMA NatSetInduction ==
  ASSUME NEW good, 0 \in good, \A n \in Nat : n \in good => n + 1 \in good
  PROVE  \A n \in Nat : n \in good
<1> DEFINE bad == {n \in Nat : n \notin good}
<1> SUFFICES ASSUME bad # {} PROVE FALSE
  OBVIOUS
<1>1. PICK m \in bad : \A y \in bad : m <= y
  <2> bad \in SUBSET Nat  OBVIOUS
  <2> HIDE DEF bad
  <2>. QED  BY LeastNatural
<1>2. m \in Nat /\ m # 0 /\ m \notin good  OBVIOUS
<1>3. m - 1 \in Nat  BY <1>2
<1>4. m - 1 \in good  BY <1>1, <1>3
<1>5. (m - 1) + 1 \in good  BY <1>3, <1>4
<1>. QED  BY <1>2, <1>5

-----------------------------------------------------------------------------
(* FlattenSeq, whose recursive function is chosen among the solutions of   *)
(* its equation.                                                           *)
Flattens(s, n, f) ==
  f = [y \in 1 .. n |-> IF y = 1 THEN s[y] ELSE f[y - 1] \o s[y]]

(* What a solution is at each index.                                       *)
LEMMA FlatteningAt ==
  ASSUME NEW s, NEW n, NEW f, Flattens(s, n, f), NEW y \in 1 .. n
  PROVE  f[y] = IF y = 1 THEN s[y] ELSE f[y - 1] \o s[y]
<1> DEFINE e(j) == IF j = 1 THEN s[j] ELSE f[j - 1] \o s[j]
<1>1. f = [j \in 1 .. n |-> e(j)]  BY Zenon DEF Flattens
<1> HIDE DEF e
<1>2. [j \in 1 .. n |-> e(j)][y] = e(y)  OBVIOUS
<1>3. f[y] = e(y)  BY Zenon, <1>1, <1>2
<1>. QED  BY Zenon, <1>3 DEF e

(* There is a solution.                                                    *)
LEMMA FlatteningExists ==
  ASSUME NEW s
  PROVE  \A n \in Nat : \E f : Flattens(s, n, f)
<1> DEFINE good == {n \in Nat : \E f : Flattens(s, n, f)}
<1>1. 0 \in good
  <2>1. Flattens(s, 0, [y \in 1 .. 0 |-> s[y]])  BY DEF Flattens
  <2>. QED  BY <2>1
<1>2. ASSUME NEW n \in Nat, n \in good PROVE n + 1 \in good
  <2>1. PICK f : Flattens(s, n, f)  BY <1>2
  <2> DEFINE g == [y \in 1 .. n + 1 |->
                     IF y <= n THEN f[y] ELSE IF y = 1 THEN s[y] ELSE f[y - 1] \o s[y]]
  <2>2. \A y \in 1 .. n : f[y] = IF y = 1 THEN s[y] ELSE f[y - 1] \o s[y]
    BY <2>1 DEF Flattens
  <2>3. \A y \in 1 .. n : g[y] = f[y]  OBVIOUS
  <2>4. \A y \in 1 .. n + 1 : g[y] = IF y = 1 THEN s[y] ELSE g[y - 1] \o s[y]
    <3>1. ASSUME NEW y \in 1 .. n + 1
          PROVE  g[y] = IF y = 1 THEN s[y] ELSE g[y - 1] \o s[y]
      <4>1. g[y] = IF y = 1 THEN s[y] ELSE f[y - 1] \o s[y]  BY <2>2
      <4>2. y # 1 => g[y - 1] = f[y - 1]  BY <2>3
      <4> HIDE DEF g
      <4>. QED  BY <4>1, <4>2
    <3>. QED  BY <3>1
  <2>5. g = [y \in 1 .. n + 1 |-> g[y]]  OBVIOUS
  <2>6. Flattens(s, n + 1, g)
    <3> HIDE DEF g
    <3>. QED  BY <2>4, <2>5 DEF Flattens
  <2>. QED  BY <2>6
<1> HIDE DEF good
<1>3. \A n \in Nat : n \in good  BY <1>1, <1>2, NatSetInduction
<1>. QED  BY <1>3 DEF good

(* Solutions agree as far as the sequences do.                             *)
Agree(s, t, k) == \A y \in 1 .. k : s[y] = t[y]

(* There is one way to flatten a sequence of sequences.                    *)
LEMMA FlatteningsAgree ==
  ASSUME NEW s, NEW m \in Nat, NEW f, Flattens(s, m, f),
         NEW t, NEW n \in Nat, NEW g, Flattens(t, n, g),
         NEW k \in Nat, k <= m, k <= n, Agree(s, t, k)
  PROVE  Agree(f, g, k)
<1> DEFINE good == {y \in Nat : y \in 1 .. k => f[y] = g[y]}
<1>0. \A y \in 1 .. k : y \in 1 .. m /\ y \in 1 .. n  OBVIOUS
<1>1. ASSUME NEW y \in 1 .. k
      PROVE  f[y] = IF y = 1 THEN s[y] ELSE f[y - 1] \o s[y]
  BY <1>0, FlatteningAt
<1>2. ASSUME NEW y \in 1 .. k
      PROVE  g[y] = IF y = 1 THEN t[y] ELSE g[y - 1] \o t[y]
  BY <1>0, FlatteningAt
<1>3. 0 \in good  OBVIOUS
<1>4. ASSUME NEW y \in Nat, y \in good PROVE y + 1 \in good
  <2> SUFFICES ASSUME y + 1 \in 1 .. k PROVE f[y + 1] = g[y + 1]
    OBVIOUS
  <2>1. s[y + 1] = t[y + 1]  BY DEF Agree
  <2>2. y = 0 \/ f[y] = g[y]  BY <1>4
  <2>3. (y + 1) - 1 = y  OBVIOUS
  <2>. QED  BY <1>1, <1>2, <2>1, <2>2, <2>3
<1> HIDE DEF good
<1>5. \A y \in Nat : y \in good  BY <1>3, <1>4, NatSetInduction
<1>. QED  BY <1>5 DEF good, Agree

(* Nothing flattens to nothing.                                            *)
LEMMA FlattenNone == FlattenSeq(<<>>) = <<>>
BY DEF FlattenSeq

(* The last value of a solution is what FlattenSeq returns.                *)
LEMMA FlattenIsLast ==
  ASSUME NEW s, Len(s) \in Nat, Len(s) # 0
  PROVE  \E f : Flattens(s, Len(s), f) /\ FlattenSeq(s) = f[Len(s)]
<1> DEFINE f == CHOOSE f : Flattens(s, Len(s), f)
<1>1. Flattens(s, Len(s), f)  BY FlatteningExists
<1>2. FlattenSeq(s) = f[Len(s)]  BY DEF FlattenSeq, Flattens
<1> HIDE DEF f
<1>. QED  BY <1>1, <1>2

(* What is appended is concatenated.                                       *)
LEMMA FlattenAppend ==
  ASSUME NEW B, NEW s \in Seq(Seq(B)), NEW e \in Seq(B)
  PROVE  FlattenSeq(Append(s, e)) = FlattenSeq(s) \o e
<1> DEFINE t == Append(s, e)
           n == Len(s)
<1>1. /\ n \in Nat /\ Len(t) = n + 1 /\ t[n + 1] = e
      /\ \A y \in 1 .. n : t[y] = s[y]
  <2>1. n \in Nat  OBVIOUS
  <2>2. Len(t) = n + 1 /\ t[n + 1] = e /\ \A y \in 1 .. n : t[y] = s[y]
    BY AppendProperties
  <2>. QED  BY <2>1, <2>2
<1> HIDE DEF t
<1>2. PICK g : Flattens(t, n + 1, g) /\ FlattenSeq(t) = g[n + 1]
  BY <1>1, FlattenIsLast
<1>3. g[n + 1] = IF n + 1 = 1 THEN t[n + 1] ELSE g[(n + 1) - 1] \o t[n + 1]
  <2>1. n + 1 \in 1 .. n + 1  BY <1>1
  <2>. QED  BY <1>2, <2>1 DEF Flattens
<1>4. CASE n = 0
  <2>1. s = <<>>  BY <1>4
  <2>2. FlattenSeq(t) = e  BY <1>1, <1>2, <1>3, <1>4
  <2>3. FlattenSeq(s) \o e = e  BY <2>1, FlattenNone
  <2>. QED  BY <2>2, <2>3 DEF t
<1>5. CASE n # 0
  <2>1. PICK f : Flattens(s, n, f) /\ FlattenSeq(s) = f[n]
    BY <1>1, <1>5, FlattenIsLast
  <2>2. Agree(g, f, n)
    <3>1. n \in Nat /\ n + 1 \in Nat /\ n <= n + 1 /\ n <= n  BY <1>1
    <3>2. Agree(t, s, n)  BY <1>1 DEF Agree
    <3> HIDE DEF n
    <3>. QED  BY <1>2, <2>1, <3>1, <3>2, FlatteningsAgree
  <2>3. g[n] = f[n]  BY <1>1, <1>5, <2>2 DEF Agree
  <2>4. (n + 1) - 1 = n /\ n + 1 # 1  BY <1>1, <1>5
  <2>. QED  BY <1>1, <1>2, <1>3, <2>1, <2>3, <2>4 DEF t
<1>. QED  BY <1>4, <1>5

-----------------------------------------------------------------------------
(* The stream.  What an update leaves is right because of what holds in    *)
(* the middle of one: the blocks compressed, what is buffered and what is  *)
(* still to be read are the stream so far, in order; whole blocks only are *)
(* compressed; and once the head is done either nothing is buffered or     *)
(* nothing is left to read (sha256.c:66-87).                               *)

(* The bytes a stream is made of.                                          *)
Bytes == {Stale, Marker, Zero} \cup {Message(x) : x \in Nat}
         \cup {Length(LengthByte(8 * m, y)) : m \in Nat, y \in Nat}

(* The first m bytes of the message.                                       *)
FirstBytes(m) == [x \in 1 .. m |-> Message(x)]

(* The types of the state, between and inside updates.                     *)
Shape ==
  /\ mode \in {"open", "final", "done"} /\ step \in {"none", "head", "blocks"}
  /\ s_len \in Nat /\ fed \in Nat /\ piece \in Seq(Bytes)
  /\ s_buf \in [1 .. Block -> Bytes] /\ s_buf_len \in 0 .. Block - 1
  /\ s_h \in Seq(Seq(Bytes)) /\ FlattenSeq(s_h) \in Seq(Bytes)

(* What is compressed is a whole number of blocks.                         *)
WholeBlocks == \E q \in Nat : Len(FlattenSeq(s_h)) = Block * q

(* Where an update is says what it has left.                               *)
Places ==
  /\ step = "none" => piece = <<>>
  /\ step = "blocks" => piece = <<>> \/ s_buf_len = 0
  /\ mode = "final" => step # "none"
  /\ mode = "done" => step = "none" /\ s_buf_len = 0

(* All that was handed over so far, padding included.                      *)
Fed == FlattenSeq(s_h) \o SubSeq(s_buf, 1, s_buf_len) \o piece

(* It is the message so far, or the message and all its padding.           *)
InOrder ==
  IF mode = "open" THEN fed = s_len /\ Fed = FirstBytes(s_len)
  ELSE s_len = Len(Standard(fed)) /\ Fed = Standard(fed)

StreamIInv == Shape /\ WholeBlocks /\ Places /\ InOrder

-----------------------------------------------------------------------------
(* The sizes, as numbers.                                                  *)
LEMMA LegalSizes ==
  ASSUME BlockIsLegal
  PROVE  /\ Block \in Nat /\ LenBytes \in Nat /\ LenBytes > 0
         /\ Block > LenBytes + 1 /\ Block > 2
BY DEF BlockIsLegal

(* A prefix of the buffer is a sequence of bytes, as long as it says.      *)
LEMMA Prefix ==
  ASSUME NEW B, NEW b \in [1 .. Block -> B], Block \in Nat, NEW n \in 0 .. Block
  PROVE  /\ SubSeq(b, 1, n) \in Seq(B) /\ Len(SubSeq(b, 1, n)) = n
         /\ \A x \in 1 .. n : SubSeq(b, 1, n)[x] = b[x]
<1>1. \A x \in 1 .. n : b[x] \in B  OBVIOUS
<1>2. 1 \in Int /\ n \in Int  OBVIOUS
<1>3. /\ SubSeq(b, 1, n) \in Seq(B)
      /\ Len(SubSeq(b, 1, n)) = IF 1 <= n THEN n - 1 + 1 ELSE 0
      /\ \A x \in 1 .. n - 1 + 1 : SubSeq(b, 1, n)[x] = b[1 + x - 1]
  BY <1>1, <1>2, SubSeqProperties
<1>. QED  BY <1>3

(* memcpy after what is buffered appends to it.                            *)
LEMMA WrittenAppends ==
  ASSUME NEW B, Block \in Nat, NEW b \in [1 .. Block -> B], NEW s \in Seq(B),
         NEW n \in 0 .. Block, n + Len(s) <= Block
  PROVE  /\ Written(b, n, s) \in [1 .. Block -> B]
         /\ SubSeq(Written(b, n, s), 1, n + Len(s)) = SubSeq(b, 1, n) \o s
<1> DEFINE w == Written(b, n, s)
           k == n + Len(s)
<1>1. Len(s) \in Nat /\ k \in 0 .. Block /\ \A x \in 1 .. Len(s) : s[x] \in B
  OBVIOUS
<1>2. /\ w \in [1 .. Block -> B]
      /\ \A x \in 1 .. k : w[x] = IF x <= n THEN b[x] ELSE s[x - n]
  BY <1>1 DEF Written
<1> HIDE DEF w
<1>3. /\ SubSeq(w, 1, k) \in Seq(B) /\ Len(SubSeq(w, 1, k)) = k
      /\ \A x \in 1 .. k : SubSeq(w, 1, k)[x] = w[x]
  <2> HIDE DEF k
  <2>. QED  BY <1>1, <1>2, Prefix
<1> DEFINE p == SubSeq(b, 1, n)
<1>4. p \in Seq(B) /\ Len(p) = n /\ \A x \in 1 .. n : p[x] = b[x]
  BY Prefix
<1> HIDE DEF p
<1>5. /\ p \o s \in Seq(B) /\ Len(p \o s) = k
      /\ \A x \in 1 .. k : (p \o s)[x] = IF x <= n THEN p[x] ELSE s[x - n]
  BY <1>4, ConcatProperties
<1> DEFINE l == SubSeq(w, 1, k)
           r == p \o s
<1>6. \A x \in 1 .. k : l[x] = r[x]  BY <1>1, <1>2, <1>3, <1>4, <1>5
<1>7. l \in Seq(B) /\ r \in Seq(B) /\ Len(l) = k /\ Len(r) = k
  BY <1>3, <1>5
<1>8. l = r
  <2> HIDE DEF l, r, k
  <2>. QED  BY <1>6, <1>7, SeqEqual
<1>. QED  BY <1>2, <1>8 DEF w, p

(* What is read and what is left are all there was.                        *)
LEMMA Cut ==
  ASSUME NEW B, NEW s \in Seq(B), NEW n \in 0 .. Len(s)
  PROVE  /\ SubSeq(s, 1, n) \in Seq(B) /\ SubSeq(s, n + 1, Len(s)) \in Seq(B)
         /\ Len(SubSeq(s, 1, n)) = n /\ Len(SubSeq(s, n + 1, Len(s))) = Len(s) - n
         /\ s = SubSeq(s, 1, n) \o SubSeq(s, n + 1, Len(s))
<1>1. Len(s) \in Nat  OBVIOUS
<1>2. /\ SubSeq(s, 1, n) \in Seq(B) /\ Len(SubSeq(s, 1, n)) = n
  <2>1. \A x \in 1 .. n : s[x] \in B  BY <1>1
  <2>2. 1 \in Int /\ n \in Int  OBVIOUS
  <2>3. /\ SubSeq(s, 1, n) \in Seq(B)
        /\ Len(SubSeq(s, 1, n)) = IF 1 <= n THEN n - 1 + 1 ELSE 0
    BY <2>1, <2>2, SubSeqProperties
  <2>. QED  BY <2>3
<1>3. /\ SubSeq(s, n + 1, Len(s)) \in Seq(B)
      /\ Len(SubSeq(s, n + 1, Len(s))) = Len(s) - n
  <2> DEFINE m == n + 1
             k == Len(s)
  <2>1. \A x \in m .. k : s[x] \in B  BY <1>1
  <2>2. m \in Int /\ k \in Int  BY <1>1
  <2>3. /\ SubSeq(s, m, k) \in Seq(B)
        /\ Len(SubSeq(s, m, k)) = IF m <= k THEN k - m + 1 ELSE 0
    <3> HIDE DEF m, k
    <3>. QED  BY <2>1, <2>2, SubSeqProperties
  <2>. QED  BY <1>1, <2>3
<1>4. SubSeq(s, 1, n) \o SubSeq(s, n + 1, Len(s)) = SubSeq(s, 1, Len(s))
  <2>1. 1 \in 1 .. Len(s) + 1 /\ n \in 1 - 1 .. Len(s) /\ Len(s) \in n .. Len(s)
    BY <1>1
  <2>. QED  BY <2>1, ConcatAdjacentSubSeq
<1>5. SubSeq(s, 1, Len(s)) = s  BY SubSeqFull
<1>. QED  BY <1>2, <1>3, <1>4, <1>5

-----------------------------------------------------------------------------
(* A multiple of the block shorter than a block is nothing.                *)
LEMMA ShortMultiple ==
  ASSUME NEW b \in Nat, NEW a \in Int, NEW r \in Int, r = b * a,
         -b < r, r < b
  PROVE  r = 0
<1>1. ASSUME a > 0 PROVE FALSE
  <2>1. b * a >= b  BY <1>1
  <2>. QED  BY <2>1
<1>2. ASSUME a < 0 PROVE FALSE
  <2>1. b * (-a) >= b  BY <1>2
  <2>2. b * (-a) = -(b * a)  OBVIOUS
  <2>. QED  BY <2>1, <2>2
<1>3. a = 0  BY <1>1, <1>2
<1>. QED  BY <1>3

(* A number is a multiple and its remainder.                               *)
LEMMA Remainder ==
  ASSUME NEW b \in Nat, b > 0, NEW a \in Nat
  PROVE  a % b \in 0 .. b - 1 /\ \E q \in Nat : a = b * q + (a % b)
<1> DEFINE d == a \div b
           r == a % b
<1>1. d \in Int /\ a = b * d + r /\ r \in 0 .. b - 1  OBVIOUS
<1> HIDE DEF d, r
<1>2. ASSUME d < 0 PROVE FALSE
  <2>1. b * (-d) >= b  BY <1>1, <1>2
  <2>2. b * (-d) = -(b * d)  BY <1>1
  <2>. QED  BY <1>1, <2>1, <2>2
<1>3. d \in Nat  BY <1>1, <1>2
<1>4. r \in 0 .. b - 1 /\ \E q \in Nat : a = b * q + r  BY <1>1, <1>3
<1>. QED  BY <1>4 DEF r

(* The remainder of a multiple is zero.                                    *)
LEMMA RemainderOfMultiple ==
  ASSUME NEW b \in Nat, b > 0, NEW a \in Nat, NEW q \in Nat, a = b * q
  PROVE  a % b = 0
<1> DEFINE r == a % b
<1>1. r \in 0 .. b - 1 /\ \E d \in Nat : a = b * d + r  BY Remainder
<1>2. PICK d \in Nat : a = b * d + r  BY <1>1
<1> HIDE DEF r
<1>3. r = b * (q - d)
  <2>1. b * (q - d) = b * q - b * d  OBVIOUS
  <2>. QED  BY <1>1, <1>2, <2>1
<1>4. r \in Int /\ q - d \in Int /\ -b < r /\ r < b  BY <1>1
<1>5. r = 0  BY <1>3, <1>4, ShortMultiple
<1>. QED  BY <1>5 DEF r

(* There is one number of zeros that completes a block.                    *)
LEMMA ZerosAre ==
  ASSUME BlockIsLegal, NEW m \in Nat, NEW z \in 0 .. Block - 1,
         NEW q \in Nat, m + 1 + z + LenBytes = Block * q
  PROVE  Zeros(m) = z
<1>0. Block \in Nat /\ LenBytes \in Nat /\ Block > 0  BY LegalSizes
<1> DEFINE total(y) == m + 1 + y + LenBytes
<1>1. total(z) % Block = 0
  <2>1. total(z) \in Nat /\ total(z) = Block * q  BY <1>0
  <2> HIDE DEF total
  <2>. QED  BY <1>0, <2>1, RemainderOfMultiple
<1>2. ASSUME NEW y \in 0 .. Block - 1, total(y) % Block = 0
      PROVE  y = z
  <2> DEFINE a == total(y)
  <2>1. a \in Nat  BY <1>0
  <2>2. PICK p \in Nat : a = Block * p + (a % Block)
    <3> HIDE DEF a
    <3>. QED  BY <1>0, <2>1, Remainder
  <2>3. y - z = Block * (p - q)
    <3>1. Block * (p - q) = Block * p - Block * q  BY <1>0
    <3>2. a = Block * p  BY <1>0, <1>2, <2>2
    <3>. QED  BY <1>0, <3>1, <3>2
  <2>4. y - z \in Int /\ p - q \in Int /\ -Block < y - z /\ y - z < Block
    BY <1>0
  <2>5. y - z = 0  BY <1>0, <2>3, <2>4, ShortMultiple
  <2>. QED  BY <1>0, <2>5
<1>3. Zeros(m) = CHOOSE y \in 0 .. Block - 1 : total(y) % Block = 0
  BY DEF Zeros
<1> HIDE DEF total
<1>. QED  BY <1>1, <1>2, <1>3

(* elips_sha256_final chooses that number, and fills the last block.       *)
LEMMA PaddingFits ==
  ASSUME BlockIsLegal, NEW m \in Nat
  PROVE  LET n == PaddingLen(Block - (m % Block))
         IN  /\ n \in Nat /\ n = 1 + Zeros(m) + LenBytes /\ Zeros(m) \in Nat
             /\ \E q \in Nat : m + n = Block * q
<1> USE LegalSizes
<1> DEFINE r == m % Block
           n == PaddingLen(Block - r)
           z == n - 1 - LenBytes
<1>0. Block \in Nat /\ Block > 0  BY LegalSizes
<1>1. PICK d \in Nat : m = Block * d + r  BY <1>0, Remainder
<1>2. r \in 0 .. Block - 1  BY <1>0, Remainder
<1> HIDE DEF r
<1>3. \E q \in Nat : m + n = Block * q
  <2>1. CASE Block - r < LenBytes + 1
    <3>1. m + n = Block * (d + 2)  BY <1>1, <1>2, <2>1 DEF PaddingLen
    <3>. QED  BY <3>1
  <2>2. CASE ~(Block - r < LenBytes + 1)
    <3>1. m + n = Block * (d + 1)  BY <1>1, <1>2, <2>2 DEF PaddingLen
    <3>. QED  BY <3>1
  <2>. QED  BY <2>1, <2>2
<1>4. n \in Nat /\ z \in 0 .. Block - 1  BY <1>2 DEF PaddingLen
<1>5. Zeros(m) = z
  <2>1. PICK q \in Nat : m + n = Block * q  BY <1>3
  <2>2. m + 1 + z + LenBytes = Block * q  BY <1>4, <2>1
  <2> HIDE DEF z
  <2>. QED  BY <1>4, <2>2, ZerosAre
<1>. QED  BY <1>3, <1>4, <1>5 DEF r

(* Lengths add up.                                                         *)
LEMMA ConcatLength ==
  ASSUME NEW B, NEW s \in Seq(B), NEW t \in Seq(B)
  PROVE  s \o t \in Seq(B) /\ Len(s \o t) = Len(s) + Len(t)
BY ConcatProperties

(* The standard's padding ends with a block.                               *)
LEMMA StandardIsWhole ==
  ASSUME BlockIsLegal, NEW m \in Nat
  PROVE  /\ Standard(m) \in Seq(Bytes) /\ \E q \in Nat : Len(Standard(m)) = Block * q
         /\ FirstBytes(m) \in Seq(Bytes) /\ Len(FirstBytes(m)) = m
<1> DEFINE z == Zeros(m)
           L(y) == Length(LengthByte(8 * m, y))
           s == FirstBytes(m)
           k == <<Marker>>
           zeros == [x \in 1 .. z |-> Zero]
           tail == [x \in 1 .. LenBytes |-> L(LenBytes - x)]
<1>1. z \in Nat /\ LenBytes \in Nat /\ \E q \in Nat : m + (1 + z + LenBytes) = Block * q
  BY PaddingFits, LegalSizes
<1>2. /\ Marker \in Bytes /\ Zero \in Bytes /\ \A x \in Nat : Message(x) \in Bytes
      /\ \A y \in Nat : L(y) \in Bytes
  BY DEF Bytes
<1>3. Standard(m) = ((s \o k) \o zeros) \o tail  BY DEF Standard, FirstBytes
<1> HIDE DEF z, L
<1>4. /\ s \in Seq(Bytes) /\ Len(s) = m /\ k \in Seq(Bytes) /\ Len(k) = 1
      /\ zeros \in Seq(Bytes) /\ Len(zeros) = z
      /\ tail \in Seq(Bytes) /\ Len(tail) = LenBytes
  BY <1>1, <1>2 DEF FirstBytes
<1> HIDE DEF s, k, zeros, tail
<1>5. s \o k \in Seq(Bytes) /\ Len(s \o k) = m + 1
  <2>1. s \o k \in Seq(Bytes) /\ Len(s \o k) = Len(s) + Len(k)
    BY <1>4, ConcatLength
  <2>. QED  BY <1>4, <2>1
<1> DEFINE sk == s \o k
           skz == sk \o zeros
<1>6. skz \in Seq(Bytes) /\ Len(skz) = m + 1 + z
  <2>1. sk \in Seq(Bytes) /\ Len(sk) = m + 1  BY <1>5
  <2> HIDE DEF sk
  <2>2. sk \o zeros \in Seq(Bytes) /\ Len(sk \o zeros) = Len(sk) + Len(zeros)
    BY <1>4, <2>1, ConcatLength
  <2>. QED  BY <1>4, <2>1, <2>2
<1> HIDE DEF skz
<1>7. skz \o tail \in Seq(Bytes) /\ Len(skz \o tail) = m + 1 + z + LenBytes
  <2>1. skz \o tail \in Seq(Bytes) /\ Len(skz \o tail) = Len(skz) + Len(tail)
    BY <1>4, <1>6, ConcatLength
  <2>. QED  BY <1>4, <1>6, <2>1
<1>8. m + (1 + z + LenBytes) = m + 1 + z + LenBytes  BY <1>1
<1>. QED  BY <1>1, <1>3, <1>4, <1>7, <1>8 DEF skz, s

(* Two ways to put three sequences together.                               *)
Regroups(a, b, c) == a \o (b \o c) = (a \o b) \o c

(* They come to the same.                                                  *)
LEMMA ConcatRegroups ==
  ASSUME NEW A, NEW a \in Seq(A), NEW b \in Seq(A), NEW c \in Seq(A)
  PROVE  Regroups(a, b, c)
BY ConcatAssociative DEF Regroups

(* What the caller has fed, and the padding after it, are the standard's.  *)
LEMMA PaddingIsStandard ==
  ASSUME BlockIsLegal, s_len \in Nat
  PROVE  /\ FirstBytes(s_len) \in Seq(Bytes) /\ Len(FirstBytes(s_len)) = s_len
         /\ Padding \in Seq(Bytes)
         /\ FirstBytes(s_len) \o Padding = Standard(s_len)
         /\ Len(Standard(s_len)) = s_len + Len(Padding)
<1> DEFINE n == PaddingLen(Block - (s_len % Block))
           z == Zeros(s_len)
           L(y) == Length(LengthByte(8 * s_len, y))
           p(x) == CASE x = 1 -> Marker [] x > n - LenBytes -> L(n - x)
                     [] OTHER -> Zero
           zeros == [x \in 1 .. z |-> Zero]
           tail == [x \in 1 .. LenBytes |-> L(LenBytes - x)]
<1>1. /\ n \in Nat /\ n = 1 + z + LenBytes /\ z \in Nat
      /\ \E q \in Nat : s_len + n = Block * q
  BY PaddingFits
<1>2. LenBytes \in Nat /\ LenBytes > 0  BY LegalSizes
<1>3. Padding = [x \in 1 .. n |-> p(x)]  BY DEF Padding
<1>4. Standard(s_len) = ((FirstBytes(s_len) \o <<Marker>>) \o zeros) \o tail
  BY DEF Standard, FirstBytes
<1>5. /\ Marker \in Bytes /\ Zero \in Bytes /\ \A x \in Nat : Message(x) \in Bytes
      /\ \A y \in Nat : L(y) \in Bytes
  BY DEF Bytes
<1> HIDE DEF n, z, L
<1>6. FirstBytes(s_len) \in Seq(Bytes) /\ Len(FirstBytes(s_len)) = s_len
  BY <1>5 DEF FirstBytes
<1>7. Padding \in Seq(Bytes) /\ Len(Padding) = n
  <2>1. \A x \in 1 .. n : p(x) \in Bytes  BY <1>1, <1>2, <1>5
  <2> HIDE DEF p
  <2>. QED  BY <1>1, <1>3, <2>1
<1>8. /\ <<Marker>> \in Seq(Bytes) /\ zeros \in Seq(Bytes) /\ tail \in Seq(Bytes)
      /\ Len(<<Marker>>) = 1 /\ Len(zeros) = z /\ Len(tail) = LenBytes
  BY <1>1, <1>2, <1>5
<1>9. Padding = (<<Marker>> \o zeros) \o tail
  <2> DEFINE mz == <<Marker>> \o zeros
             r == mz \o tail
  <2>1. /\ mz \in Seq(Bytes) /\ Len(mz) = 1 + z
        /\ \A x \in 1 .. 1 + z : mz[x] = IF x <= 1 THEN <<Marker>>[x] ELSE zeros[x - 1]
    <3> DEFINE k == <<Marker>>
    <3>1. k \in Seq(Bytes) /\ Len(k) = 1  BY <1>8
    <3>0. zeros \in Seq(Bytes) /\ Len(zeros) = z  BY <1>8
    <3> HIDE DEF k, zeros
    <3>2. /\ k \o zeros \in Seq(Bytes) /\ Len(k \o zeros) = 1 + z
          /\ \A x \in 1 .. 1 + z :
               (k \o zeros)[x] = IF x <= 1 THEN k[x] ELSE zeros[x - 1]
      <4> DEFINE zs == zeros
      <4>1. zs \in Seq(Bytes)  BY <3>0
      <4>2. /\ k \o zs \in Seq(Bytes) /\ Len(k \o zs) = Len(k) + Len(zs)
            /\ \A x \in 1 .. Len(k) + Len(zs) :
                 (k \o zs)[x] = IF x <= Len(k) THEN k[x] ELSE zs[x - Len(k)]
        <5> HIDE DEF zs
        <5>. QED  BY <3>1, <4>1, ConcatProperties
      <4>. QED  BY <3>0, <3>1, <4>2
    <3>. QED  BY <3>2 DEF k
  <2>2. ASSUME NEW x \in 1 .. 1 + z
        PROVE  mz[x] = IF x = 1 THEN Marker ELSE Zero
    <3> HIDE DEF mz
    <3>1. CASE x = 1
      BY <1>1, <2>1, <3>1
    <3>2. CASE x # 1
      <4>1. x - 1 \in 1 .. z /\ ~(x <= 1)  BY <1>1, <3>2
      <4>. QED  BY <2>1, <3>2, <4>1
    <3>. QED  BY <3>1, <3>2
  <2> HIDE DEF mz
  <2>3. /\ r \in Seq(Bytes) /\ Len(r) = n
        /\ \A x \in 1 .. n : r[x] = IF x <= 1 + z THEN mz[x] ELSE tail[x - (1 + z)]
    <3>1. /\ r \in Seq(Bytes) /\ Len(r) = Len(mz) + Len(tail)
          /\ \A x \in 1 .. Len(mz) + Len(tail) :
               r[x] = IF x <= Len(mz) THEN mz[x] ELSE tail[x - Len(mz)]
      BY <1>8, <2>1, ConcatProperties
    <3> HIDE DEF r, tail
    <3>. QED  BY <1>1, <1>8, <2>1, <3>1
  <2> HIDE DEF r
  <2>4. ASSUME NEW x \in 1 .. n PROVE Padding[x] = r[x]
    <3>1. Padding[x] = p(x)  BY <1>3
    <3>2. CASE x <= 1 + z
      <4>1. x \in 1 .. 1 + z /\ ~(x > n - LenBytes)  BY <1>1, <1>2, <3>2
      <4>2. r[x] = mz[x]  BY <2>3, <3>2
      <4>3. p(x) = IF x = 1 THEN Marker ELSE Zero  BY <4>1
      <4> HIDE DEF p
      <4>. QED  BY <2>2, <3>1, <4>1, <4>2, <4>3
    <3>3. CASE x > 1 + z
      <4>1. r[x] = tail[x - (1 + z)]  BY <1>1, <2>3, <3>3
      <4>2. x - (1 + z) \in 1 .. LenBytes /\ LenBytes - (x - (1 + z)) = n - x
        BY <1>1, <1>2, <3>3
      <4>3. tail[x - (1 + z)] = L(n - x)  BY <4>2
      <4>4. p(x) = L(n - x)  BY <1>1, <1>2, <3>3
      <4>. QED  BY <3>1, <4>1, <4>3, <4>4
    <3>. QED  BY <1>1, <3>2, <3>3
  <2>5. Padding = r
    <3> HIDE DEF p
    <3>. QED  BY <1>1, <1>7, <2>3, <2>4, SeqEqual
  <2>. QED  BY <2>5 DEF r, mz
<1> HIDE DEF zeros, tail, p
<1>10. FirstBytes(s_len) \o Padding = Standard(s_len)
  <2> DEFINE a == FirstBytes(s_len)
             b == <<Marker>>
             c == b \o zeros
  <2>1. a \in Seq(Bytes) /\ b \in Seq(Bytes)  BY <1>6, <1>8
  <2>2. zeros \in Seq(Bytes) /\ tail \in Seq(Bytes)  BY <1>8
  <2>3. c \in Seq(Bytes)  BY <2>1, <2>2, ConcatProperties
  <2> HIDE DEF a, b
  <2>4. Regroups(a, b, zeros)  BY <2>1, <2>2, ConcatRegroups
  <2> HIDE DEF c
  <2>5. Regroups(a, c, tail)  BY <2>1, <2>2, <2>3, ConcatRegroups
  <2>6. a \o Padding = ((a \o b) \o zeros) \o tail
    BY <1>9, <2>4, <2>5 DEF Regroups, b, c
  <2>. QED  BY <1>4, <2>6 DEF a, b
<1>11. Len(Standard(s_len)) = s_len + Len(Padding)
  BY <1>6, <1>7, <1>10, ConcatProperties
<1>. QED  BY <1>1, <1>6, <1>7, <1>10, <1>11

-----------------------------------------------------------------------------
(* What a shape says of the three parts of the stream.                     *)
LEMMA Parts ==
  ASSUME BlockIsLegal, Shape
  PROVE  /\ Block \in Nat /\ Block > 0 /\ Len(piece) \in Nat
         /\ FlattenSeq(s_h) \in Seq(Bytes) /\ Len(FlattenSeq(s_h)) \in Nat
         /\ SubSeq(s_buf, 1, s_buf_len) \in Seq(Bytes)
         /\ Len(SubSeq(s_buf, 1, s_buf_len)) = s_buf_len
         /\ s_buf_len = 0 => SubSeq(s_buf, 1, s_buf_len) = <<>>
<1>1. Block \in Nat /\ Block > 0  BY LegalSizes
<1>2. s_buf \in [1 .. Block -> Bytes] /\ s_buf_len \in 0 .. Block  BY <1>1 DEF Shape
<1>3. SubSeq(s_buf, 1, s_buf_len) \in Seq(Bytes) /\ Len(SubSeq(s_buf, 1, s_buf_len)) = s_buf_len
  BY <1>1, <1>2, Prefix
<1>4. s_buf_len = 0 => SubSeq(s_buf, 1, s_buf_len) = <<>>
  BY <1>3, EmptySeq
<1>. QED  BY <1>1, <1>3, <1>4 DEF Shape

(* A block compressed is a block more of what was compressed.              *)
LEMMA Compressed ==
  ASSUME BlockIsLegal, Shape, WholeBlocks,
         NEW e \in Seq(Bytes), Len(e) = Block, s_h' = Append(s_h, e)
  PROVE  /\ s_h' \in Seq(Seq(Bytes)) /\ FlattenSeq(s_h') \in Seq(Bytes)
         /\ FlattenSeq(s_h') = FlattenSeq(s_h) \o e /\ WholeBlocks'
<1>1. s_h \in Seq(Seq(Bytes)) /\ FlattenSeq(s_h) \in Seq(Bytes)  BY DEF Shape
<1>2. FlattenSeq(Append(s_h, e)) = FlattenSeq(s_h) \o e  BY <1>1, FlattenAppend
<1>3. /\ FlattenSeq(s_h) \o e \in Seq(Bytes)
      /\ Len(FlattenSeq(s_h) \o e) = Len(FlattenSeq(s_h)) + Len(e)
  BY <1>1, ConcatProperties
<1>4. Append(s_h, e) \in Seq(Seq(Bytes))  BY <1>1, AppendProperties
<1>5. PICK q \in Nat : Len(FlattenSeq(s_h)) = Block * q  BY DEF WholeBlocks
<1>6. Len(FlattenSeq(s_h')) = Block * (q + 1)
  <2>1. Block \in Nat  BY LegalSizes
  <2>2. Block * (q + 1) = Block * q + Block  BY <2>1
  <2>. QED  BY <1>2, <1>3, <1>5, <2>2
<1>7. q + 1 \in Nat  OBVIOUS
<1>. QED  BY <1>2, <1>3, <1>4, <1>6, <1>7 DEF WholeBlocks

(* Topping the buffer up moves bytes from the piece to the buffer.         *)
LEMMA HeadKeeps ==
  ASSUME BlockIsLegal, StreamIInv, UpdateHead
  PROVE  Shape' /\ WholeBlocks' /\ Fed' = Fed /\ (piece' = <<>> \/ s_buf_len' = 0)
<1> DEFINE C == FlattenSeq(s_h)
           P == SubSeq(s_buf, 1, s_buf_len)
<1>0. Shape /\ WholeBlocks  BY DEF StreamIInv
<1>1. /\ Block \in Nat /\ Block > 0 /\ Len(piece) \in Nat
      /\ C \in Seq(Bytes) /\ P \in Seq(Bytes) /\ piece \in Seq(Bytes)
      /\ s_buf \in [1 .. Block -> Bytes] /\ s_buf_len \in 0 .. Block - 1
  <2>1. piece \in Seq(Bytes) /\ s_buf \in [1 .. Block -> Bytes] /\ s_buf_len \in 0 .. Block - 1
    BY <1>0 DEF Shape
  <2>. QED  BY <1>0, <2>1, Parts
<1>w. ASSUME NEW b \in [1 .. Block -> Bytes], NEW n \in 0 .. Block,
             NEW t \in Seq(Bytes), n + Len(t) <= Block
      PROVE  /\ Written(b, n, t) \in [1 .. Block -> Bytes]
             /\ SubSeq(Written(b, n, t), 1, n + Len(t)) = SubSeq(b, 1, n) \o t
  <2>1. Block \in Nat  BY <1>1
  <2> HIDE DEF C, P
  <2>. QED  BY <1>w, <2>1, WrittenAppends
<1>2. step = "head" /\ step' = "blocks" /\ mode' = mode /\ s_len' = s_len /\ fed' = fed
  BY DEF UpdateHead
<1>3. CASE s_buf_len = 0
  <2>1. s_buf' = s_buf /\ s_buf_len' = s_buf_len /\ s_h' = s_h /\ piece' = piece
    BY <1>3 DEF UpdateHead
  <2>. QED  BY <1>0, <1>2, <1>3, <2>1 DEF Shape, WholeBlocks, Fed
<1>4. CASE s_buf_len # 0
  <2> DEFINE take == Take(piece)
             s == SubSeq(piece, 1, take)
             rest == SubSeq(piece, take + 1, Len(piece))
             w == Written(s_buf, s_buf_len, s)
             k == s_buf_len + take
             p == SubSeq(w, 1, k)
  <2>1. take \in 0 .. Len(piece) /\ k \in 0 .. Block /\ (k < Block => take = Len(piece))
    BY <1>1 DEF Take, Least
  <2>2. /\ s_buf' = w /\ piece' = rest
        /\ IF k = Block THEN s_h' = Append(s_h, w) /\ s_buf_len' = 0
           ELSE s_buf_len' = k /\ s_h' = s_h
    BY <1>4 DEF UpdateHead
  <2> HIDE DEF take
  <2>3. /\ s \in Seq(Bytes) /\ rest \in Seq(Bytes) /\ Len(s) = take
        /\ Len(rest) = Len(piece) - take /\ piece = s \o rest
    BY <1>1, <2>1, Cut
  <2> HIDE DEF s, rest
  <2>4. w \in [1 .. Block -> Bytes] /\ p = P \o s
    <3>1. s_buf_len \in 0 .. Block /\ s_buf_len + Len(s) <= Block  BY <1>1, <2>1, <2>3
    <3>2. /\ w \in [1 .. Block -> Bytes]
          /\ SubSeq(w, 1, s_buf_len + Len(s)) = SubSeq(s_buf, 1, s_buf_len) \o s
      <4> HIDE DEF C, P
      <4>. QED  BY <1>1, <1>w, <2>3, <3>1
    <3>. QED  BY <2>3, <3>2
  <2> HIDE DEF w
  <2>5. p \in Seq(Bytes) /\ Len(p) = k
    <3> HIDE DEF k
    <3>. QED  BY <1>1, <2>1, <2>4, Prefix
  <2>6. Fed = (C \o p) \o rest
    <3>1. C \o P \in Seq(Bytes)  BY <1>1, ConcatProperties
    <3>2. (C \o P) \o (s \o rest) = ((C \o P) \o s) \o rest
      <4> HIDE DEF C, P
      <4> DEFINE cp == C \o P
      <4>1. cp \in Seq(Bytes)  BY <3>1
      <4> HIDE DEF cp
      <4>2. cp \o (s \o rest) = (cp \o s) \o rest  BY <2>3, <4>1, ConcatAssociative
      <4>. QED  BY <4>2 DEF cp
    <3>3. (C \o P) \o s = C \o (P \o s)
      <4> HIDE DEF C, P
      <4>. QED  BY <1>1, <2>3, ConcatAssociative
    <3>. QED  BY <2>3, <2>4, <3>2, <3>3 DEF Fed
  <2>7. CASE k = Block
    <3>1. w = p
      <4>1. w \in Seq(Bytes) /\ Len(w) = Block  BY <1>1, <2>4
      <4>2. SubSeq(w, 1, Len(w)) = w  BY <4>1, SubSeqFull
      <4>. QED  BY <2>7, <4>1, <4>2
    <3>2. s_h' = Append(s_h, p) /\ s_buf_len' = 0 /\ piece' = rest /\ s_buf' = w
      BY <2>2, <2>7, <3>1
    <3>3. /\ s_h' \in Seq(Seq(Bytes)) /\ FlattenSeq(s_h') \in Seq(Bytes)
          /\ FlattenSeq(s_h') = C \o p /\ WholeBlocks'
      <4>1. p \in Seq(Bytes) /\ Len(p) = Block /\ s_h' = Append(s_h, p)
        BY <2>5, <2>7, <3>2
      <4> HIDE DEF p
      <4>. QED  BY <1>0, <4>1, Compressed
    <3>4. Shape'
      <4>1. s_buf' \in [1 .. Block -> Bytes] /\ s_buf_len' \in 0 .. Block - 1 /\ piece' \in Seq(Bytes)
        BY <1>1, <2>3, <2>4, <3>2
      <4>. QED  BY <1>0, <1>2, <3>3, <4>1 DEF Shape
    <3>5. SubSeq(s_buf', 1, s_buf_len') = <<>>  BY <3>2, SubSeqEmpty
    <3>6. (C \o p) \o <<>> = C \o p
      <4>1. C \o p \in Seq(Bytes)  BY <1>1, <2>5, ConcatProperties
      <4>. QED  BY <4>1, ConcatEmptySeq
    <3>7. Fed' = ((C \o p) \o <<>>) \o rest
      BY <3>2, <3>3, <3>5 DEF Fed
    <3>. QED  BY <2>6, <3>2, <3>3, <3>4, <3>6, <3>7
  <2>8. CASE k # Block
    <3>1. s_h' = s_h /\ s_buf_len' = k /\ piece' = rest /\ s_buf' = w
      BY <2>2, <2>8
    <3>2. Shape' /\ WholeBlocks'
      <4>1. s_buf' \in [1 .. Block -> Bytes] /\ s_buf_len' \in 0 .. Block - 1 /\ piece' \in Seq(Bytes)
        BY <1>1, <2>1, <2>3, <2>4, <2>8, <3>1
      <4>. QED  BY <1>0, <1>2, <3>1, <4>1 DEF Shape, WholeBlocks
    <3>3. Fed' = (C \o p) \o rest  BY <3>1 DEF Fed
    <3>4. piece' = <<>>
      <4>1. Len(rest) = 0  BY <1>1, <2>1, <2>3, <2>8
      <4>. QED  BY <2>3, <3>1, <4>1, EmptySeq
    <3>. QED  BY <2>6, <3>2, <3>3, <3>4
  <2>. QED  BY <2>7, <2>8
<1>. QED  BY <1>3, <1>4

(* A whole block is compressed straight from the piece.                    *)
LEMMA BlockKeeps ==
  ASSUME BlockIsLegal, StreamIInv, UpdateBlock
  PROVE  Shape' /\ WholeBlocks' /\ Fed' = Fed /\ s_buf_len' = 0
<1> DEFINE C == FlattenSeq(s_h)
           e == SubSeq(piece, 1, Block)
           rest == SubSeq(piece, Block + 1, Len(piece))
<1>0. Shape /\ WholeBlocks  BY DEF StreamIInv
<1>1. /\ Block \in Nat /\ Block > 0 /\ C \in Seq(Bytes) /\ piece \in Seq(Bytes)
      /\ s_buf_len = 0 => SubSeq(s_buf, 1, s_buf_len) = <<>>
  <2>1. piece \in Seq(Bytes)  BY <1>0 DEF Shape
  <2>. QED  BY <1>0, <2>1, Parts
<1>2. /\ step = "blocks" /\ Len(piece) >= Block /\ s_h' = Append(s_h, e) /\ piece' = rest
      /\ mode' = mode /\ s_len' = s_len /\ fed' = fed /\ s_buf' = s_buf /\ s_buf_len' = s_buf_len
      /\ step' = step
  BY DEF UpdateBlock, WholeBlock
<1>3. s_buf_len = 0
  <2>1. piece # <<>>  BY <1>1, <1>2, EmptySeq
  <2>. QED  BY <1>2, <2>1 DEF StreamIInv, Places
<1>4. /\ e \in Seq(Bytes) /\ rest \in Seq(Bytes) /\ Len(e) = Block /\ piece = e \o rest
  <2>1. Block \in 0 .. Len(piece)  BY <1>1, <1>2
  <2>. QED  BY <1>1, <2>1, Cut
<1> HIDE DEF e, rest
<1>5. /\ s_h' \in Seq(Seq(Bytes)) /\ FlattenSeq(s_h') \in Seq(Bytes)
      /\ FlattenSeq(s_h') = C \o e /\ WholeBlocks'
  BY <1>0, <1>2, <1>4, Compressed
<1>6. Shape'  BY <1>0, <1>2, <1>4, <1>5 DEF Shape
<1>7. Fed = C \o piece
  <2>1. C \o <<>> = C  BY <1>1, ConcatEmptySeq
  <2>. QED  BY <1>1, <1>3, <2>1 DEF Fed
<1>8. Fed' = (C \o e) \o rest
  <2>1. C \o e \in Seq(Bytes)  BY <1>1, <1>4, ConcatProperties
  <2>2. (C \o e) \o <<>> = C \o e  BY <2>1, ConcatEmptySeq
  <2>. QED  BY <1>1, <1>2, <1>3, <1>5, <2>2 DEF Fed
<1>9. C \o (e \o rest) = (C \o e) \o rest
  <2> HIDE DEF C
  <2>. QED  BY <1>1, <1>4, ConcatAssociative
<1>. QED  BY <1>2, <1>3, <1>4, <1>5, <1>6, <1>7, <1>8, <1>9

(* What is left of the piece is kept at the start of an empty buffer.      *)
LEMMA TailKeeps ==
  ASSUME BlockIsLegal, StreamIInv, UpdateTail
  PROVE  /\ Shape' /\ WholeBlocks' /\ Fed' = Fed
         /\ piece' = <<>> /\ step' = "none"
<1> DEFINE C == FlattenSeq(s_h)
           P == SubSeq(s_buf, 1, s_buf_len)
<1>0. Shape /\ WholeBlocks  BY DEF StreamIInv
<1>1. /\ Block \in Nat /\ Block > 0 /\ C \in Seq(Bytes) /\ P \in Seq(Bytes)
      /\ piece \in Seq(Bytes) /\ s_buf \in [1 .. Block -> Bytes] /\ Len(piece) \in Nat
      /\ s_buf_len = 0 => P = <<>>
  <2>1. piece \in Seq(Bytes) /\ s_buf \in [1 .. Block -> Bytes]  BY <1>0 DEF Shape
  <2>. QED  BY <1>0, <2>1, Parts
<1>2. /\ step = "blocks" /\ ~(Len(piece) >= Block) /\ piece' = <<>> /\ step' = "none"
      /\ mode' \in {mode, "done"} /\ s_len' = s_len /\ fed' = fed /\ s_h' = s_h
  BY DEF UpdateTail, WholeBlock
<1>3. <<>> \in Seq(Bytes)  OBVIOUS
<1>4. CASE piece = <<>>
  <2>1. s_buf' = s_buf /\ s_buf_len' = s_buf_len  BY <1>4 DEF UpdateTail
  <2>. QED  BY <1>0, <1>2, <1>3, <1>4, <2>1 DEF Shape, WholeBlocks, Fed
<1>5. CASE piece # <<>>
  <2> DEFINE w == Written(s_buf, 0, piece)
  <2>1. s_buf' = w /\ s_buf_len' = Len(piece)  BY <1>5 DEF UpdateTail
  <2>2. s_buf_len = 0  BY <1>2, <1>5 DEF StreamIInv, Places
  <2>3. w \in [1 .. Block -> Bytes] /\ SubSeq(w, 1, Len(piece)) = piece
    <3>1. ASSUME NEW b \in [1 .. Block -> Bytes], NEW n \in 0 .. Block,
                 NEW t \in Seq(Bytes), n + Len(t) <= Block
          PROVE  /\ Written(b, n, t) \in [1 .. Block -> Bytes]
                 /\ SubSeq(Written(b, n, t), 1, n + Len(t)) = SubSeq(b, 1, n) \o t
      <4>1. Block \in Nat  BY <1>1
      <4> HIDE DEF C, P
      <4>. QED  BY <3>1, <4>1, WrittenAppends
    <3>2. 0 \in 0 .. Block /\ 0 + Len(piece) <= Block /\ 0 + Len(piece) = Len(piece)
      BY <1>1, <1>2
    <3>3. SubSeq(s_buf, 1, 0) \o piece = piece
      <4>1. SubSeq(s_buf, 1, 0) = <<>>  BY SubSeqEmpty
      <4>. QED  BY <1>1, <4>1, ConcatEmptySeq
    <3>4. w \in [1 .. Block -> Bytes] /\ SubSeq(w, 1, 0 + Len(piece)) = SubSeq(s_buf, 1, 0) \o piece
      BY <1>1, <3>1, <3>2
    <3>. QED  BY <3>2, <3>3, <3>4
  <2> HIDE DEF w
  <2>4. Shape' /\ WholeBlocks'
    <3>1. Len(piece) \in 0 .. Block - 1  BY <1>1, <1>2
    <3>. QED  BY <1>0, <1>2, <1>3, <2>1, <2>3, <3>1 DEF Shape, WholeBlocks
  <2>5. C \o <<>> = C /\ (C \o piece) \o <<>> = C \o piece
    <3>1. C \o piece \in Seq(Bytes)  BY <1>1, ConcatProperties
    <3>. QED  BY <1>1, <3>1, ConcatEmptySeq
  <2>6. Fed = C \o piece  BY <1>1, <2>2, <2>5 DEF Fed
  <2>7. Fed' = C \o piece  BY <1>2, <2>1, <2>3, <2>5 DEF Fed
  <2>. QED  BY <1>2, <2>4, <2>6, <2>7
<1>. QED  BY <1>4, <1>5

(* A new piece follows all that was read.                                  *)
LEMMA PieceFollows ==
  ASSUME BlockIsLegal, Shape, piece = <<>>, NEW d \in Seq(Bytes),
         piece' = d, s_h' = s_h, s_buf' = s_buf, s_buf_len' = s_buf_len
  PROVE  Fed' = Fed \o d
<1> DEFINE C == FlattenSeq(s_h)
           P == SubSeq(s_buf, 1, s_buf_len)
<1>1. C \o P \in Seq(Bytes)  BY Parts, ConcatProperties
<1>2. Fed = C \o P  BY <1>1, ConcatEmptySeq DEF Fed
<1>. QED  BY <1>2 DEF Fed

(* So does a longer message.                                               *)
LEMMA StreamGrows ==
  ASSUME NEW m \in Nat, NEW n \in Nat
  PROVE  /\ [x \in 1 .. n |-> Message(m + x)] \in Seq(Bytes)
         /\ FirstBytes(m) \o [x \in 1 .. n |-> Message(m + x)] = FirstBytes(m + n)
<1> DEFINE s == FirstBytes(m)
           d == [x \in 1 .. n |-> Message(m + x)]
           t == FirstBytes(m + n)
<1>1. \A x \in Nat : Message(x) \in Bytes  BY DEF Bytes
<1>2. /\ s \in Seq(Bytes) /\ Len(s) = m /\ d \in Seq(Bytes) /\ Len(d) = n
      /\ t \in Seq(Bytes) /\ Len(t) = m + n
  BY <1>1 DEF FirstBytes
<1>3. /\ \A x \in 1 .. m : s[x] = Message(x)
      /\ \A x \in 1 .. n : d[x] = Message(m + x)
      /\ \A x \in 1 .. m + n : t[x] = Message(x)
  BY DEF FirstBytes
<1> HIDE DEF s, d, t
<1>4. /\ s \o d \in Seq(Bytes) /\ Len(s \o d) = m + n
      /\ \A x \in 1 .. m + n : (s \o d)[x] = IF x <= m THEN s[x] ELSE d[x - m]
  BY <1>2, ConcatProperties
<1>5. ASSUME NEW x \in 1 .. m + n PROVE (s \o d)[x] = t[x]
  <2>1. CASE x <= m  BY <1>3, <1>4, <2>1
  <2>2. CASE ~(x <= m)
    <3>1. x - m \in 1 .. n /\ m + (x - m) = x  BY <2>2
    <3>2. (s \o d)[x] = d[x - m]  BY <1>4, <2>2
    <3>3. d[x - m] = Message(m + (x - m))  BY <1>3, <3>1
    <3>. QED  BY <1>3, <3>1, <3>2, <3>3
  <2>. QED  BY <2>1, <2>2
<1>6. s \o d = t
  <2> DEFINE r == s \o d
  <2>1. /\ r \in Seq(Bytes) /\ Len(r) = Len(t) /\ \A x \in 1 .. Len(r) : r[x] = t[x]
    BY <1>2, <1>4, <1>5
  <2> HIDE DEF r
  <2>2. r = t  BY <1>2, <2>1, SeqEqual
  <2>. QED  BY <2>2 DEF r
<1>. QED  BY <1>2, <1>6 DEF s, d, t

-----------------------------------------------------------------------------
(* Each step keeps what the invariant says.                                *)
LEMMA StreamInitially == BlockIsLegal /\ StreamInit => StreamIInv
<1> SUFFICES ASSUME BlockIsLegal, StreamInit PROVE StreamIInv
  OBVIOUS
<1>1. /\ mode = "open" /\ s_len = 0 /\ fed = 0 /\ s_buf_len = 0 /\ s_h = <<>>
      /\ s_buf = [x \in 1 .. Block |-> Stale] /\ piece = <<>> /\ step = "none"
  BY DEF StreamInit
<1>2. Block \in Nat /\ Block > 0  BY LegalSizes
<1>3. FlattenSeq(s_h) = <<>>  BY <1>1, FlattenNone
<1>4. Shape
  <2>1. s_buf \in [1 .. Block -> Bytes]  BY <1>1 DEF Bytes
  <2>2. piece \in Seq(Bytes) /\ FlattenSeq(s_h) \in Seq(Bytes) /\ s_h \in Seq(Seq(Bytes))
    BY <1>1, <1>3, EmptySeq
  <2>3. s_buf_len \in 0 .. Block - 1 /\ s_len \in Nat /\ fed \in Nat  BY <1>1, <1>2
  <2>4. mode = "open" /\ step = "none"  BY <1>1
  <2>. QED  BY <2>1, <2>2, <2>3, <2>4 DEF Shape
<1>5. WholeBlocks
  <2>1. Len(FlattenSeq(s_h)) = Block * 0 /\ 0 \in Nat  BY <1>2, <1>3
  <2>. QED  BY <2>1 DEF WholeBlocks
<1>6. Fed = FirstBytes(0)
  <2>1. SubSeq(s_buf, 1, s_buf_len) = <<>>  BY <1>1, SubSeqEmpty
  <2>2. FirstBytes(0) = <<>>  BY DEF FirstBytes
  <2>3. <<>> \o <<>> = <<>>  BY ConcatEmptySeq
  <2>. QED  BY <1>1, <1>3, <2>1, <2>2, <2>3 DEF Fed
<1>. QED  BY <1>1, <1>4, <1>5, <1>6 DEF StreamIInv, Places, InOrder

(* Every step of init, update and final keeps the invariant.               *)
LEMMA StreamStep == BlockIsLegal /\ StreamIInv /\ [StreamNext]_streamVars => StreamIInv'
<1> SUFFICES ASSUME BlockIsLegal, StreamIInv, [StreamNext]_streamVars PROVE StreamIInv'
  OBVIOUS
<1>0. Shape /\ WholeBlocks /\ Places /\ InOrder  BY DEF StreamIInv
<1>b. Block \in Nat /\ Block > 0  BY LegalSizes
<1>s. mode \in {"open", "final", "done"} /\ s_len \in Nat /\ fed \in Nat
  BY <1>0 DEF Shape
<1>1. CASE UpdateHead
  <2>1. Shape' /\ WholeBlocks' /\ Fed' = Fed /\ (piece' = <<>> \/ s_buf_len' = 0)
    BY <1>1, HeadKeeps
  <2>2. step = "head" /\ step' = "blocks" /\ mode' = mode /\ s_len' = s_len /\ fed' = fed
    BY <1>1 DEF UpdateHead
  <2>3. Places'  BY <1>0, <2>1, <2>2 DEF Places
  <2>4. InOrder'  BY <1>0, <2>1, <2>2 DEF InOrder
  <2>. QED  BY <2>1, <2>3, <2>4 DEF StreamIInv
<1>2. CASE UpdateBlock
  <2>1. Shape' /\ WholeBlocks' /\ Fed' = Fed /\ s_buf_len' = 0
    BY <1>2, BlockKeeps
  <2>2. step = "blocks" /\ step' = step /\ mode' = mode /\ s_len' = s_len /\ fed' = fed
    BY <1>2 DEF UpdateBlock
  <2>3. Places'  BY <1>0, <2>1, <2>2 DEF Places
  <2>4. InOrder'  BY <1>0, <2>1, <2>2 DEF InOrder
  <2>. QED  BY <2>1, <2>3, <2>4 DEF StreamIInv
<1>3. CASE UpdateTail
  <2>1. Shape' /\ WholeBlocks' /\ Fed' = Fed /\ piece' = <<>> /\ step' = "none"
    BY <1>3, TailKeeps
  <2>2. /\ step = "blocks" /\ mode' = (IF mode = "final" THEN "done" ELSE mode)
        /\ s_len' = s_len /\ fed' = fed
    BY <1>3 DEF UpdateTail
  <2>3. InOrder'
    BY <1>0, <1>s, <2>1, <2>2 DEF InOrder
  <2>4. mode' = "done" => s_buf_len' = 0
    <3> SUFFICES ASSUME mode' = "done" PROVE s_buf_len' = 0
      OBVIOUS
    <3> DEFINE C == FlattenSeq(s_h)'
               P == SubSeq(s_buf, 1, s_buf_len)'
               S == Standard(fed)
    <3>1. /\ C \in Seq(Bytes) /\ P \in Seq(Bytes) /\ Len(P) = s_buf_len'
          /\ s_buf_len' \in 0 .. Block - 1
      <4>1. Shape' => /\ C \in Seq(Bytes) /\ P \in Seq(Bytes) /\ Len(P) = s_buf_len'
                     /\ s_buf_len' \in 0 .. Block - 1
        <5> SUFFICES ASSUME Shape' PROVE /\ C \in Seq(Bytes) /\ P \in Seq(Bytes)
                     /\ Len(P) = s_buf_len' /\ s_buf_len' \in 0 .. Block - 1
          OBVIOUS
        <5>1. /\ s_buf' \in [1 .. Block -> Bytes] /\ s_buf_len' \in 0 .. Block
              /\ s_buf_len' \in 0 .. Block - 1 /\ C \in Seq(Bytes)
          BY <1>b DEF Shape
        <5>2. P \in Seq(Bytes) /\ Len(P) = s_buf_len'
          BY <1>b, <5>1, Prefix
        <5>. QED  BY <5>1, <5>2
      <4>. QED  BY <2>1, <4>1
    <3>2. C \o P = S
      <4>1. Fed' = S  BY <2>2, <2>3 DEF InOrder
      <4>2. Fed' = (C \o P) \o <<>>  BY <2>1 DEF Fed
      <4>3. C \o P \in Seq(Bytes)  BY <3>1, ConcatProperties
      <4>. QED  BY <4>1, <4>2, <4>3, ConcatEmptySeq
    <3>3. Len(C) + s_buf_len' = Len(S)
      <4>1. Len(C \o P) = Len(C) + Len(P)  BY <3>1, ConcatProperties
      <4>. QED  BY <3>1, <3>2, <4>1
    <3>4. PICK q \in Nat : Len(C) = Block * q  BY <2>1 DEF WholeBlocks
    <3>5. PICK r \in Nat : Len(S) = Block * r  BY <1>s, StandardIsWhole
    <3>6. s_buf_len' = Block * (r - q)
      <4>1. Block * (r - q) = Block * r - Block * q  BY <1>b
      <4>2. Block * q \in Int /\ Block * r \in Int /\ s_buf_len' \in Int  BY <1>b, <3>1
      <4>3. Block * q + s_buf_len' = Block * r  BY <3>3, <3>4, <3>5
      <4>. QED  BY <4>1, <4>2, <4>3
    <3>7. /\ r - q \in Int /\ s_buf_len' \in Int /\ -Block < s_buf_len' /\ s_buf_len' < Block
      BY <1>b, <3>1
    <3>. QED  BY <1>b, <3>6, <3>7, ShortMultiple
  <2>5. Places'  BY <1>0, <1>s, <2>1, <2>2, <2>4 DEF Places
  <2>. QED  BY <2>1, <2>3, <2>5 DEF StreamIInv
<1>4. CASE Update
  <2>1. PICK count \in 0 .. MaxFed - s_len :
          /\ piece' = [x \in 1 .. count |-> Message(s_len + x)] /\ s_len' = s_len + count
          /\ fed' = s_len'
    BY <1>4 DEF Update
  <2>2. /\ mode = "open" /\ mode' = mode /\ step = "none" /\ step' = "head"
        /\ s_buf' = s_buf /\ s_buf_len' = s_buf_len /\ s_h' = s_h /\ piece = <<>>
    BY <1>0, <1>4 DEF Update, Places
  <2>3. count \in Nat
    <3>1. MaxFed \in Nat  BY DEF BlockIsLegal
    <3>. QED  BY <1>s, <3>1
  <2>4. piece' \in Seq(Bytes) /\ FirstBytes(s_len) \o piece' = FirstBytes(s_len')
    BY <1>s, <2>1, <2>3, StreamGrows
  <2>5. Shape' /\ WholeBlocks'
    BY <1>0, <1>s, <2>1, <2>2, <2>3, <2>4 DEF Shape, WholeBlocks
  <2>6. Fed' = Fed \o piece'  BY <1>0, <2>2, <2>4, PieceFollows
  <2>7. InOrder'  BY <1>0, <2>1, <2>2, <2>4, <2>6 DEF InOrder
  <2>8. Places'  BY <2>2 DEF Places
  <2>. QED  BY <2>5, <2>7, <2>8 DEF StreamIInv
<1>5. CASE Final
  <2>1. /\ mode = "open" /\ mode' = "final" /\ step = "none" /\ step' = "head"
        /\ piece' = Padding /\ s_len' = s_len + Len(piece') /\ fed' = fed
        /\ s_buf' = s_buf /\ s_buf_len' = s_buf_len /\ s_h' = s_h /\ piece = <<>>
    BY <1>0, <1>5 DEF Final, Places
  <2>2. fed = s_len /\ Fed = FirstBytes(s_len)  BY <1>0, <2>1 DEF InOrder
  <2>3. /\ Padding \in Seq(Bytes) /\ FirstBytes(s_len) \o Padding = Standard(s_len)
        /\ Len(Standard(s_len)) = s_len + Len(Padding)
    BY <1>s, PaddingIsStandard
  <2>4. Len(Padding) \in Nat  BY <2>3
  <2>5. Shape' /\ WholeBlocks'
    BY <1>0, <1>s, <2>1, <2>3, <2>4 DEF Shape, WholeBlocks
  <2>6. Fed' = Fed \o Padding  BY <1>0, <2>1, <2>3, PieceFollows
  <2>7. InOrder'
    <3>1. Standard(fed)' = Standard(s_len)  BY <2>1, <2>2 DEF Standard, Zeros
    <3>. QED  BY <2>1, <2>2, <2>3, <2>6, <3>1 DEF InOrder
  <2>8. Places'  BY <2>1 DEF Places
  <2>. QED  BY <2>5, <2>7, <2>8 DEF StreamIInv
<1>6. CASE Restart
  <2>1. StreamInit'
    BY <1>0, <1>6 DEF Restart, StreamInit, Places
  <2>. QED  BY <2>1, StreamInitially, PTL
<1>7. CASE UNCHANGED streamVars
  BY <1>0, <1>7 DEF streamVars, StreamIInv, Shape, WholeBlocks, Places, InOrder, Fed
<1>. QED  BY <1>1, <1>2, <1>3, <1>4, <1>5, <1>6, <1>7 DEF StreamNext

(* However the message is cut, the stream is the standard's.               *)
LEMMA StreamMeans ==
  ASSUME BlockIsLegal, StreamIInv PROVE StreamIsStandard
<1>0. Shape /\ Places /\ InOrder  BY DEF StreamIInv
<1>s. mode \in {"open", "final", "done"} /\ s_len \in Nat /\ fed \in Nat
  BY <1>0 DEF Shape
<1> DEFINE S == Standard(fed)
<1>1. S \in Seq(Bytes)  BY <1>s, StandardIsWhole
<1>2. Fed = SubSeq(S, 1, s_len)
  <2>1. CASE mode = "open"
    <3>1. fed = s_len /\ Fed = FirstBytes(s_len)  BY <1>0, <2>1 DEF InOrder
    <3>2. /\ FirstBytes(s_len) \in Seq(Bytes) /\ Len(FirstBytes(s_len)) = s_len
          /\ Padding \in Seq(Bytes) /\ S = FirstBytes(s_len) \o Padding
      BY <1>s, <3>1, PaddingIsStandard, StandardIsWhole
    <3>3. SubSeq(FirstBytes(s_len) \o Padding, 1, s_len) = FirstBytes(s_len)
      <4> DEFINE s == FirstBytes(s_len)
                 t == Padding
      <4>1. s \in Seq(Bytes) /\ t \in Seq(Bytes) /\ Len(s) = s_len  BY <3>2
      <4> HIDE DEF s, t
      <4>2. CASE s_len = 0
        <5>1. s = <<>>  BY <4>1, <4>2, EmptySeq
        <5>2. SubSeq(s \o t, 1, s_len) = <<>>  BY <4>2, SubSeqEmpty
        <5>. QED  BY <5>1, <5>2 DEF s, t
      <4>3. CASE s_len # 0
        <5>1. 1 \in 1 .. Len(s) /\ s_len \in 1 .. Len(s)  BY <1>s, <4>1, <4>3
        <5>2. SubSeq(s \o t, 1, s_len) = SubSeq(s, 1, s_len)
          BY <4>1, <5>1, SubSeqOfConcat1
        <5>3. SubSeq(s, 1, s_len) = s  BY <4>1, SubSeqFull
        <5>. QED  BY <5>2, <5>3 DEF s, t
      <4>. QED  BY <4>2, <4>3
    <3>. QED  BY <3>1, <3>2, <3>3
  <2>2. CASE mode # "open"
    <3>1. s_len = Len(S) /\ Fed = S  BY <1>0, <2>2 DEF InOrder
    <3>2. SubSeq(S, 1, Len(S)) = S  BY <1>1, SubSeqFull
    <3>. QED  BY <3>1, <3>2
  <2>. QED  BY <2>1, <2>2
<1>3. mode = "done" => FlattenSeq(s_h) = S /\ s_buf_len = 0
  <2> SUFFICES ASSUME mode = "done" PROVE FlattenSeq(s_h) = S /\ s_buf_len = 0
    OBVIOUS
  <2>1. s_buf_len = 0 /\ piece = <<>>  BY <1>0 DEF Places
  <2>2. FlattenSeq(s_h) \in Seq(Bytes) /\ SubSeq(s_buf, 1, s_buf_len) = <<>>
    BY <1>0, <2>1, Parts
  <2>3. (FlattenSeq(s_h) \o <<>>) \o <<>> = FlattenSeq(s_h)  BY <2>2, ConcatEmptySeq
  <2>4. Fed = S  BY <1>0 DEF InOrder
  <2>. QED  BY <2>1, <2>2, <2>3, <2>4 DEF Fed
<1>. QED  BY <1>2, <1>3 DEF StreamIsStandard, Fed

(* However the caller cuts the message, at every point of every update     *)
(* nothing is lost, repeated or out of order, for every block size and     *)
(* every length (sha256.c:66-87).                                          *)
THEOREM StreamInductive == StreamSpec => []StreamIInv
<1>1. StreamInit => StreamIInv  BY StreamAssumption, StreamInitially
<1>2. StreamIInv /\ [StreamNext]_streamVars => StreamIInv'
  BY StreamAssumption, StreamStep
<1>. QED  BY <1>1, <1>2, PTL DEF StreamSpec

(* A finalised hash is that of the standard padding of exactly the message *)
(* fed, however it was cut: the padding added fills the last block, with   *)
(* the length at its end (sha256.c:70, 89-110).                            *)
THEOREM Sha256StreamIsStandard == StreamSpec => []StreamIsStandard
<1>1. StreamIInv => StreamIsStandard  BY StreamAssumption, StreamMeans
<1>2. StreamSpec => []StreamIInv  BY StreamInductive
<1>. QED  BY <1>1, <1>2, PTL

-----------------------------------------------------------------------------
(* The expansion.  What a loop has written is right because of where it    *)
(* is: after i - 1 blocks the output holds those blocks of the standard's  *)
(* chain, cut at the length asked for, and is untouched from there on; the *)
(* block the next one is chained to is the last of them.                   *)

(* Sizes and strings as the code has them.                                 *)
Legal == SizesAreLegal /\ StringsAreLegal

(* They are assumed of the constants.                                      *)
LEMMA LegalHolds == Legal
BY ExpandAssumption DEF Legal

(* A finite sequence of anything.                                          *)
IsString(s) == \E A : s \in Seq(A)

(* The blocks of a call in the words of its standard, one from another.    *)
ZeroBlock(c) ==
  Digest(Repeat(Byte(0), BLOCK) \o c.msg \o I2OSP(c.len, 2) \o I2OSP(0, 1)
         \o Tag(c.dst))

(* The block before the first: HKDF has an empty one.                      *)
Zeroth(c) == IF c.op = "hkdf" THEN <<>> ELSE ZeroBlock(c)

(* Block k of the standard, from the one before it.                        *)
Following(c, p, k) ==
  IF c.op = "hkdf" THEN RFC2104(RFC2104(c.salt, c.ikm), p \o c.info \o I2OSP(k, 1))
  ELSE IF k = 1 THEN Digest(ZeroBlock(c) \o I2OSP(1, 1) \o Tag(c.dst))
       ELSE Digest(Xor(ZeroBlock(c), p) \o I2OSP(k, 1) \o Tag(c.dst))

(* f lists blocks 0 to n of the standard.                                  *)
Chains(c, n, f) ==
  f = [k \in 0 .. n |-> IF k = 0 THEN Zeroth(c) ELSE Following(c, f[k - 1], k)]

(* All the blocks of a call.                                               *)
Chain(c) == CHOOSE f : Chains(c, Ceiling(c.len), f)

(* The bytes its output has room for.                                      *)
RoomOf(c) == IF c.op \in {"fp", "fp2"} THEN Room(c.op) ELSE c.len

(* A call with arguments of the right kinds.                               *)
IsCall(c) ==
  /\ c.len \in Nat /\ RoomOf(c) \in Nat /\ c.len <= RoomOf(c)
  /\ IF c.op = "hkdf" THEN c.salt \in Keys /\ c.ikm \in Messages /\ c.info \in Infos
     ELSE c.op \in {"bytes", "fp", "fp2"} /\ c.msg \in Messages /\ c.dst \in Tags

(* A call the code refuses before it hashes anything.                      *)
Refused(c) == IF c.op = "hkdf" THEN HkdfRefuses(c.len, c.info)
              ELSE c.dst = <<>> \/ XmdRefuses(c.len)

(* The output after i - 1 blocks.                                          *)
Laid ==
  /\ IsString(out) /\ Len(out) = RoomOf(request)
  /\ \A k \in 1 .. i - 1, r \in 1 .. DIGEST :
       (k - 1) * DIGEST + r <= request.len =>
         out[(k - 1) * DIGEST + r] = Chain(request)[k][r]
  /\ \A j \in 1 .. Len(out) :
       j > request.len \/ j > (i - 1) * DIGEST => out[j] = UNSET

(* A loop under way.                                                       *)
Running ==
  /\ (pc = "hkdf") = (request.op = "hkdf") /\ ~Refused(request) /\ ret = 0
  /\ i \in 1 .. Ceiling(request.len) + 1
  /\ first = (IF request.op = "hkdf" THEN RFC2104(request.salt, request.ikm) ELSE ZeroBlock(request))
  /\ i > 1 => prev = Chain(request)[i - 1]

(* A call that ended, refused or with all its blocks.                      *)
Ended == IF Refused(request) THEN ret = -1 /\ i = 0
         ELSE ret = 0 /\ i = Ceiling(request.len) + 1

(* The inductive invariant.                                                *)
ExpandIInv ==
  /\ pc \in {"idle", "xmd", "hkdf", "done"}
  /\ pc = "idle" => i = 0 /\ ret = 0
  /\ pc # "idle" => IsCall(request) /\ Laid
  /\ pc \in {"xmd", "hkdf"} => Running
  /\ pc = "done" => Ended

-----------------------------------------------------------------------------
(* A block of such a list follows from the one before.                     *)
LEMMA ChainAt ==
  ASSUME NEW c, NEW n, NEW f, Chains(c, n, f), NEW k \in 0 .. n
  PROVE  f[k] = IF k = 0 THEN Zeroth(c) ELSE Following(c, f[k - 1], k)
<1> DEFINE e(j) == IF j = 0 THEN Zeroth(c) ELSE Following(c, f[j - 1], j)
<1>1. f = [j \in 0 .. n |-> e(j)]  BY Zenon DEF Chains
<1> HIDE DEF e
<1>2. [j \in 0 .. n |-> e(j)][k] = e(k)  OBVIOUS
<1>3. f[k] = e(k)  BY Zenon, <1>1, <1>2
<1>. QED  BY Zenon, <1>3 DEF e

(* There is such a list, of any length,                                    *)
LEMMA ChainExists ==
  ASSUME NEW c
  PROVE  \A n \in Nat : \E f : Chains(c, n, f)
<1> DEFINE good == {n \in Nat : \E f : Chains(c, n, f)}
<1>1. 0 \in good
  <2>1. Chains(c, 0, [k \in 0 .. 0 |-> Zeroth(c)])
    <3> DEFINE g == [k \in 0 .. 0 |-> Zeroth(c)]
    <3>1. \A k \in 0 .. 0 : k = 0  OBVIOUS
    <3>2. g = [k \in 0 .. 0 |-> IF k = 0 THEN Zeroth(c) ELSE Following(c, g[k - 1], k)]
      BY <3>1
    <3>. QED  BY <3>2 DEF Chains
  <2>. QED  BY <2>1
<1>2. ASSUME NEW n \in Nat, n \in good PROVE n + 1 \in good
  <2>1. PICK f : Chains(c, n, f)  BY <1>2
  <2> DEFINE g == [k \in 0 .. n + 1 |->
                     IF k <= n THEN f[k] ELSE Following(c, f[k - 1], k)]
  <2>2. \A k \in 0 .. n : f[k] = IF k = 0 THEN Zeroth(c) ELSE Following(c, f[k - 1], k)
    BY <2>1, ChainAt
  <2>3. \A k \in 0 .. n : g[k] = f[k]  OBVIOUS
  <2>4. \A k \in 0 .. n + 1 : g[k] = IF k = 0 THEN Zeroth(c) ELSE Following(c, g[k - 1], k)
    <3>1. ASSUME NEW k \in 0 .. n + 1
          PROVE  g[k] = IF k = 0 THEN Zeroth(c) ELSE Following(c, g[k - 1], k)
      <4>1. g[k] = IF k = 0 THEN Zeroth(c) ELSE Following(c, f[k - 1], k)  BY <2>2
      <4>2. k # 0 => g[k - 1] = f[k - 1]  BY <2>3
      <4> HIDE DEF g
      <4>. QED  BY <4>1, <4>2
    <3>. QED  BY <3>1
  <2>5. g = [k \in 0 .. n + 1 |-> g[k]]  OBVIOUS
  <2>6. Chains(c, n + 1, g)
    <3> HIDE DEF g
    <3>. QED  BY <2>4, <2>5 DEF Chains
  <2>. QED  BY <2>6
<1> HIDE DEF good
<1>3. \A n \in Nat : n \in good  BY <1>1, <1>2, NatSetInduction
<1>. QED  BY <1>3 DEF good

(* and one only: shorter lists are its beginning.                          *)
LEMMA ChainsAgree ==
  ASSUME NEW c, NEW n \in Nat, NEW f, Chains(c, n, f), NEW g, Chains(c, n, g)
  PROVE  \A k \in 0 .. n : f[k] = g[k]
<1> DEFINE good == {k \in Nat : k \in 0 .. n => f[k] = g[k]}
<1>1. ASSUME NEW k \in 0 .. n
      PROVE  f[k] = IF k = 0 THEN Zeroth(c) ELSE Following(c, f[k - 1], k)
  BY ChainAt
<1>2. ASSUME NEW k \in 0 .. n
      PROVE  g[k] = IF k = 0 THEN Zeroth(c) ELSE Following(c, g[k - 1], k)
  BY ChainAt
<1>3. 0 \in good  BY <1>1, <1>2
<1>4. ASSUME NEW k \in Nat, k \in good PROVE k + 1 \in good
  <2> SUFFICES ASSUME k + 1 \in 0 .. n PROVE f[k + 1] = g[k + 1]
    OBVIOUS
  <2>1. f[k] = g[k] /\ (k + 1) - 1 = k /\ k + 1 # 0  BY <1>4
  <2>. QED  BY <1>1, <1>2, <2>1
<1> HIDE DEF good
<1>5. \A k \in Nat : k \in good  BY <1>3, <1>4, NatSetInduction
<1>. QED  BY <1>5 DEF good

(* How many blocks hold so many bytes.                                     *)
LEMMA CeilingHolds ==
  ASSUME SizesAreLegal, NEW m \in Nat
  PROVE  /\ Ceiling(m) \in Nat
         /\ \A k \in Nat : Ceiling(m) <= k <=> m <= k * DIGEST
<1>1. DIGEST \in Nat /\ DIGEST > 0  BY DEF SizesAreLegal
<1>2. ASSUME NEW d \in Nat, d > 0
      PROVE  /\ (m + d - 1) \div d \in Nat
             /\ \A k \in Nat : (m + d - 1) \div d <= k <=> m <= k * d
  <2> DEFINE q == (m + d - 1) \div d
             r == (m + d - 1) % d
  <2>1. q \in Int /\ r \in 0 .. d - 1 /\ m + d - 1 = d * q + r
    BY <1>2
  <2> HIDE DEF q, r
  <2>2. ASSUME q < 0 PROVE FALSE
    <3>1. d * (-q) >= d  BY <1>2, <2>1, <2>2
    <3>2. d * (-q) = -(d * q)  BY <2>1
    <3>. QED  BY <2>1, <3>1, <3>2
  <2>3. ASSUME NEW k \in Nat PROVE q <= k <=> m <= k * d
    <3>1. ASSUME q <= k PROVE m <= k * d
      <4>1. d * (k - q) >= 0  BY <2>1, <3>1
      <4>2. d * (k - q) = k * d - d * q  BY <2>1
      <4>. QED  BY <2>1, <4>1, <4>2
    <3>2. ASSUME ~(q <= k) PROVE ~(m <= k * d)
      <4>1. d * (q - k - 1) >= 0  BY <2>1, <3>2
      <4>2. d * (q - k - 1) = d * q - k * d - d  BY <2>1
      <4>. QED  BY <2>1, <4>1, <4>2
    <3>. QED  BY <3>1, <3>2
  <2>4. q \in Nat /\ \A k \in Nat : q <= k <=> m <= k * d  BY <2>1, <2>2, <2>3
  <2>. QED  BY <2>4 DEF q
<1>. QED  BY <1>1, <1>2 DEF Ceiling

(* So the list of a call is what its standard says.                        *)
LEMMA ChainIs ==
  ASSUME SizesAreLegal, NEW c, c.len \in Nat
  PROVE  Chains(c, Ceiling(c.len), Chain(c))
<1>1. Ceiling(c.len) \in Nat  BY CeilingHolds
<1>. QED  BY <1>1, ChainExists DEF Chain

-----------------------------------------------------------------------------
(* Strings of different bytes are strings of the bytes of both.            *)
LEMMA BothStrings ==
  ASSUME NEW s, NEW t, IsString(s), IsString(t)
  PROVE  \E A : s \in Seq(A) /\ t \in Seq(A)
<1>1. PICK A : s \in Seq(A)  BY DEF IsString
<1>2. PICK B : t \in Seq(B)  BY DEF IsString
<1>3. s \in Seq(A \cup B) /\ t \in Seq(A \cup B)  BY <1>1, <1>2
<1>. QED  BY <1>3

(* w is s followed by t.                                                   *)
Joins(w, s, t) ==
  /\ Len(w) = Len(s) + Len(t)
  /\ \A x \in 1 .. Len(s) + Len(t) : w[x] = IF x <= Len(s) THEN s[x] ELSE t[x - Len(s)]

(* Concatenation does that.                                                *)
LEMMA ConcatJoins ==
  ASSUME NEW B, NEW s \in Seq(B), NEW t \in Seq(B)
  PROVE  s \o t \in Seq(B) /\ Joins(s \o t, s, t)
BY ConcatProperties DEF Joins

(* A block copied over the output changes what it covers.                  *)
Covers(w, s, t, n) ==
  /\ IsString(w) /\ Len(w) = Len(s)
  /\ \A x \in 1 .. Len(s) :
       w[x] = IF x <= n THEN s[x] ELSE IF x <= n + Len(t) THEN t[x - n] ELSE s[x]

(* A copy within the output leaves the rest of it as it was.               *)
LEMMA CopyCovers ==
  ASSUME NEW s, NEW t, IsString(s), IsString(t),
         NEW n \in Nat, n + Len(t) <= Len(s),
         NEW all, all = SubSeq(s, 1, n) \o t \o SubSeq(s, n + Len(t) + 1, Len(s))
  PROVE  Covers(all, s, t, n)
<1>1. PICK A : s \in Seq(A) /\ t \in Seq(A)  BY BothStrings
<1> DEFINE l == SubSeq(s, 1, n)
           m == n + Len(t)
           r == SubSeq(s, m + 1, Len(s))
<1>2. Len(t) \in Nat /\ Len(s) \in Nat /\ m \in Nat /\ m <= Len(s) /\ n <= m
  BY <1>1
<1>3. l \in Seq(A) /\ Len(l) = n /\ \A x \in 1 .. n : l[x] = s[x]
  <2>1. 1 \in Int /\ n \in Int /\ \A x \in 1 .. n : s[x] \in A  BY <1>1, <1>2
  <2>2. /\ l \in Seq(A) /\ Len(l) = IF 1 <= n THEN n - 1 + 1 ELSE 0
        /\ \A x \in 1 .. n - 1 + 1 : l[x] = s[1 + x - 1]
    BY <2>1, SubSeqProperties
  <2> HIDE DEF l
  <2>. QED  BY <2>2
<1>4. /\ r \in Seq(A) /\ Len(r) = Len(s) - m
      /\ \A x \in 1 .. Len(s) - m : r[x] = s[m + x]
  <2> DEFINE a == m + 1
             b == Len(s)
             v == SubSeq(s, a, b)
  <2>1. a \in Int /\ b \in Int /\ \A x \in a .. b : s[x] \in A  BY <1>1, <1>2
  <2>2. /\ v \in Seq(A) /\ Len(v) = IF a <= b THEN b - a + 1 ELSE 0
        /\ \A x \in 1 .. b - a + 1 : v[x] = s[a + x - 1]
    <3> HIDE DEF a, b
    <3>. QED  BY <2>1, SubSeqProperties
  <2>3. r = v  OBVIOUS
  <2> HIDE DEF r, v
  <2>. QED  BY <1>2, <2>2, <2>3
<1> HIDE DEF l, r, m
<1> DEFINE lt == l \o t
           w == lt \o r
<1>5. /\ lt \in Seq(A) /\ Len(lt) = m
      /\ \A x \in 1 .. m : lt[x] = IF x <= n THEN l[x] ELSE t[x - n]
  <2>1. lt \in Seq(A) /\ Joins(lt, l, t)  BY <1>1, <1>3, ConcatJoins
  <2> HIDE DEF lt
  <2>. QED  BY <1>2, <1>3, <2>1 DEF m, Joins
<1> HIDE DEF lt
<1>6. /\ w \in Seq(A) /\ Len(w) = Len(s)
      /\ \A x \in 1 .. Len(s) : w[x] = IF x <= m THEN lt[x] ELSE r[x - m]
  <2>1. w \in Seq(A) /\ Joins(w, lt, r)  BY <1>4, <1>5, ConcatJoins
  <2> HIDE DEF w
  <2>. QED  BY <1>2, <1>4, <1>5, <2>1 DEF Joins
<1> HIDE DEF w
<1>7. ASSUME NEW x \in 1 .. Len(s)
      PROVE  w[x] = IF x <= n THEN s[x] ELSE IF x <= m THEN t[x - n] ELSE s[x]
  <2>1. CASE x <= m
    <3>1. x \in 1 .. m  BY <1>2, <2>1
    <3>. QED  BY <1>2, <1>3, <1>5, <1>6, <2>1, <3>1
  <2>2. CASE ~(x <= m)
    <3>1. x - m \in 1 .. Len(s) - m /\ m + (x - m) = x /\ ~(x <= n)  BY <1>2, <2>2
    <3>. QED  BY <1>4, <1>6, <2>2, <3>1
  <2>. QED  BY <2>1, <2>2
<1>8. all = w  BY DEF w, lt, l, r, m
<1>. QED  BY <1>6, <1>7, <1>8 DEF Covers, IsString, m

(* Digests one after the other: byte r of digest k is where it belongs.    *)
Tiles(s, b, n) ==
  /\ IsString(s) /\ Len(s) = n * DIGEST
  /\ \A k \in 1 .. n, r \in 1 .. DIGEST : s[(k - 1) * DIGEST + r] = b[k][r]

(* By the number of digests.                                               *)
LEMMA FlattenTiles ==
  ASSUME DIGEST \in Nat, NEW n \in Nat, NEW b, IsString(b), Len(b) = n,
         \A k \in 1 .. n : IsString(b[k]) /\ Len(b[k]) = DIGEST
  PROVE  Tiles(FlattenSeq(b), b, n)
<1> DEFINE B == {b[k][r] : k \in 1 .. n, r \in 1 .. DIGEST}
           p(m) == [k \in 1 .. m |-> b[k]]
           fine(m) == Tiles(FlattenSeq(p(m)), p(m), m) /\ FlattenSeq(p(m)) \in Seq(B)
           good == {m \in Nat : m <= n => fine(m)}
<1>1. \A k \in 1 .. n : b[k] \in Seq(B)
  <2>1. ASSUME NEW k \in 1 .. n PROVE b[k] \in Seq(B)
    <3>1. PICK A : b[k] \in Seq(A)  BY DEF IsString
    <3>2. Len(b[k]) = DIGEST /\ \A r \in 1 .. DIGEST : b[k][r] \in B  OBVIOUS
    <3> HIDE DEF B
    <3>. QED  BY <3>1, <3>2
  <2>. QED  BY <2>1
<1> HIDE DEF B
<1>2. 0 \in good
  <2>1. p(0) = <<>>  OBVIOUS
  <2>2. FlattenSeq(p(0)) = <<>>  BY <2>1, FlattenNone
  <2>3. <<>> \in Seq(B) /\ Len(<<>>) = 0 * DIGEST  OBVIOUS
  <2>4. Tiles(<<>>, <<>>, 0)  BY <2>3 DEF Tiles, IsString
  <2> HIDE DEF p
  <2>. QED  BY <2>1, <2>2, <2>3, <2>4
<1>3. ASSUME NEW m \in Nat, m \in good PROVE m + 1 \in good
  <2> HIDE DEF fine
  <2> SUFFICES ASSUME m + 1 <= n PROVE fine(m + 1)
    OBVIOUS
  <2> DEFINE s == p(m)
             f == FlattenSeq(s)
             e == b[m + 1]
             g == f \o e
  <2>1. Tiles(f, s, m) /\ f \in Seq(B)
    <3>1. fine(m)  BY <1>3
    <3>. QED  BY <3>1 DEF fine
  <2>2. s \in Seq(Seq(B)) /\ e \in Seq(B) /\ Len(e) = DIGEST
    <3>1. \A k \in 1 .. m : k \in 1 .. n  OBVIOUS
    <3>2. \A k \in 1 .. m : b[k] \in Seq(B)  BY <1>1, <3>1
    <3>3. m + 1 \in 1 .. n  OBVIOUS
    <3>. QED  BY <1>1, <3>2, <3>3
  <2>3. p(m + 1) = Append(s, e)
    <3>1. Append(s, e) = [k \in 1 .. m + 1 |-> IF k = m + 1 THEN e ELSE s[k]]
      OBVIOUS
    <3>2. \A k \in 1 .. m + 1 : p(m + 1)[k] = IF k = m + 1 THEN e ELSE s[k]
      OBVIOUS
    <3>. QED  BY <3>1, <3>2
  <2>4. FlattenSeq(p(m + 1)) = g
    <3> HIDE DEF s, e
    <3>. QED  BY <2>2, <2>3, FlattenAppend
  <2>5. Len(f) = m * DIGEST  BY <2>1 DEF Tiles
  <2>6. \A k \in 1 .. m : s[k] = b[k]  OBVIOUS
  <2>7. \A k \in 1 .. m, r \in 1 .. DIGEST : f[(k - 1) * DIGEST + r] = b[k][r]
    BY <2>1, <2>6 DEF Tiles
  <2> HIDE DEF f, s
  <2>8. /\ g \in Seq(B) /\ Len(g) = m * DIGEST + DIGEST
        /\ \A x \in 1 .. m * DIGEST + DIGEST :
             g[x] = IF x <= m * DIGEST THEN f[x] ELSE e[x - m * DIGEST]
    <3> HIDE DEF e
    <3>1. g \in Seq(B) /\ Joins(g, f, e)  BY <2>1, <2>2, ConcatJoins
    <3> HIDE DEF g
    <3>. QED  BY <2>2, <2>5, <3>1 DEF Joins
  <2> HIDE DEF g
  <2>9. ASSUME NEW k \in 1 .. m + 1, NEW r \in 1 .. DIGEST
        PROVE  g[(k - 1) * DIGEST + r] = b[k][r]
    <3> DEFINE x == (k - 1) * DIGEST + r
               M == m * DIGEST
    <3>1. CASE k = m + 1
      <4>1. x = M + r  BY <3>1
      <4>2. M \in Nat  OBVIOUS
      <4> HIDE DEF x, M
      <4>3. x \in 1 .. M + DIGEST /\ ~(x <= M) /\ x - M = r  BY <4>1, <4>2
      <4>4. g[x] = e[x - M]  BY <2>8, <4>3 DEF M
      <4>. QED  BY <3>1, <4>3, <4>4 DEF x
    <3>2. CASE k # m + 1
      <4>1. k \in 1 .. m  BY <3>2
      <4>2. x \in 1 .. M
        <5>1. (k - 1) * DIGEST >= 0 /\ (k - 1) * DIGEST \in Nat  BY <4>1
        <5>2. (m - k) * DIGEST >= 0  BY <4>1
        <5>3. (m - k) * DIGEST = m * DIGEST - (k - 1) * DIGEST - DIGEST  BY <4>1
        <5>4. m * DIGEST \in Nat  OBVIOUS
        <5>. QED  BY <5>1, <5>2, <5>3, <5>4
      <4>3. M \in Nat  OBVIOUS
      <4>4. g[x] = f[x]
        <5> HIDE DEF x
        <5>1. x \in 1 .. M + DIGEST /\ x <= M  BY <4>2, <4>3
        <5>. QED  BY <2>8, <5>1 DEF M
      <4>. QED  BY <2>7, <4>1, <4>4
    <3>. QED  BY <3>1, <3>2
  <2>10. \A k \in 1 .. m + 1 : p(m + 1)[k] = b[k]  OBVIOUS
  <2>11. (m + 1) * DIGEST = m * DIGEST + DIGEST  OBVIOUS
  <2> HIDE DEF p
  <2>12. Tiles(g, p(m + 1), m + 1)
    BY <2>8, <2>9, <2>10, <2>11 DEF Tiles, IsString
  <2>. QED  BY <2>4, <2>8, <2>12 DEF fine
<1>4. p(n) = b
  <2>1. PICK A : b \in Seq(A)  BY DEF IsString
  <2>. QED  BY <2>1
<1> HIDE DEF good
<1>5. \A m \in Nat : m \in good  BY <1>2, <1>3, NatSetInduction
<1>. QED  BY <1>4, <1>5 DEF good

-----------------------------------------------------------------------------
(* The sizes, as numbers.                                                  *)
LEMMA Sizes ==
  ASSUME SizesAreLegal
  PROVE  /\ BLOCK \in Nat /\ DIGEST \in Nat /\ DIGEST > 0 /\ DIGEST <= BLOCK
         /\ ByteBase \in Nat /\ DIGEST < ByteBase /\ H2C_L \in Nat /\ H2C_L > 0
         /\ INFO_MAX \in Nat /\ MaxAsked \in Nat
BY DEF SizesAreLegal

(* A digest has DIGEST bytes, each known from what was hashed.             *)
LEMMA DigestIs ==
  ASSUME SizesAreLegal, NEW s
  PROVE  IsString(Digest(s)) /\ Len(Digest(s)) = DIGEST
<1>1. DIGEST \in Nat  BY Sizes
<1>2. Digest(s) \in Seq({<<s, j>> : j \in 1 .. DIGEST})  BY <1>1 DEF Digest
<1>3. Len(Digest(s)) = DIGEST  BY <1>1 DEF Digest
<1>. QED  BY <1>2, <1>3 DEF IsString

(* The strings a caller passes are of bytes.                               *)
LEMMA StringsAre ==
  ASSUME NEW s \in Strings PROVE IsString(s) /\ Len(s) \in Nat
BY DEF Strings, IsString

(* A number that fits is its own byte.                                     *)
LEMMA BytesAre ==
  ASSUME SizesAreLegal, NEW v \in 0 .. ByteBase - 1
  PROVE  Byte(v) = <<v>> /\ <<Byte(v)>> = I2OSP(v, 1)
<1>1. v % ByteBase = v  BY Sizes
<1>. QED  BY <1>1 DEF Byte, I2OSP

(* A length that two bytes hold is encoded as I2OSP does.                  *)
LEMMA TwoBytesHold ==
  ASSUME SizesAreLegal, NEW m \in Nat, Ceiling(m) < ByteBase
  PROVE  m < ByteBase * ByteBase
<1>1. /\ DIGEST \in Nat /\ ByteBase \in Nat /\ DIGEST < ByteBase /\ DIGEST > 0
      /\ Ceiling(m) \in Nat
  BY Sizes, CeilingHolds
<1>2. Ceiling(m) <= ByteBase - 1 /\ ByteBase - 1 \in Nat  BY <1>1
<1>3. m <= (ByteBase - 1) * DIGEST  BY <1>2, CeilingHolds
<1>4. m < ByteBase * ByteBase
  <2>1. (ByteBase - 1) * DIGEST <= (ByteBase - 1) * ByteBase
    <3>1. (ByteBase - 1) * (ByteBase - DIGEST) >= 0  BY <1>1
    <3>2. (ByteBase - 1) * (ByteBase - DIGEST) = (ByteBase - 1) * ByteBase - (ByteBase - 1) * DIGEST
      BY <1>1
    <3>3. (ByteBase - 1) * ByteBase \in Int /\ (ByteBase - 1) * DIGEST \in Int  BY <1>1
    <3>. QED  BY <3>1, <3>2, <3>3
  <2>2. (ByteBase - 1) * ByteBase < ByteBase * ByteBase  BY <1>1
  <2>3. (ByteBase - 1) * ByteBase \in Int /\ (ByteBase - 1) * DIGEST \in Int
        /\ ByteBase * ByteBase \in Int  BY <1>1
  <2>. QED  BY <1>3, <2>1, <2>2, <2>3
<1>. QED  BY <1>4

(* Every length that is not refused is such a length.                      *)
LEMMA LengthIs ==
  ASSUME SizesAreLegal, NEW m \in Nat, Ceiling(m) < ByteBase
  PROVE  l_i_b_str(m) = I2OSP(m, 2)
<1>1. ByteBase \in Nat /\ ByteBase > 0  BY Sizes
<1>4. m < ByteBase * ByteBase  BY TwoBytesHold
<1>5. ASSUME NEW b \in Nat, b > 0, m < b * b PROVE (m \div b) % b = m \div b
  <2> DEFINE q == m \div b
             r == m % b
  <2>1. q \in Int /\ r \in 0 .. b - 1 /\ m = b * q + r  BY <1>5
  <2> HIDE DEF q, r
  <2>2. ASSUME q < 0 PROVE FALSE
    <3>1. b * (-q) >= b  BY <1>5, <2>1, <2>2
    <3>2. b * (-q) = -(b * q)  BY <2>1
    <3>. QED  BY <2>1, <3>1, <3>2
  <2>3. ASSUME q >= b PROVE FALSE
    <3>1. b * (q - b) >= 0  BY <1>5, <2>1, <2>3
    <3>2. b * (q - b) = b * q - b * b  BY <2>1
    <3>. QED  BY <1>5, <2>1, <3>1, <3>2
  <2>4. q \in 0 .. b - 1  BY <2>1, <2>2, <2>3
  <2>5. q % b = q  BY <1>5, <2>4
  <2>. QED  BY <2>5 DEF q
<1>6. (m \div ByteBase) % ByteBase = m \div ByteBase  BY <1>1, <1>4, <1>5
<1>. QED  BY <1>6 DEF l_i_b_str, I2OSP, Byte

(* The tag hashed is the tag of the standard.                              *)
LEMMA TagIs ==
  ASSUME Legal, NEW dst \in Tags
  PROVE  /\ IsString(normalise_dst(dst)) /\ Len(normalise_dst(dst)) \in 0 .. ByteBase - 1
         /\ DST_prime(dst) = Tag(dst)
<1> DEFINE n == normalise_dst(dst)
<1>1. IsString(dst) /\ Len(dst) \in Nat
  BY StringsAre DEF Legal, StringsAreLegal
<1>2. /\ SizesAreLegal /\ DIGEST \in Nat /\ DIGEST < ByteBase /\ ByteBase \in Nat
  BY Sizes DEF Legal
<1>3. IsString(n) /\ Len(n) \in 0 .. ByteBase - 1
  BY <1>1, <1>2, DigestIs DEF normalise_dst
<1>4. n = IF Len(dst) > ByteBase - 1 THEN Digest(OVERSIZE \o dst) ELSE dst
  BY <1>1, <1>2 DEF normalise_dst
<1> HIDE DEF n
<1>5. Append(n, Byte(Len(n))) = n \o <<Byte(Len(n))>>
  <2>1. PICK A : n \in Seq(A)  BY <1>3 DEF IsString
  <2> DEFINE b == Byte(Len(n))
  <2> HIDE DEF b
  <2>2. n \in Seq(A \cup {b}) /\ b \in A \cup {b}  BY <2>1
  <2>3. Append(n, b) = n \o <<b>>  BY <2>2, AppendIsConcat
  <2>. QED  BY <2>3 DEF b
<1>6. <<Byte(Len(n))>> = I2OSP(Len(n), 1)  BY <1>2, <1>3, BytesAre
<1>7. DST_prime(dst) = n \o I2OSP(Len(n), 1)  BY <1>5, <1>6 DEF DST_prime, n
<1>8. Tag(dst) = n \o I2OSP(Len(n), 1)  BY <1>4 DEF Tag
<1>. QED  BY <1>3, <1>7, <1>8 DEF n

(* HMAC is RFC 2104's.                                                     *)
LEMMA HmacIs ==
  ASSUME SizesAreLegal, NEW key, IsString(key), NEW text
  PROVE  elips_hmac_sha256(key, text) = RFC2104(key, text)
<1> DEFINE short == IF Len(key) > BLOCK THEN Digest(key) ELSE key
           z == Repeat(Byte(0), BLOCK - Len(short))
           k == short \o z
           pad(by) == [j \in 1 .. BLOCK |->
                         <<IF j <= Len(short) THEN short[j] ELSE Byte(0), <<by>>, 0>>]
<1>1. /\ BLOCK \in Nat /\ DIGEST \in Nat /\ DIGEST <= BLOCK
  BY Sizes
<1>2. PICK A : short \in Seq(A) /\ Len(short) \in 0 .. BLOCK
  <2>1. \E A : key \in Seq(A)  BY DEF IsString
  <2>2. IsString(short) /\ Len(short) \in 0 .. BLOCK
    BY <1>1, <2>1, DigestIs
  <2> HIDE DEF short
  <2>. QED  BY <2>2 DEF IsString
<1> DEFINE B == A \cup {Byte(0)}
<1> HIDE DEF short
<1>3. /\ short \in Seq(B) /\ z \in Seq(B) /\ Len(z) = BLOCK - Len(short)
      /\ \A j \in 1 .. BLOCK - Len(short) : z[j] = Byte(0)
  <2> DEFINE b == Byte(0)
  <2> HIDE DEF b
  <2>. QED  BY <1>1, <1>2 DEF Repeat
<1> HIDE DEF z, B
<1>4. /\ Len(k) = BLOCK
      /\ \A j \in 1 .. BLOCK : k[j] = IF j <= Len(short) THEN short[j] ELSE Byte(0)
  <2>1. k \in Seq(B) /\ Joins(k, short, z)  BY <1>3, ConcatJoins
  <2> HIDE DEF k
  <2>2. Len(short) + Len(z) = BLOCK  BY <1>1, <1>2, <1>3
  <2>3. ASSUME NEW j \in 1 .. BLOCK
        PROVE k[j] = IF j <= Len(short) THEN short[j] ELSE Byte(0)
    <3>1. k[j] = IF j <= Len(short) THEN short[j] ELSE z[j - Len(short)]
      BY <2>1, <2>2 DEF Joins
    <3>2. ~(j <= Len(short)) => j - Len(short) \in 1 .. BLOCK - Len(short)
      BY <1>1, <1>2
    <3>. QED  BY <1>3, <3>1, <3>2
  <2>. QED  BY <2>1, <2>2, <2>3 DEF Joins
<1>5. PaddedKey(key) = k  BY DEF PaddedKey, short, z
<1> HIDE DEF k
<1>6. ASSUME NEW by PROVE Xor(k, Repeat(<<by>>, BLOCK)) = pad(by)
  <2>1. Xor(k, Repeat(<<by>>, BLOCK)) = [j \in 1 .. BLOCK |-> <<k[j], Repeat(<<by>>, BLOCK)[j], 0>>]
    BY <1>4 DEF Xor
  <2>2. \A j \in 1 .. BLOCK : Repeat(<<by>>, BLOCK)[j] = <<by>>  BY DEF Repeat
  <2>. QED  BY <1>4, <2>1, <2>2
<1>7. RFC2104(key, text) = Digest(pad(92) \o Digest(pad(54) \o text))
  BY DEF RFC2104, short
<1> HIDE DEF pad
<1>8. elips_hmac_sha256(key, text)
        = Digest(Xor(k, Repeat(<<92>>, BLOCK)) \o Digest(Xor(k, Repeat(<<54>>, BLOCK)) \o text))
  BY <1>5 DEF elips_hmac_sha256
<1>. QED  BY <1>6, <1>7, <1>8

-----------------------------------------------------------------------------
(* The number of blocks of a call.                                         *)
CeilingOf(c) == Ceiling(c.len)

(* What the standard answers.                                              *)
Legible(c) == IF c.op = "hkdf" THEN RFC5869(c.salt, c.ikm, c.info, c.len)
              ELSE RFC9380(c.msg, c.dst, c.len)

(* Every block but the first of HKDF, which is empty, is a digest.         *)
LEMMA BlocksAre ==
  ASSUME SizesAreLegal, NEW c, c.len \in Nat, NEW k \in 1 .. Ceiling(c.len)
  PROVE  /\ Chain(c)[k] = Following(c, Chain(c)[k - 1], k)
         /\ IsString(Chain(c)[k]) /\ Len(Chain(c)[k]) = DIGEST
<1> DEFINE n == Ceiling(c.len)
           f == Chain(c)
<1>1. n \in Nat /\ Chains(c, n, f)  BY ChainIs, CeilingHolds
<1>2. k \in 0 .. n /\ k # 0  BY <1>1
<1> HIDE DEF f, n
<1>3. f[k] = Following(c, f[k - 1], k)  BY <1>1, <1>2, ChainAt
<1>4. ASSUME NEW p PROVE IsString(Following(c, p, k)) /\ Len(Following(c, p, k)) = DIGEST
  <2>1. CASE c.op = "hkdf"
    BY <2>1, DigestIs DEF Following, RFC2104
  <2>2. CASE c.op # "hkdf"
    BY <2>2, DigestIs DEF Following
  <2>. QED  BY <2>1, <2>2
<1>. QED  BY <1>3, <1>4 DEF f

(* The standard's blocks are those of the chain.                           *)
Rows(f, n) == [k \in 1 .. n |-> f[k]]

(* For expand_message_xmd.                                                 *)
LEMMA XmdChains ==
  ASSUME SizesAreLegal, NEW c, c.op # "hkdf", c.len \in Nat
  PROVE  Legible(c) = SubSeq(FlattenSeq(Rows(Chain(c), CeilingOf(c))), 1, c.len)
<1> DEFINE n == Ceiling(c.len)
           b_0 == Digest(Repeat(Byte(0), BLOCK) \o c.msg \o I2OSP(c.len, 2)
                         \o I2OSP(0, 1) \o Tag(c.dst))
           Blocks(f) == f = [k \in 0 .. n |->
                        CASE k = 0 -> b_0
                          [] k = 1 -> Digest(b_0 \o I2OSP(1, 1) \o Tag(c.dst))
                          [] OTHER -> Digest(Xor(b_0, f[k - 1]) \o I2OSP(k, 1) \o Tag(c.dst))]
           b == CHOOSE f : Blocks(f)
<1>1. n \in Nat  BY CeilingHolds
<1>2. Legible(c) = SubSeq(FlattenSeq([k \in 1 .. n |-> b[k]]), 1, c.len)
  BY DEF Legible, RFC9380
<1>3. b_0 = ZeroBlock(c)  BY DEF ZeroBlock
<1>4. ASSUME NEW f PROVE Blocks(f) <=> Chains(c, n, f)
  <2> DEFINE l == [k \in 0 .. n |->
                        CASE k = 0 -> b_0
                          [] k = 1 -> Digest(b_0 \o I2OSP(1, 1) \o Tag(c.dst))
                          [] OTHER -> Digest(Xor(b_0, f[k - 1]) \o I2OSP(k, 1) \o Tag(c.dst))]
             r == [k \in 0 .. n |-> IF k = 0 THEN Zeroth(c) ELSE Following(c, f[k - 1], k)]
  <2>1. \A k \in 0 .. n : l[k] = r[k]
    BY <1>3 DEF Zeroth, Following
  <2>2. l = r  BY <2>1
  <2>. QED  BY <2>2 DEF Chains
<1> HIDE DEF Blocks
<1>5. Blocks(b)
  <2>1. \E f : Blocks(f)  BY <1>1, <1>4, ChainExists
  <2>. QED  BY <2>1
<1>6. Chains(c, n, b)  BY <1>4, <1>5
<1>7. Chains(c, n, Chain(c))  BY ChainIs
<1> HIDE DEF b
<1>8. \A k \in 0 .. n : b[k] = Chain(c)[k]  BY <1>1, <1>6, <1>7, ChainsAgree
<1>9. [k \in 1 .. n |-> b[k]] = Rows(Chain(c), n)  BY <1>1, <1>8 DEF Rows
<1>. QED  BY <1>2, <1>9 DEF CeilingOf

(* For HKDF.                                                               *)
LEMMA HkdfChains ==
  ASSUME SizesAreLegal, NEW c, c.op = "hkdf", c.len \in Nat
  PROVE  Legible(c) = SubSeq(FlattenSeq(Rows(Chain(c), CeilingOf(c))), 1, c.len)
<1> DEFINE n == Ceiling(c.len)
           PRK == RFC2104(c.salt, c.ikm)
           Blocks(f) == f = [k \in 0 .. n |->
                        IF k = 0 THEN <<>> ELSE RFC2104(PRK, f[k - 1] \o c.info \o I2OSP(k, 1))]
           b == CHOOSE f : Blocks(f)
<1>1. n \in Nat  BY CeilingHolds
<1>2. Legible(c) = SubSeq(FlattenSeq([k \in 1 .. n |-> b[k]]), 1, c.len)
  BY DEF Legible, RFC5869
<1>4. ASSUME NEW f PROVE Blocks(f) <=> Chains(c, n, f)
  <2> DEFINE l == [k \in 0 .. n |->
                        IF k = 0 THEN <<>> ELSE RFC2104(PRK, f[k - 1] \o c.info \o I2OSP(k, 1))]
             r == [k \in 0 .. n |-> IF k = 0 THEN Zeroth(c) ELSE Following(c, f[k - 1], k)]
  <2>1. \A k \in 0 .. n : l[k] = r[k]
    BY DEF Zeroth, Following
  <2>2. l = r  BY <2>1
  <2>. QED  BY <2>2 DEF Chains
<1> HIDE DEF Blocks
<1>5. Blocks(b)
  <2>1. \E f : Blocks(f)  BY <1>1, <1>4, ChainExists
  <2>. QED  BY <2>1
<1>6. Chains(c, n, b)  BY <1>4, <1>5
<1>7. Chains(c, n, Chain(c))  BY ChainIs
<1> HIDE DEF b
<1>8. \A k \in 0 .. n : b[k] = Chain(c)[k]  BY <1>1, <1>6, <1>7, ChainsAgree
<1>9. [k \in 1 .. n |-> b[k]] = Rows(Chain(c), n)  BY <1>1, <1>8 DEF Rows
<1>. QED  BY <1>2, <1>9 DEF CeilingOf

(* Byte by byte, what the standard answers.                                *)
LEMMA StandardIs ==
  ASSUME SizesAreLegal, NEW c, c.len \in Nat
  PROVE  /\ IsString(Legible(c)) /\ Len(Legible(c)) = c.len
         /\ \A k \in 1 .. Ceiling(c.len), r \in 1 .. DIGEST :
              (k - 1) * DIGEST + r <= c.len =>
                Legible(c)[(k - 1) * DIGEST + r] = Chain(c)[k][r]
<1> DEFINE n == Ceiling(c.len)
           b == Rows(Chain(c), n)
           s == FlattenSeq(b)
           m == c.len
           l == SubSeq(s, 1, m)
<1>1. n \in Nat /\ DIGEST \in Nat /\ DIGEST > 0 /\ m <= n * DIGEST /\ m \in Nat
  <2>1. n \in Nat /\ (n <= n <=> m <= n * DIGEST)  BY CeilingHolds
  <2>. QED  BY <2>1, Sizes
<1>2. Legible(c) = l  BY XmdChains, HkdfChains DEF CeilingOf
<1>3. \A k \in 1 .. n : b[k] = Chain(c)[k] /\ IsString(b[k]) /\ Len(b[k]) = DIGEST
  BY BlocksAre DEF Rows
<1>4. IsString(b) /\ Len(b) = n
  <2>1. b \in Seq({Chain(c)[k] : k \in 1 .. n}) /\ Len(b) = n  BY <1>1 DEF Rows
  <2>. QED  BY <2>1 DEF IsString
<1> HIDE DEF b, n
<1>5. Tiles(s, b, n)  BY <1>1, <1>3, <1>4, FlattenTiles
<1> HIDE DEF s, m
<1>6. PICK A : s \in Seq(A)  BY <1>5 DEF Tiles, IsString
<1>7. l \in Seq(A) /\ Len(l) = m /\ \A x \in 1 .. m : l[x] = s[x]
  <2>0. Len(s) = n * DIGEST  BY <1>5 DEF Tiles
  <2>1. 1 \in Int /\ m \in Int /\ \A x \in 1 .. m : s[x] \in A
    <3>1. \A x \in 1 .. m : x \in 1 .. Len(s)  BY <1>1, <2>0
    <3>. QED  BY <1>1, <1>6, <3>1
  <2>2. /\ l \in Seq(A) /\ Len(l) = IF 1 <= m THEN m - 1 + 1 ELSE 0
        /\ \A x \in 1 .. m - 1 + 1 : l[x] = s[1 + x - 1]
    BY <2>1, SubSeqProperties
  <2> HIDE DEF l
  <2>. QED  BY <1>1, <2>2
<1> HIDE DEF l
<1>8. ASSUME NEW k \in 1 .. n, NEW r \in 1 .. DIGEST, (k - 1) * DIGEST + r <= m
      PROVE  l[(k - 1) * DIGEST + r] = Chain(c)[k][r]
  <2> DEFINE x == (k - 1) * DIGEST + r
  <2>1. x \in 1 .. m
    <3>1. (k - 1) * DIGEST \in Nat  BY <1>1
    <3>. QED  BY <1>1, <1>8, <3>1
  <2>2. s[x] = b[k][r]  BY <1>5 DEF Tiles
  <2>. QED  BY <1>3, <1>7, <2>1, <2>2
<1>9. IsString(l)  BY <1>7 DEF IsString
<1>. QED  BY <1>2, <1>7, <1>8, <1>9 DEF m, n

(* Each position is a byte of one block.                                   *)
LEMMA Position ==
  ASSUME SizesAreLegal, NEW n \in Nat, NEW j \in 1 .. n * DIGEST
  PROVE  \E k \in 1 .. n, r \in 1 .. DIGEST : j = (k - 1) * DIGEST + r
<1>1. DIGEST \in Nat /\ DIGEST > 0  BY Sizes
<1>2. ASSUME NEW d \in Nat, d > 0, NEW x \in 1 .. n * d
      PROVE  \E k \in 1 .. n, r \in 1 .. d : x = (k - 1) * d + r
  <2> DEFINE q == (x - 1) \div d
             r == (x - 1) % d
  <2>0. n * d \in Nat /\ x \in Nat /\ x >= 1 /\ x <= n * d  BY <1>2
  <2>1. q \in Int /\ r \in 0 .. d - 1 /\ x - 1 = d * q + r  BY <1>2, <2>0
  <2> HIDE DEF q, r
  <2>2. ASSUME q < 0 PROVE FALSE
    <3>1. d * (-q) >= d  BY <1>2, <2>1, <2>2
    <3>2. d * (-q) = -(d * q)  BY <2>1
    <3>3. d * q \in Int  BY <2>1
    <3>. QED  BY <2>0, <2>1, <3>1, <3>2, <3>3
  <2>3. ASSUME q >= n PROVE FALSE
    <3>1. d * (q - n) >= 0  BY <1>2, <2>1, <2>3
    <3>2. d * (q - n) = d * q - n * d  BY <2>1
    <3>3. d * q \in Int  BY <2>1
    <3>. QED  BY <2>0, <2>1, <3>1, <3>2, <3>3
  <2>4. q + 1 \in 1 .. n /\ r + 1 \in 1 .. d  BY <1>2, <2>1, <2>2, <2>3
  <2>5. x = ((q + 1) - 1) * d + (r + 1)
    <3>1. ((q + 1) - 1) * d = d * q  BY <2>1
    <3>2. d * q \in Int  BY <2>1
    <3>. QED  BY <2>0, <2>1, <3>1, <3>2
  <2>. QED  BY <2>4, <2>5
<1>. QED  BY <1>1, <1>2

-----------------------------------------------------------------------------
(* A request the standard can answer.                                      *)
LegalCall(c) == /\ Ceiling(c.len) < ByteBase
                /\ IF c.op = "hkdf" THEN Len(c.info) <= INFO_MAX ELSE c.dst # <<>>

(* The code refuses exactly the others.                                    *)
LEMMA RefusedIs ==
  ASSUME Legal, NEW c, IsCall(c)
  PROVE  ~Refused(c) <=> LegalCall(c)
<1>1. SizesAreLegal /\ ByteBase \in Nat /\ ByteBase > 0 /\ INFO_MAX \in Nat
      /\ DIGEST \in Nat
  BY Sizes DEF Legal
<1>2. c.len \in Nat  BY DEF IsCall
<1>3. Ceiling(c.len) \in Nat /\ ByteBase - 1 \in Nat  BY <1>1, <1>2, CeilingHolds
<1>4. CASE c.op = "hkdf"
  <2>1. c.info \in Strings  BY <1>4 DEF IsCall, Legal, StringsAreLegal
  <2>2. Len(c.info) \in Nat  BY <2>1, StringsAre
  <2>3. Ceiling(c.len) <= ByteBase - 1 <=> c.len <= (ByteBase - 1) * DIGEST
    BY <1>1, <1>2, <1>3, CeilingHolds
  <2>4. (ByteBase - 1) * DIGEST \in Int  BY <1>1
  <2>. QED  BY <1>1, <1>2, <1>3, <1>4, <2>2, <2>3, <2>4
            DEF Refused, HkdfRefuses, LegalCall
<1>5. CASE c.op # "hkdf"
  <2>1. Ceiling(c.len) < ByteBase => c.len < ByteBase * ByteBase
    BY <1>1, <1>2, TwoBytesHold
  <2>2. ByteBase * ByteBase \in Int  BY <1>1
  <2>. QED  BY <1>1, <1>2, <1>3, <1>5, <2>1, <2>2
            DEF Refused, XmdRefuses, LegalCall
<1>. QED  BY <1>4, <1>5

(* Nothing is laid before the first block.                                 *)
LEMMA NothingLaid ==
  ASSUME Legal, NEW c, IsCall(c), request' = c, i' \in {0, 1},
         out' = Repeat(UNSET, RoomOf(c))
  PROVE  Laid'
<1>1. DIGEST \in Nat /\ RoomOf(c) \in Nat  BY Sizes DEF Legal, IsCall
<1>2. /\ out' \in Seq({UNSET}) /\ Len(out') = RoomOf(c)
      /\ \A j \in 1 .. RoomOf(c) : out'[j] = UNSET
  BY <1>1 DEF Repeat
<1>3. 1 .. i' - 1 = {}
  <2>1. CASE i' = 0  BY <2>1
  <2>2. CASE i' = 1  BY <2>2
  <2>. QED  BY <2>1, <2>2
<1>. QED  BY <1>2, <1>3 DEF Laid, IsString, RoomOf, Room

(* A block is laid after the others.                                       *)
LEMMA BlockLaid ==
  ASSUME Legal, IsCall(request), Laid, i \in 1 .. Ceiling(request.len),
         NEW off, off = (i - 1) * DIGEST,
         out' = Copied(off, Taken(Chain(request)[i], request.len, off)),
         i' = i + 1, request' = request
  PROVE  Laid'
<1> DEFINE b == Chain(request)[i]
           m == request.len
           t == Taken(b, m, off)
           w == out'
<1>1. SizesAreLegal /\ DIGEST \in Nat /\ DIGEST > 0  BY Sizes DEF Legal
<1>2. m \in Nat /\ Ceiling(m) \in Nat /\ m <= RoomOf(request) /\ RoomOf(request) \in Nat
  BY <1>1, CeilingHolds DEF IsCall
<1>3. i \in Nat /\ i >= 1 /\ off \in Nat /\ off < m
  <2>1. i \in Nat /\ i >= 1 /\ ~(Ceiling(m) <= i - 1) /\ i - 1 \in Nat  BY <1>2
  <2>2. ~(m <= (i - 1) * DIGEST)  BY <1>1, <1>2, <2>1, CeilingHolds
  <2>3. (i - 1) * DIGEST \in Nat  BY <1>1, <2>1
  <2>. QED  BY <1>2, <2>1, <2>2, <2>3
<1>4. IsString(b) /\ Len(b) = DIGEST  BY <1>1, <1>2, BlocksAre
<1> DEFINE g == IF m - off < DIGEST THEN m - off ELSE DIGEST
<1>5. g \in 1 .. DIGEST /\ off + g <= m  BY <1>1, <1>2, <1>3
<1>6. t = SubSeq(b, 1, g)  BY DEF Taken
<1> HIDE DEF b, g, t, m
<1>7. IsString(t) /\ Len(t) = g /\ \A x \in 1 .. g : t[x] = b[x]
  <2>1. PICK A : b \in Seq(A)  BY <1>4 DEF IsString
  <2>2. 1 \in Int /\ g \in Int /\ \A x \in 1 .. g : b[x] \in A
    <3>1. \A x \in 1 .. g : x \in 1 .. Len(b)  BY <1>1, <1>4, <1>5
    <3>. QED  BY <1>5, <2>1, <3>1
  <2> DEFINE v == SubSeq(b, 1, g)
  <2>3. /\ v \in Seq(A) /\ Len(v) = IF 1 <= g THEN g - 1 + 1 ELSE 0
        /\ \A x \in 1 .. g - 1 + 1 : v[x] = b[1 + x - 1]
    BY <2>2, SubSeqProperties
  <2>4. t = v  BY <1>6
  <2> HIDE DEF v
  <2>5. t \in Seq(A)  BY <2>3, <2>4
  <2>6. Len(t) = g /\ \A x \in 1 .. g : t[x] = b[x]  BY <1>5, <2>3, <2>4
  <2>. QED  BY <2>5, <2>6 DEF IsString
<1>8. IsString(out) /\ Len(out) = RoomOf(request)  BY DEF Laid
<1>9. off + Len(t) <= Len(out)
  BY <1>1, <1>2, <1>3, <1>5, <1>7, <1>8
<1>10. w = SubSeq(out, 1, off) \o t \o SubSeq(out, off + Len(t) + 1, Len(out))
  BY DEF Copied, t, b, m
<1> HIDE DEF w
<1>11. /\ IsString(w) /\ Len(w) = Len(out)
       /\ \A x \in 1 .. Len(out) :
            w[x] = IF x <= off THEN out[x] ELSE IF x <= off + Len(t) THEN t[x - off]
                   ELSE out[x]
  <2>1. Covers(w, out, t, off)  BY <1>3, <1>7, <1>8, <1>9, <1>10, CopyCovers
  <2>. QED  BY <2>1 DEF Covers
<1>12. ASSUME NEW x \in 1 .. Len(out)
       PROVE  w[x] = IF x <= off THEN out[x] ELSE IF x <= off + g THEN b[x - off]
                     ELSE out[x]
  <2>1. ~(x <= off) /\ x <= off + g => x - off \in 1 .. g
    BY <1>2, <1>3, <1>5, <1>8
  <2>. QED  BY <1>7, <1>11, <2>1
<1>13. ASSUME NEW k \in 1 .. i, NEW r \in 1 .. DIGEST, (k - 1) * DIGEST + r <= m
       PROVE  w[(k - 1) * DIGEST + r] = Chain(request)[k][r]
  <2> DEFINE a == (k - 1) * DIGEST
             x == a + r
  <2>0. a \in Nat  BY <1>1
  <2>1. CASE k = i
    <3>1. a = off  BY <2>1
    <3> HIDE DEF a
    <3>2. x \in 1 .. Len(out) /\ ~(x <= off) /\ x - off = r
      BY <1>1, <1>2, <1>3, <1>8, <1>13, <3>1 DEF a
    <3>3. x <= off + g
      BY <1>1, <1>2, <1>3, <1>13, <3>1 DEF a, g
    <3>4. w[x] = b[r]  BY <1>12, <3>2, <3>3
    <3>. QED  BY <2>1, <3>4 DEF b, a
  <2>2. CASE k # i
    <3>1. k \in 1 .. i - 1  BY <1>3, <2>2
    <3>2. a + DIGEST <= off
      <4>1. (i - 1 - k) * DIGEST >= 0  BY <1>1, <1>3, <3>1
      <4>2. (i - 1 - k) * DIGEST = (i - 1) * DIGEST - (k - 1) * DIGEST - DIGEST
        BY <1>1, <1>3
      <4>. QED  BY <1>1, <1>3, <2>0, <4>1, <4>2
    <3>3. out[x] = Chain(request)[k][r]  BY <1>13, <3>1 DEF Laid, m
    <3> HIDE DEF a
    <3>4. x \in 1 .. Len(out) /\ x <= off
      BY <1>1, <1>2, <1>3, <1>8, <2>0, <3>2
    <3>5. w[x] = out[x]  BY <1>12, <3>4
    <3>. QED  BY <3>3, <3>5 DEF a
  <2>. QED  BY <2>1, <2>2
<1>14. ASSUME NEW j \in 1 .. Len(out), j > m \/ j > i * DIGEST
       PROVE  w[j] = UNSET
  <2>1. i * DIGEST = off + DIGEST /\ i * DIGEST \in Nat  BY <1>1, <1>3
  <2>2. j \in Nat /\ j > off /\ ~(j <= off + g)
    BY <1>1, <1>2, <1>3, <1>8, <1>14, <2>1 DEF g
  <2>3. w[j] = out[j]  BY <1>3, <1>12, <2>2
  <2>4. out[j] = UNSET
    <3>1. j > (i - 1) * DIGEST  BY <2>2
    <3>. QED  BY <3>1 DEF Laid
  <2>. QED  BY <2>3, <2>4
<1>15. i' - 1 = i  BY <1>3
<1>16. IsString(out') /\ Len(out') = RoomOf(request')  BY <1>8, <1>11 DEF w
<1>17. \A k \in 1 .. i' - 1, r \in 1 .. DIGEST :
         (k - 1) * DIGEST + r <= request'.len => out'[(k - 1) * DIGEST + r] = Chain(request')[k][r]
  BY <1>13, <1>15 DEF w, m
<1>18. \A j \in 1 .. Len(out') : j > request'.len \/ j > (i' - 1) * DIGEST => out'[j] = UNSET
  BY <1>11, <1>14, <1>15 DEF w, m
<1>. QED  BY <1>16, <1>17, <1>18 DEF Laid, RoomOf, Room

-----------------------------------------------------------------------------
(* No call has been made at the start.                                     *)
LEMMA ExpandInitially == ExpandInit => ExpandIInv
BY DEF ExpandInit, ExpandIInv

(* expand_message_xmd and hash_to_field start, or refuse.                  *)
LEMMA ExpandStarts ==
  ASSUME Legal, ExpandIInv, pc = "idle",
         NEW op \in {"bytes", "fp", "fp2"}, NEW msg \in Messages, NEW dst \in Tags,
         NEW len \in Nat, NEW room \in Nat, len <= room,
         room = (IF op \in {"fp", "fp2"} THEN Room(op) ELSE len),
         Expand(op, msg, dst, len, room)
  PROVE  ExpandIInv'
<1> DEFINE c == [op |-> op, msg |-> msg, dst |-> dst, len |-> len]
<1>1. /\ c.op = op /\ c.op # "hkdf" /\ c.msg = msg /\ c.dst = dst /\ c.len = len
      /\ request' = c
  BY DEF Expand
<1> HIDE DEF c
<1>2. RoomOf(c) = room  BY <1>1 DEF RoomOf
<1>3. IsCall(c)  BY <1>1, <1>2 DEF IsCall
<1>4. i = 0 /\ ret = 0  BY DEF ExpandIInv
<1>5. Refused(c) <=> dst = <<>> \/ XmdRefuses(len)  BY <1>1 DEF Refused
<1>6. out' = Repeat(UNSET, RoomOf(c))  BY <1>2 DEF Expand
<1>7. CASE Refused(c)
  <2>1. ret' = -1 /\ pc' = "done" /\ i' = 0  BY <1>4, <1>5, <1>7 DEF Expand
  <2>2. Laid'  BY <1>1, <1>3, <1>6, <2>1, NothingLaid
  <2>3. IsCall(request)'  BY <1>1, <1>3 DEF IsCall, RoomOf, Room
  <2>4. Ended'
    BY <1>1, <1>7, <2>1 DEF Ended, Refused, HkdfRefuses, XmdRefuses, Ceiling
  <2>. QED  BY <2>1, <2>2, <2>3, <2>4 DEF ExpandIInv
<1>8. CASE ~Refused(c)
  <2>1. /\ ret' = 0 /\ pc' = "xmd" /\ i' = 1
        /\ first' = Digest(B0String(msg, dst, len))
    BY <1>4, <1>5, <1>8 DEF Expand
  <2>2. Laid'  BY <1>1, <1>3, <1>6, <2>1, NothingLaid
  <2>3. IsCall(request)'  BY <1>1, <1>3 DEF IsCall, RoomOf, Room
  <2>4. LegalCall(c)  BY <1>3, <1>8, RefusedIs
  <2>5. Ceiling(len) \in Nat /\ Ceiling(len) < ByteBase /\ SizesAreLegal
    BY <1>1, <2>4, CeilingHolds DEF Legal, LegalCall
  <2>6. first' = ZeroBlock(c)
    <3>1. l_i_b_str(len) = I2OSP(len, 2)  BY <2>5, LengthIs
    <3>2. <<Byte(0)>> = I2OSP(0, 1)
      <4>1. 0 \in 0 .. ByteBase - 1  BY <2>5, Sizes
      <4>. QED  BY <2>5, <4>1, BytesAre
    <3>3. DST_prime(dst) = Tag(dst)  BY TagIs
    <3>. QED  BY <1>1, <2>1, <3>1, <3>2, <3>3 DEF B0String, ZeroBlock
  <2>7. i' \in 1 .. Ceiling(request'.len) + 1  BY <1>1, <2>1, <2>5
  <2>8. Running'
    <3>1. ~Refused(request)'
      BY <1>1, <1>8 DEF Refused, HkdfRefuses, XmdRefuses, Ceiling
    <3>2. first' = ZeroBlock(request)'
      BY <1>1, <2>6 DEF ZeroBlock
    <3>3. (i \in 1 .. Ceiling(request.len) + 1)'  BY <2>7 DEF Ceiling
    <3>. QED  BY <1>1, <2>1, <3>1, <3>2, <3>3 DEF Running
  <2>. QED  BY <2>1, <2>2, <2>3, <2>8 DEF ExpandIInv
<1>. QED  BY <1>7, <1>8

(* HKDF starts, or refuses.                                                *)
LEMMA HkdfStarts ==
  ASSUME Legal, ExpandIInv, HkdfStart PROVE ExpandIInv'
<1>1. PICK salt \in Keys, ikm \in Messages, info \in Infos, len \in 0 .. MaxAsked :
        /\ request' = [op |-> "hkdf", salt |-> salt, ikm |-> ikm, info |-> info, len |-> len]
        /\ out' = Repeat(UNSET, len)
        /\ first' = elips_hkdf_extract(salt, ikm)
        /\ IF HkdfRefuses(len, info)
           THEN ret' = -1 /\ pc' = "done" /\ UNCHANGED i
           ELSE i' = 1 /\ pc' = "hkdf" /\ UNCHANGED ret
  BY DEF HkdfStart
<1> DEFINE c == [op |-> "hkdf", salt |-> salt, ikm |-> ikm, info |-> info, len |-> len]
<1>2. /\ c.op = "hkdf" /\ c.salt = salt /\ c.ikm = ikm /\ c.info = info /\ c.len = len
      /\ request' = c
  BY <1>1
<1> HIDE DEF c
<1>3. len \in Nat /\ SizesAreLegal  BY Sizes DEF Legal
<1>4. RoomOf(c) = len /\ IsCall(c)  BY <1>2, <1>3 DEF RoomOf, IsCall
<1>5. i = 0 /\ ret = 0  BY DEF ExpandIInv, HkdfStart
<1>6. Refused(c) <=> HkdfRefuses(len, info)  BY <1>2 DEF Refused
<1>7. out' = Repeat(UNSET, RoomOf(c))  BY <1>1, <1>4
<1>8. IsCall(request)'  BY <1>2, <1>4 DEF IsCall, RoomOf, Room
<1>9. CASE Refused(c)
  <2>1. ret' = -1 /\ pc' = "done" /\ i' = 0  BY <1>1, <1>5, <1>6, <1>9
  <2>2. Laid'  BY <1>2, <1>4, <1>7, <2>1, NothingLaid
  <2>3. Ended'
    BY <1>2, <1>9, <2>1 DEF Ended, Refused, HkdfRefuses, XmdRefuses, Ceiling
  <2>. QED  BY <1>8, <2>1, <2>2, <2>3 DEF ExpandIInv
<1>10. CASE ~Refused(c)
  <2>1. ret' = 0 /\ pc' = "hkdf" /\ i' = 1  BY <1>1, <1>5, <1>6, <1>10
  <2>2. Laid'  BY <1>2, <1>4, <1>7, <2>1, NothingLaid
  <2>3. first' = RFC2104(salt, ikm)
    <3>1. salt \in Strings  BY DEF Legal, StringsAreLegal
    <3>2. IsString(salt)  BY <3>1, StringsAre
    <3>. QED  BY <1>1, <1>3, <3>2, HmacIs DEF elips_hkdf_extract
  <2>4. Ceiling(len) \in Nat  BY <1>3, CeilingHolds
  <2>5. i' \in 1 .. Ceiling(request'.len) + 1  BY <1>2, <2>1, <2>4
  <2>6. Running'
    <3>1. ~Refused(request)'
      BY <1>2, <1>10 DEF Refused, HkdfRefuses, XmdRefuses, Ceiling
    <3>2. (first = IF request.op = "hkdf" THEN RFC2104(request.salt, request.ikm)
                   ELSE ZeroBlock(request))'
      BY <1>2, <2>3 DEF RFC2104
    <3>3. (i \in 1 .. Ceiling(request.len) + 1)'  BY <2>5 DEF Ceiling
    <3>4. ((pc = "hkdf") = (request.op = "hkdf"))' /\ ret' = 0 /\ ~(i' > 1)
      BY <1>2, <2>1
    <3>. QED  BY <3>1, <3>2, <3>3, <3>4 DEF Running
  <2>. QED  BY <1>8, <2>1, <2>2, <2>6 DEF ExpandIInv
<1>. QED  BY <1>9, <1>10

(* The call goes on: what a block changes besides the output.              *)
LEMMA RunGoesOn ==
  ASSUME Legal, IsCall(request), Running, pc \in {"xmd", "hkdf"}, Laid',
         i <= Ceiling(request.len), i' = i + 1, prev' = Chain(request)[i],
         pc' = pc, request' = request, first' = first, ret' = ret
  PROVE  ExpandIInv'
<1>1. IsCall(request)'  BY DEF IsCall, RoomOf, Room
<1>2. SizesAreLegal /\ request.len \in Nat  BY DEF Legal, IsCall
<1>3. Ceiling(request.len) \in Nat  BY <1>2, CeilingHolds
<1>4. i \in Nat /\ i >= 1 /\ i' - 1 = i  BY <1>3 DEF Running
<1>5. i' \in 1 .. Ceiling(request.len) + 1  BY <1>3, <1>4
<1>6. Running'
  <2>1. ~Refused(request)'  BY DEF Running, Refused, HkdfRefuses, XmdRefuses, Ceiling
  <2>2. (first = IF request.op = "hkdf" THEN RFC2104(request.salt, request.ikm) ELSE ZeroBlock(request))'
    BY DEF Running, ZeroBlock, RFC2104
  <2>3. (i \in 1 .. Ceiling(request.len) + 1)'  BY <1>5 DEF Ceiling
  <2>4. prev' = Chain(request')[i' - 1]  BY <1>4
  <2>5. ((pc = "hkdf") = (request.op = "hkdf"))' /\ ret' = 0  BY DEF Running
  <2> HIDE DEF Chain
  <2>. QED  BY <2>1, <2>2, <2>3, <2>4, <2>5 DEF Running
<1>. QED  BY <1>1, <1>6 DEF ExpandIInv

(* One block more of expand_message_xmd is the next of its chain.          *)
LEMMA XmdGoesOn ==
  ASSUME Legal, ExpandIInv, XmdBlock PROVE ExpandIInv'
<1> DEFINE chained == IF i = 1 THEN first ELSE Xor(first, prev)
           b == Digest(chained \o <<Byte(i)>> \o DST_prime(request.dst))
           off == (i - 1) * DIGEST
<1>1. /\ pc = "xmd" /\ i <= Ceiling(request.len) /\ prev' = b
      /\ out' = Copied(off, Taken(b, request.len, off)) /\ i' = i + 1
      /\ pc' = pc /\ request' = request /\ first' = first /\ ret' = ret
  BY DEF XmdBlock
<1>2. IsCall(request) /\ Laid /\ Running  BY <1>1 DEF ExpandIInv
<1>3. SizesAreLegal /\ request.len \in Nat  BY <1>2 DEF Legal, IsCall
<1>4. Ceiling(request.len) \in Nat /\ Ceiling(request.len) < ByteBase /\ ByteBase \in Nat
  <2>1. LegalCall(request)  BY <1>2, RefusedIs DEF Running
  <2>. QED  BY <1>3, <2>1, CeilingHolds, Sizes DEF LegalCall
<1>5. i \in 1 .. Ceiling(request.len)  BY <1>1, <1>2, <1>4 DEF Running
<1>6. request.op # "hkdf" /\ first = ZeroBlock(request) /\ (i > 1 => prev = Chain(request)[i - 1])
  BY <1>1, <1>2 DEF Running
<1>7. <<Byte(i)>> = I2OSP(i, 1)
  <2>1. i \in 0 .. ByteBase - 1  BY <1>4, <1>5
  <2>. QED  BY <1>3, <2>1, BytesAre
<1>8. DST_prime(request.dst) = Tag(request.dst)
  <2>1. request.dst \in Tags  BY <1>2, <1>6 DEF IsCall
  <2>. QED  BY <2>1, TagIs
<1>9. b = Following(request, Chain(request)[i - 1], i)
  <2>1. CASE i = 1
    BY <1>6, <1>7, <1>8, <2>1 DEF Following
  <2>2. CASE i # 1
    <3>1. i > 1  BY <1>4, <1>5, <2>2
    <3>. QED  BY <1>6, <1>7, <1>8, <2>2, <3>1 DEF Following
  <2>. QED  BY <2>1, <2>2
<1>10. b = Chain(request)[i]  BY <1>3, <1>5, <1>9, BlocksAre
<1> HIDE DEF b, off
<1>11. Laid'
  <2>1. off = (i - 1) * DIGEST  BY DEF off
  <2>. QED  BY <1>1, <1>2, <1>5, <1>10, <2>1, BlockLaid
<1>. QED  BY <1>1, <1>2, <1>10, <1>11, RunGoesOn

(* What is concatenated one after another is concatenated at once.         *)
AtOnce(p, s, b) == p \o Append(s, b) = p \o s \o <<b>>

(* Appending a byte is concatenating it.                                   *)
LEMMA AppendedByte ==
  ASSUME NEW p, NEW s, NEW b, IsString(p), IsString(s)
  PROVE  AtOnce(p, s, b)
<1>1. PICK A : p \in Seq(A) /\ s \in Seq(A)  BY BothStrings
<1> DEFINE B == A \cup {b}
<1>2. p \in Seq(B) /\ s \in Seq(B) /\ b \in B /\ <<b>> \in Seq(B)  BY <1>1
<1> HIDE DEF B
<1>3. Append(s, b) = s \o <<b>>  BY <1>2, AppendIsConcat
<1> DEFINE t == <<b>>
<1>4. t \in Seq(B)  BY <1>2
<1> HIDE DEF t
<1>5. p \o (s \o t) = (p \o s) \o t  BY <1>2, <1>4, ConcatAssociative
<1>. QED  BY <1>3, <1>5 DEF t, AtOnce

(* One block more of HKDF is the next of its chain.                        *)
LEMMA HkdfGoesOn ==
  ASSUME Legal, ExpandIInv, HkdfBlock PROVE ExpandIInv'
<1> DEFINE p == IF i > 1 THEN prev ELSE <<>>
           t == elips_hmac_sha256(first, p \o Append(request.info, Byte(i)))
           off == (i - 1) * DIGEST
<1>1. /\ pc = "hkdf" /\ off < request.len /\ prev' = t
      /\ out' = Copied(off, Taken(t, request.len, off)) /\ i' = i + 1
      /\ pc' = pc /\ request' = request /\ first' = first /\ ret' = ret
  BY DEF HkdfBlock, Done
<1>2. IsCall(request) /\ Laid /\ Running  BY <1>1 DEF ExpandIInv
<1>3. SizesAreLegal /\ request.len \in Nat /\ DIGEST \in Nat  BY <1>2, Sizes DEF Legal, IsCall
<1>4. Ceiling(request.len) \in Nat /\ Ceiling(request.len) < ByteBase /\ ByteBase \in Nat
  <2>1. LegalCall(request)  BY <1>2, RefusedIs DEF Running
  <2>. QED  BY <1>3, <2>1, CeilingHolds, Sizes DEF LegalCall
<1>5. i \in 1 .. Ceiling(request.len)
  <2>1. i \in 1 .. Ceiling(request.len) + 1 /\ i - 1 \in Nat  BY <1>2, <1>4 DEF Running
  <2>2. ~(request.len <= (i - 1) * DIGEST)
    <3>1. (i - 1) * DIGEST \in Nat  BY <1>3, <2>1
    <3>. QED  BY <1>1, <1>3, <3>1
  <2>3. ~(Ceiling(request.len) <= i - 1)  BY <1>3, <2>1, <2>2, CeilingHolds
  <2>. QED  BY <1>4, <2>1, <2>3
<1>6. /\ request.op = "hkdf" /\ first = RFC2104(request.salt, request.ikm)
      /\ i > 1 => prev = Chain(request)[i - 1]
  BY <1>1, <1>2 DEF Running
<1>7. <<Byte(i)>> = I2OSP(i, 1)
  <2>1. i \in 0 .. ByteBase - 1  BY <1>4, <1>5
  <2>. QED  BY <1>3, <2>1, BytesAre
<1>8. p = Chain(request)[i - 1] /\ IsString(p)
  <2>1. CASE i > 1
    <3>1. i - 1 \in 1 .. Ceiling(request.len)  BY <1>4, <1>5, <2>1
    <3>2. IsString(Chain(request)[i - 1])  BY <1>3, <3>1, BlocksAre
    <3>. QED  BY <1>6, <2>1, <3>2
  <2>2. CASE ~(i > 1)
    <3>1. i = 1 /\ 0 \in 0 .. Ceiling(request.len)  BY <1>4, <1>5, <2>2
    <3>2. Chains(request, Ceiling(request.len), Chain(request))  BY <1>3, ChainIs
    <3>3. Chain(request)[0] = Zeroth(request)  BY <3>1, <3>2, ChainAt
    <3>4. IsString(<<>>)
      <4>1. <<>> \in Seq({})  OBVIOUS
      <4>. QED  BY <4>1 DEF IsString
    <3>. QED  BY <1>6, <2>2, <3>1, <3>3, <3>4 DEF Zeroth
  <2>. QED  BY <2>1, <2>2
<1> HIDE DEF p
<1>9. IsString(request.info)
  <2>1. request.info \in Strings  BY <1>2, <1>6 DEF IsCall, Legal, StringsAreLegal
  <2>. QED  BY <2>1, StringsAre
<1>10. p \o Append(request.info, Byte(i)) = p \o request.info \o I2OSP(i, 1)
  <2>1. p \o Append(request.info, Byte(i)) = p \o request.info \o <<Byte(i)>>
    <3>1. AtOnce(p, request.info, Byte(i))  BY <1>8, <1>9, AppendedByte
    <3>. QED  BY <3>1 DEF AtOnce
  <2>. QED  BY <1>7, <2>1
<1>11. IsString(first)  BY <1>3, <1>6, DigestIs DEF RFC2104
<1>12. t = RFC2104(first, p \o request.info \o I2OSP(i, 1))
  BY <1>3, <1>10, <1>11, HmacIs
<1>13. t = Following(request, Chain(request)[i - 1], i)
  BY <1>6, <1>8, <1>12 DEF Following
<1>14. t = Chain(request)[i]  BY <1>3, <1>5, <1>13, BlocksAre
<1> HIDE DEF t, off
<1>15. Laid'
  <2>1. off = (i - 1) * DIGEST  BY DEF off
  <2>. QED  BY <1>1, <1>2, <1>5, <1>14, <2>1, BlockLaid
<1>16. i <= Ceiling(request.len)  BY <1>4, <1>5
<1>. QED  BY <1>1, <1>2, <1>14, <1>15, <1>16, RunGoesOn

-----------------------------------------------------------------------------
(* The call ends when it has all its blocks.                               *)
LEMMA RunEnds ==
  ASSUME Legal, ExpandIInv, XmdEnd \/ HkdfEnd PROVE ExpandIInv'
<1>1. /\ pc \in {"xmd", "hkdf"} /\ pc' = "done" /\ request' = request /\ out' = out
      /\ i' = i /\ ret' = ret
  BY DEF XmdEnd, HkdfEnd
<1>2. IsCall(request) /\ Laid /\ Running  BY <1>1 DEF ExpandIInv
<1>3. SizesAreLegal /\ request.len \in Nat /\ DIGEST \in Nat  BY <1>2, Sizes DEF Legal, IsCall
<1>4. Ceiling(request.len) \in Nat  BY <1>3, CeilingHolds
<1>5. i \in 1 .. Ceiling(request.len) + 1 /\ i - 1 \in Nat  BY <1>2, <1>4 DEF Running
<1>6. i = Ceiling(request.len) + 1
  <2>1. CASE XmdEnd
    BY <1>4, <1>5, <2>1 DEF XmdEnd
  <2>2. CASE HkdfEnd
    <3>1. (i - 1) * DIGEST \in Nat /\ (i - 1) * DIGEST >= request.len
      BY <1>3, <1>5, <2>2 DEF HkdfEnd, Done
    <3>2. request.len <= (i - 1) * DIGEST  BY <1>3, <3>1
    <3>3. Ceiling(request.len) <= i - 1  BY <1>3, <1>5, <3>2, CeilingHolds
    <3>. QED  BY <1>4, <1>5, <3>3
  <2>. QED  BY <2>1, <2>2
<1>7. IsCall(request)' /\ Laid'
  BY <1>1, <1>2 DEF IsCall, Laid, RoomOf, Room, Chain, Chains, Zeroth, Following,
     ZeroBlock, Ceiling
<1>8. Ended'
  <2>1. ~Refused(request) /\ ret = 0  BY <1>2 DEF Running
  <2>. QED  BY <1>1, <1>6, <2>1 DEF Ended, Refused, HkdfRefuses, XmdRefuses, Ceiling
<1>. QED  BY <1>1, <1>7, <1>8 DEF ExpandIInv

(* Every step keeps the invariant.                                         *)
LEMMA ExpandStep ==
  ASSUME Legal, ExpandIInv, [ExpandNext]_expandVars PROVE ExpandIInv'
<1>0. /\ SizesAreLegal /\ MaxAsked \in Nat /\ H2C_L \in Nat  BY Sizes DEF Legal
<1>1. CASE ExpandMessage
  <2>1. PICK msg \in Messages, dst \in Tags, len \in 0 .. MaxAsked :
          pc = "idle" /\ Expand("bytes", msg, dst, len, len)
    BY <1>1 DEF ExpandMessage
  <2>2. len \in Nat /\ len <= len  BY <1>0
  <2>. QED  BY <2>1, <2>2, ExpandStarts
<1>2. CASE HashToField
  <2>1. PICK op \in {"fp", "fp2"}, count \in 1 .. 2, msg \in Messages, dst \in Tags :
          pc = "idle" /\ Expand(op, msg, dst, Asked(op, count), Room(op))
    BY <1>2 DEF HashToField
  <2>2. Asked(op, count) \in Nat /\ Room(op) \in Nat /\ Asked(op, count) <= Room(op)
    <3>1. CASE count = 1  BY <1>0, <3>1 DEF Asked, Room
    <3>2. CASE count = 2  BY <1>0, <3>2 DEF Asked, Room
    <3>. QED  BY <3>1, <3>2
  <2> DEFINE m == Asked(op, count)
  <2> HIDE DEF m
  <2>3. op \in {"bytes", "fp", "fp2"}  OBVIOUS
  <2>4. m \in Nat /\ m <= Room(op) /\ Expand(op, msg, dst, m, Room(op))
    BY <2>1, <2>2 DEF m
  <2>. QED  BY <2>1, <2>2, <2>3, <2>4, ExpandStarts
<1>3. CASE XmdBlock  BY <1>3, XmdGoesOn
<1>4. CASE XmdEnd  BY <1>4, RunEnds
<1>5. CASE HkdfStart  BY <1>5, HkdfStarts
<1>6. CASE HkdfBlock  BY <1>6, HkdfGoesOn
<1>7. CASE HkdfEnd  BY <1>7, RunEnds
<1>8. CASE Deliver
  BY <1>8 DEF Deliver, ExpandIInv
<1>9. CASE UNCHANGED expandVars
  <2>1. /\ pc' = pc /\ request' = request /\ first' = first /\ prev' = prev /\ i' = i
        /\ out' = out /\ ret' = ret
    BY <1>9 DEF expandVars
  <2>2. pc # "idle" => IsCall(request)' /\ Laid'
    BY <2>1 DEF ExpandIInv, IsCall, Laid, RoomOf, Room, Chain, Chains, Zeroth, Following,
     ZeroBlock, Ceiling
  <2>3. pc \in {"xmd", "hkdf"} => Running'
    BY <2>1 DEF ExpandIInv, Running, Refused, HkdfRefuses, XmdRefuses, Chain, Chains,
     Zeroth, Following, ZeroBlock, Ceiling
  <2>4. pc = "done" => Ended'
    BY <2>1 DEF ExpandIInv, Ended, Refused, HkdfRefuses, XmdRefuses, Ceiling
  <2>. QED  BY <2>1, <2>2, <2>3, <2>4 DEF ExpandIInv
<1>. QED  BY <1>1, <1>2, <1>3, <1>4, <1>5, <1>6, <1>7, <1>8, <1>9 DEF ExpandNext

(* An answer that is laid and ended is the standard's.                     *)
LEMMA AnswerIs ==
  ASSUME Legal, ExpandIInv, pc = "done", ~Refused(request)
  PROVE  SubSeq(out, 1, request.len) = Legible(request)
<1> DEFINE n == Ceiling(request.len)
           m == request.len
           s == Legible(request)
           l == SubSeq(out, 1, m)
<1>1. IsCall(request) /\ Laid /\ ret = 0 /\ i = n + 1  BY DEF ExpandIInv, Ended
<1>2. /\ SizesAreLegal /\ DIGEST \in Nat /\ m \in Nat /\ n \in Nat
      /\ m <= RoomOf(request) /\ RoomOf(request) \in Nat
  BY <1>1, Sizes, CeilingHolds DEF Legal, IsCall
<1>3. m <= n * DIGEST
  <2>1. n <= n  BY <1>2
  <2>. QED  BY <1>2, <2>1, CeilingHolds
<1>4. /\ IsString(s) /\ Len(s) = m
      /\ \A k \in 1 .. n, r \in 1 .. DIGEST :
           (k - 1) * DIGEST + r <= m => s[(k - 1) * DIGEST + r] = Chain(request)[k][r]
  BY <1>2, StandardIs
<1>5. /\ IsString(out) /\ Len(out) = RoomOf(request)
      /\ \A k \in 1 .. n, r \in 1 .. DIGEST :
           (k - 1) * DIGEST + r <= m => out[(k - 1) * DIGEST + r] = Chain(request)[k][r]
  <2>1. i - 1 = n  BY <1>1, <1>2
  <2>. QED  BY <1>1, <2>1 DEF Laid
<1> HIDE DEF s, n, m
<1>6. ASSUME NEW j \in 1 .. m PROVE out[j] = s[j]
  <2>1. j \in 1 .. n * DIGEST
    <3>1. n * DIGEST \in Nat  BY <1>2
    <3>. QED  BY <1>2, <1>3, <3>1
  <2>2. PICK k \in 1 .. n, r \in 1 .. DIGEST : j = (k - 1) * DIGEST + r
    BY <1>2, <2>1, Position
  <2>3. (k - 1) * DIGEST + r <= m  BY <1>2, <2>2
  <2>4. out[(k - 1) * DIGEST + r] = s[(k - 1) * DIGEST + r]  BY <1>4, <1>5, <2>3
  <2>. QED  BY Zenon, <2>2, <2>4
<1>7. PICK A : out \in Seq(A) /\ s \in Seq(A)  BY <1>4, <1>5, BothStrings
<1>8. l \in Seq(A) /\ Len(l) = m /\ \A x \in 1 .. m : l[x] = out[x]
  <2>1. 1 \in Int /\ m \in Int /\ \A x \in 1 .. m : out[x] \in A
    <3>1. \A x \in 1 .. m : x \in 1 .. Len(out)  BY <1>2, <1>5
    <3>. QED  BY <1>2, <1>7, <3>1
  <2>2. /\ l \in Seq(A) /\ Len(l) = IF 1 <= m THEN m - 1 + 1 ELSE 0
        /\ \A x \in 1 .. m - 1 + 1 : l[x] = out[1 + x - 1]
    BY <2>1, SubSeqProperties
  <2> HIDE DEF l
  <2>. QED  BY <1>2, <2>2
<1> HIDE DEF l
<1>9. \A x \in 1 .. m : l[x] = s[x]  BY <1>6, <1>8
<1>10. l = s  BY <1>4, <1>7, <1>8, <1>9, SeqEqual
<1>. QED  BY <1>10 DEF l, m, s

(* At the end it says that the answer is the standard's.                   *)
LEMMA ExpandMeans ==
  ASSUME Legal, ExpandIInv PROVE ExpansionIsStandard
<1> SUFFICES ASSUME pc = "done" PROVE ExpansionIsStandard
  BY DEF ExpansionIsStandard
<1> DEFINE m == request.len
           s == Legible(request)
           legal == LegalCall(request)
<1>1. IsCall(request) /\ Laid /\ Ended  BY DEF ExpandIInv
<1>2. /\ SizesAreLegal /\ DIGEST \in Nat /\ m \in Nat /\ H2C_L \in Nat /\ H2C_L > 0
      /\ m <= RoomOf(request) /\ RoomOf(request) \in Nat
  BY <1>1, Sizes DEF Legal, IsCall
<1>3. ~Refused(request) <=> legal  BY <1>1, RefusedIs
<1>4. IsString(out) /\ Len(out) = RoomOf(request)  BY <1>1 DEF Laid
<1>5. \A j \in 1 .. Len(out) : j > m => out[j] = UNSET  BY <1>1 DEF Laid
<1>6. (ret = 0) = legal
  <2>1. legal \in BOOLEAN  BY DEF LegalCall
  <2>2. ret = 0 <=> legal  BY <1>1, <1>3 DEF Ended
  <2> HIDE DEF legal
  <2>. QED  BY <2>1, <2>2
<1>7. legal => SubSeq(out, 1, m) = s  BY <1>3, AnswerIs
<1>8. ~legal => \A j \in 1 .. Len(out) : out[j] = UNSET
  <2> SUFFICES ASSUME ~legal, NEW j \in 1 .. Len(out) PROVE out[j] = UNSET
    OBVIOUS
  <2>1. i = 0  BY <1>1, <1>3 DEF Ended
  <2>2. j > (i - 1) * DIGEST
    <3>1. (i - 1) * DIGEST = -DIGEST  BY <1>2, <2>1
    <3>. QED  BY <1>2, <1>4, <3>1
  <2>. QED  BY <1>1, <2>2 DEF Laid
<1>9. DOMAIN Elements = 1 .. m \div H2C_L  BY DEF Elements
<1>10. ASSUME request.op \in {"fp", "fp2"}, NEW k \in DOMAIN Elements
       PROVE  Elements[k] = IF legal THEN [j \in 1 .. H2C_L |-> s[k * H2C_L + 1 - j]]
                            ELSE <<>>
  <2>1. k \in 1 .. m \div H2C_L  BY <1>9
  <2>2. Elements[k] = IF ret # 0 THEN <<>>
                      ELSE reduce_to_fp(SubSeq(out, (k - 1) * H2C_L + 1, k * H2C_L))
    BY <2>1 DEF Elements
  <2>3. CASE ~legal  BY <1>6, <2>2, <2>3
  <2>4. CASE legal
    <3> DEFINE H == H2C_L
               e == SubSeq(out, (k - 1) * H + 1, k * H)
               a == (k - 1) * H + 1
               b == k * H
    <3>1. k \in Nat /\ k >= 1 /\ b <= m /\ a \in Nat /\ b \in Nat /\ b - a + 1 = H /\ a >= 1
      <4>1. ASSUME NEW d \in Nat, d > 0, NEW x \in Nat, NEW y \in 1 .. x \div d
            PROVE  /\ y \in Nat /\ y >= 1 /\ y * d <= x /\ (y - 1) * d + 1 \in Nat
                   /\ y * d \in Nat /\ y * d - ((y - 1) * d + 1) + 1 = d
                   /\ (y - 1) * d + 1 >= 1
        <5> DEFINE q == x \div d
                   r == x % d
        <5>1. q \in Int /\ r \in 0 .. d - 1 /\ x = d * q + r  BY <4>1
        <5> HIDE DEF r
        <5>2. y \in Nat /\ y >= 1 /\ y <= q  BY <5>1
        <5> HIDE DEF q
        <5>3. y * d <= x
          <6>1. d * (q - y) >= 0  BY <4>1, <5>1, <5>2
          <6>2. d * (q - y) = d * q - y * d  BY <5>1, <5>2
          <6>3. d * q \in Int /\ y * d \in Int  BY <5>1, <5>2
          <6>. QED  BY <5>1, <6>1, <6>2, <6>3
        <5>4. (y - 1) * d \in Nat /\ y * d \in Nat /\ y * d = (y - 1) * d + d
          BY <5>2
        <5>. QED  BY <5>2, <5>3, <5>4
      <4> HIDE DEF m
      <4>. QED  BY <1>2, <2>1, <4>1
    <3>2. e = SubSeq(out, a, b)  OBVIOUS
    <3> HIDE DEF a, b, e, m
    <3>3. PICK A : out \in Seq(A)  BY <1>4 DEF IsString
    <3>4. Len(e) = H /\ \A x \in 1 .. H : e[x] = out[a + x - 1]
      <4>1. a \in Int /\ b \in Int /\ \A x \in a .. b : out[x] \in A
        <5>1. \A x \in a .. b : x \in 1 .. Len(out)  BY <1>2, <1>4, <3>1
        <5>. QED  BY <3>1, <3>3, <5>1
      <4> DEFINE v == SubSeq(out, a, b)
      <4>2. /\ v \in Seq(A) /\ Len(v) = IF a <= b THEN b - a + 1 ELSE 0
            /\ \A x \in 1 .. b - a + 1 : v[x] = out[a + x - 1]
        BY <4>1, SubSeqProperties
      <4>3. e = v  BY <3>2
      <4> HIDE DEF v
      <4>. QED  BY <1>2, <3>1, <4>2, <4>3
    <3>5. \A x \in 1 .. m : out[x] = s[x]
      <4>1. SubSeq(out, 1, m) = s  BY <1>7, <2>4
      <4>2. \A x \in 1 .. m : SubSeq(out, 1, m)[x] = out[x]
        <5>1. 1 \in Int /\ m \in Int /\ \A x \in 1 .. m : out[x] \in A
          <6>1. \A x \in 1 .. m : x \in 1 .. Len(out)  BY <1>2, <1>4
          <6>. QED  BY <1>2, <3>3, <6>1
        <5>2. \A x \in 1 .. m - 1 + 1 : SubSeq(out, 1, m)[x] = out[1 + x - 1]
          BY <5>1, SubSeqProperties
        <5>. QED  BY <1>2, <5>2
      <4>. QED  BY <4>1, <4>2
    <3>6. reduce_to_fp(e) = [j \in 1 .. H |-> e[H - j + 1]]
      BY <3>4 DEF reduce_to_fp, Reverse
    <3>7. ASSUME NEW j \in 1 .. H PROVE e[H - j + 1] = s[b + 1 - j]
      <4>1. H - j + 1 \in 1 .. H /\ a + (H - j + 1) - 1 = b + 1 - j
        BY <1>2, <3>1
      <4>2. b + 1 - j \in 1 .. m  BY <1>2, <3>1
      <4>3. e[H - j + 1] = out[b + 1 - j]  BY <3>4, <4>1
      <4>. QED  BY <3>5, <4>2, <4>3
    <3>8. reduce_to_fp(e) = [j \in 1 .. H |-> s[b + 1 - j]]  BY <3>6, <3>7
    <3>9. ret = 0  BY <1>6, <2>4
    <3>. QED  BY <2>2, <2>4, <3>8, <3>9 DEF e, b
  <2>. QED  BY <2>3, <2>4
<1>11. Len(out) = IF request.op \in {"fp", "fp2"} THEN Room(request.op) ELSE m
  BY <1>4 DEF RoomOf
<1>12. \A j \in m + 1 .. Len(out) : out[j] = UNSET  BY <1>2, <1>4, <1>5
<1>. QED  BY <1>6, <1>7, <1>8, <1>10, <1>11, <1>12
          DEF ExpansionIsStandard, LegalCall, Legible

(* Block by block, what is written is the standards' chain, whatever is    *)
(* asked for and however far the index runs (hash_to_curve.c:35-91,        *)
(* hkdf.c:50-82).                                                          *)
THEOREM ExpansionInductive == ExpandSpec => []ExpandIInv
<1>1. ExpandInit => ExpandIInv  BY ExpandInitially, LegalHolds
<1>2. ExpandIInv /\ [ExpandNext]_expandVars => ExpandIInv'
  BY ExpandStep, LegalHolds
<1>. QED  BY <1>1, <1>2, PTL DEF ExpandSpec

(* The bytes and field elements asked of expand_message_xmd, hash_to_field *)
(* and HKDF are the standards' at every length their one-byte index can    *)
(* count, not a byte more is written, and longer requests are refused      *)
(* (hash_to_curve.c:35-145, hkdf.c:50-82).                                 *)
THEOREM ExpansionsAreStandard == ExpandSpec => []ExpansionIsStandard
<1>1. ExpandIInv => ExpansionIsStandard  BY ExpandMeans, LegalHolds
<1>2. ExpandSpec => []ExpandIInv  BY ExpansionInductive
<1>. QED  BY <1>1, <1>2, PTL

-----------------------------------------------------------------------------
(* Strings put together are a string.                                      *)
LEMMA StringsJoin ==
  ASSUME NEW s, NEW t, IsString(s), IsString(t)
  PROVE  /\ IsString(s \o t) /\ Joins(s \o t, s, t)
         /\ Len(s) \in Nat /\ Len(t) \in Nat
<1>1. PICK A : s \in Seq(A) /\ t \in Seq(A)  BY BothStrings
<1>2. s \o t \in Seq(A) /\ Joins(s \o t, s, t)  BY <1>1, ConcatJoins
<1>. QED  BY <1>1, <1>2 DEF IsString

(* Equal at every place.                                                   *)
SameString(s, t) == Len(s) = Len(t) /\ \A x \in 1 .. Len(s) : s[x] = t[x]

(* Such strings are equal.                                                 *)
LEMMA StringsEqual ==
  ASSUME NEW s, NEW t, IsString(s), IsString(t), SameString(s, t)
  PROVE  s = t
<1>1. PICK A : s \in Seq(A) /\ t \in Seq(A)  BY BothStrings
<1>. QED  BY <1>1, SeqEqual DEF SameString

(* Two ways to cut one string.                                             *)
SameWhole(a, b, c, d) == a \o b = c \o d

(* Of equal strings, ends of equal length are equal, and what precedes.    *)
LEMMA EndsCancel ==
  ASSUME NEW a, NEW b, NEW c, NEW d,
         IsString(a), IsString(b), IsString(c), IsString(d),
         Len(b) = Len(d), SameWhole(a, b, c, d)
  PROVE  a = c /\ b = d
<1> DEFINE w == a \o b
<1>1. /\ Joins(w, a, b) /\ Len(a) \in Nat /\ Len(b) \in Nat
  BY StringsJoin
<1>2. /\ Joins(w, c, d) /\ Len(c) \in Nat /\ Len(d) \in Nat
  <2>1. Joins(c \o d, c, d) /\ Len(c) \in Nat /\ Len(d) \in Nat  BY StringsJoin
  <2>. QED  BY <2>1 DEF SameWhole
<1> HIDE DEF w
<1>3. Len(a) = Len(c)  BY <1>1, <1>2 DEF Joins
<1>4. SameString(a, c)
  <2>1. ASSUME NEW x \in 1 .. Len(a) PROVE a[x] = c[x]
    <3>1. x \in 1 .. Len(a) + Len(b) /\ x <= Len(a)  BY <1>1
    <3>2. x \in 1 .. Len(c) + Len(d) /\ x <= Len(c)  BY <1>1, <1>2, <1>3
    <3>3. w[x] = a[x]  BY <1>1, <3>1 DEF Joins
    <3>4. w[x] = c[x]  BY <1>2, <3>2 DEF Joins
    <3>. QED  BY <3>3, <3>4
  <2>. QED  BY <1>3, <2>1 DEF SameString
<1>5. SameString(b, d)
  <2>1. ASSUME NEW x \in 1 .. Len(b) PROVE b[x] = d[x]
    <3> DEFINE y == Len(a) + x
    <3>1. y \in 1 .. Len(a) + Len(b) /\ ~(y <= Len(a)) /\ y - Len(a) = x
      BY <1>1
    <3>2. y \in 1 .. Len(c) + Len(d) /\ ~(y <= Len(c)) /\ y - Len(c) = x
      BY <1>1, <1>2, <1>3
    <3> HIDE DEF y
    <3>3. w[y] = b[x]
      <4>1. w[y] = b[y - Len(a)]  BY <1>1, <3>1 DEF Joins
      <4>. QED  BY <3>1, <4>1
    <3>4. w[y] = d[x]
      <4>1. w[y] = d[y - Len(c)]  BY <1>2, <3>2 DEF Joins
      <4>. QED  BY <3>2, <4>1
    <3>. QED  BY <3>3, <3>4
  <2>. QED  BY <2>1 DEF SameString
<1>. QED  BY <1>4, <1>5, StringsEqual

(* The tag hashed has its length for its last byte.                        *)
LEMMA TagEnds ==
  ASSUME Legal, NEW dst \in Tags
  PROVE  LET n == normalise_dst(dst)
             t == DST_prime(dst)
         IN  /\ IsString(t) /\ Len(t) = Len(n) + 1 /\ t[Len(t)] = <<Len(n)>>
             /\ \A x \in 1 .. Len(n) : t[x] = n[x]
<1> DEFINE n == normalise_dst(dst)
           b == Byte(Len(n))
           t == Append(n, b)
<1>1. IsString(n) /\ Len(n) \in 0 .. ByteBase - 1 /\ SizesAreLegal
  BY TagIs DEF Legal
<1>2. Len(n) \in Nat  BY <1>1, Sizes
<1>3. PICK A : n \in Seq(A)  BY <1>1 DEF IsString
<1> HIDE DEF n
<1>4. b = <<Len(n)>>  BY <1>1, BytesAre
<1> HIDE DEF b
<1>5. n \in Seq(A \cup {b}) /\ b \in A \cup {b}  BY <1>3
<1>6. /\ t \in Seq(A \cup {b}) /\ Len(t) = Len(n) + 1 /\ t[Len(n) + 1] = b
      /\ \A x \in 1 .. Len(n) : t[x] = n[x]
  BY <1>5, AppendProperties
<1>7. DST_prime(dst) = t  BY DEF DST_prime, t, b, n
<1> HIDE DEF t
<1>. QED  BY <1>4, <1>6, <1>7 DEF IsString, n

(* The tag is known from what is hashed for it.                            *)
LEMMA TagsAreApart ==
  ASSUME Legal, NEW dst \in Tags, NEW other \in Tags,
         normalise_dst(dst) = normalise_dst(other)
  PROVE  dst = other
<1>1. SizesAreLegal /\ ByteBase \in Nat /\ DIGEST \in Nat /\ DIGEST > 0
  BY Sizes DEF Legal
<1>2. dst \in Strings /\ other \in Strings  BY DEF Legal, StringsAreLegal
<1>3. ASSUME NEW s \in Strings PROVE IsString(s) /\ Len(s) \in Nat
  BY <1>3, StringsAre
<1>4. ASSUME NEW s PROVE Digest(s)[1] = <<s, 1>> /\ Len(Digest(s)) = DIGEST
  BY <1>1, DigestIs DEF Digest
<1>5. ASSUME NEW s \in Strings, NEW t, s = Digest(t) PROVE FALSE
  <2>1. 1 \in 1 .. Len(s)  BY <1>1, <1>4, <1>5
  <2>2. PICK v \in 0 .. ByteBase - 1 : s[1] = <<v>>  BY <2>1 DEF Strings
  <2>3. s[1] = <<t, 1>>  BY <1>4, <1>5
  <2>4. <<v>> # <<t, 1>>  OBVIOUS
  <2>. QED  BY <2>2, <2>3, <2>4
<1> DEFINE big(s) == ~(Len(s) <= ByteBase - 1)
           all(s) == OVERSIZE \o s
<1>6. \A s : normalise_dst(s) = IF big(s) THEN Digest(all(s)) ELSE s
  BY DEF normalise_dst
<1> HIDE DEF big
<1>7. CASE big(dst) /\ big(other)
  <2>1. Digest(all(dst)) = Digest(all(other))  BY <1>6, <1>7
  <2>2. <<all(dst), 1>> = <<all(other), 1>>  BY <1>4, <2>1
  <2>3. all(dst) = all(other)  BY <2>2
  <2>4. IsString(OVERSIZE)
    <3>1. OVERSIZE \in Seq({<<ByteBase>>})  BY DEF OVERSIZE
    <3>. QED  BY <3>1 DEF IsString
  <2>5. IsString(dst) /\ IsString(other)  BY <1>2, <1>3
  <2>6. Len(dst) = Len(other)
    <3>1. Joins(all(dst), OVERSIZE, dst) /\ Len(OVERSIZE) \in Nat /\ Len(dst) \in Nat
      BY <2>4, <2>5, StringsJoin
    <3>2. Joins(all(other), OVERSIZE, other) /\ Len(other) \in Nat
      BY <2>4, <2>5, StringsJoin
    <3> HIDE DEF all
    <3>. QED  BY <2>3, <3>1, <3>2 DEF Joins
  <2>7. SameWhole(OVERSIZE, dst, OVERSIZE, other)  BY <2>3 DEF SameWhole
  <2>. QED  BY <2>4, <2>5, <2>6, <2>7, EndsCancel
<1>8. CASE big(dst) /\ ~big(other)  BY <1>2, <1>5, <1>6, <1>8
<1>9. CASE ~big(dst) /\ big(other)  BY <1>2, <1>5, <1>6, <1>9
<1>10. CASE ~big(dst) /\ ~big(other)  BY <1>6, <1>10
<1>. QED  BY <1>7, <1>8, <1>9, <1>10

(* So is a length that is answered, from the two bytes hashed for it.      *)
LEMMA LengthsAreApart ==
  ASSUME SizesAreLegal, NEW len \in Nat, NEW len2 \in Nat,
         Ceiling(len) < ByteBase, Ceiling(len2) < ByteBase,
         l_i_b_str(len) = l_i_b_str(len2)
  PROVE  len = len2
<1>1. ByteBase \in Nat /\ ByteBase > 0  BY Sizes
<1>2. I2OSP(len, 2) = I2OSP(len2, 2)  BY LengthIs
<1>3. len \div ByteBase = len2 \div ByteBase /\ len % ByteBase = len2 % ByteBase
  BY <1>2 DEF I2OSP
<1>4. ASSUME NEW m \in Nat
      PROVE  m = ByteBase * (m \div ByteBase) + (m % ByteBase)
  BY <1>1
<1>. QED  BY <1>3, <1>4

(* The string hashed is known from its end.                                *)
LEMMA StringsAreApart ==
  ASSUME Legal, NEW msg \in Messages, NEW dst \in Tags, NEW len \in Nat,
         NEW msg2 \in Messages, NEW dst2 \in Tags, NEW len2 \in Nat,
         Ceiling(len) < ByteBase, Ceiling(len2) < ByteBase,
         B0String(msg, dst, len) = B0String(msg2, dst2, len2)
  PROVE  msg = msg2 /\ dst = dst2 /\ len = len2
<1> DEFINE z == Repeat(Byte(0), BLOCK)
           l == l_i_b_str(len)
           l2 == l_i_b_str(len2)
           o == <<Byte(0)>>
           t == DST_prime(dst)
           t2 == DST_prime(dst2)
           n == normalise_dst(dst)
           n2 == normalise_dst(dst2)
           a == z \o msg
           a2 == z \o msg2
           b == a \o l
           b2 == a2 \o l2
           c == b \o o
           c2 == b2 \o o
<1>1. c \o t = c2 \o t2  BY DEF B0String
<1>2. /\ IsString(z) /\ IsString(o) /\ IsString(l) /\ IsString(l2)
      /\ Len(l) = Len(l2)
  <2>1. z \in Seq({Byte(0)}) /\ o \in Seq({Byte(0)})
    <3> DEFINE y == Byte(0)
    <3> HIDE DEF y
    <3>1. Repeat(y, BLOCK) \in Seq({y})  BY Sizes DEF Repeat, Legal
    <3>2. <<y>> \in Seq({y})  OBVIOUS
    <3>. QED  BY <3>1, <3>2 DEF y
  <2>2. ASSUME NEW m PROVE IsString(l_i_b_str(m)) /\ Len(l_i_b_str(m)) = 2
    <3>1. ASSUME NEW x, NEW y PROVE <<x, y>> \in Seq({x, y}) /\ Len(<<x, y>>) = 2
      OBVIOUS
    <3>. QED  BY <3>1 DEF l_i_b_str, IsString
  <2>3. IsString(z) /\ IsString(o)
    <3> HIDE DEF z, o
    <3>. QED  BY <2>1 DEF IsString
  <2>. QED  BY <2>2, <2>3
<1>3. IsString(msg) /\ IsString(msg2)
  BY StringsAre DEF Legal, StringsAreLegal
<1>4. /\ IsString(t) /\ Len(t) = Len(n) + 1 /\ t[Len(t)] = <<Len(n)>>
      /\ \A x \in 1 .. Len(n) : t[x] = n[x]
  BY TagEnds
<1>5. /\ IsString(t2) /\ Len(t2) = Len(n2) + 1 /\ t2[Len(t2)] = <<Len(n2)>>
      /\ \A x \in 1 .. Len(n2) : t2[x] = n2[x]
  BY TagEnds
<1>6. IsString(n) /\ Len(n) \in Nat /\ IsString(n2) /\ Len(n2) \in Nat
  BY TagIs, Sizes DEF Legal
<1> HIDE DEF z, l, l2, o, t, t2, n, n2
<1>7. IsString(a) /\ IsString(a2)  BY <1>2, <1>3, StringsJoin
<1> HIDE DEF a, a2
<1>8. IsString(b) /\ IsString(b2)  BY <1>2, <1>7, StringsJoin
<1> HIDE DEF b, b2
<1>9. IsString(c) /\ IsString(c2)  BY <1>2, <1>8, StringsJoin
<1> HIDE DEF c, c2
<1>10. Len(t) = Len(t2)
  <2> DEFINE w == c \o t
  <2>1. Joins(w, c, t) /\ Len(c) \in Nat /\ Len(t) \in Nat
    BY <1>4, <1>9, StringsJoin
  <2>2. Joins(w, c2, t2) /\ Len(c2) \in Nat /\ Len(t2) \in Nat
    <3>1. Joins(c2 \o t2, c2, t2) /\ Len(c2) \in Nat /\ Len(t2) \in Nat
      BY <1>5, <1>9, StringsJoin
    <3>. QED  BY <1>1, <3>1
  <2> HIDE DEF w
  <2> DEFINE e == Len(w)
  <2>3. w[e] = t[Len(t)]
    <3>1. e = Len(c) + Len(t) /\ Len(t) >= 1  BY <1>4, <1>6, <2>1 DEF Joins
    <3> HIDE DEF e
    <3>2. e \in 1 .. Len(c) + Len(t) /\ ~(e <= Len(c)) /\ e - Len(c) = Len(t)
      BY <2>1, <3>1
    <3>3. w[e] = t[e - Len(c)]  BY <2>1, <3>2 DEF Joins
    <3>. QED  BY <3>2, <3>3
  <2>4. w[e] = t2[Len(t2)]
    <3>1. e = Len(c2) + Len(t2) /\ Len(t2) >= 1  BY <1>5, <1>6, <2>2 DEF Joins
    <3> HIDE DEF e
    <3>2. e \in 1 .. Len(c2) + Len(t2) /\ ~(e <= Len(c2)) /\ e - Len(c2) = Len(t2)
      BY <2>2, <3>1
    <3>3. w[e] = t2[e - Len(c2)]  BY <2>2, <3>2 DEF Joins
    <3>. QED  BY <3>2, <3>3
  <2>5. <<Len(n)>> = <<Len(n2)>>  BY <1>4, <1>5, <2>3, <2>4
  <2>6. Len(n) = Len(n2)  BY <2>5
  <2>. QED  BY <1>4, <1>5, <2>6
<1>11. c = c2 /\ t = t2
  <2>1. SameWhole(c, t, c2, t2)  BY <1>1 DEF SameWhole
  <2>. QED  BY <1>4, <1>5, <1>9, <1>10, <2>1, EndsCancel
<1>12. b = b2
  <2>1. SameWhole(b, o, b2, o)  BY <1>11 DEF SameWhole, c, c2
  <2>. QED  BY <1>2, <1>8, <2>1, EndsCancel
<1>13. a = a2 /\ l = l2
  <2>1. SameWhole(a, l, a2, l2)  BY <1>12 DEF SameWhole, b, b2
  <2>. QED  BY <1>2, <1>7, <2>1, EndsCancel
<1>14. Len(msg) = Len(msg2)
  <2>1. Joins(a, z, msg) /\ Len(z) \in Nat /\ Len(msg) \in Nat
    BY <1>2, <1>3, StringsJoin DEF a
  <2>2. Joins(a2, z, msg2) /\ Len(msg2) \in Nat
    BY <1>2, <1>3, StringsJoin DEF a2
  <2>. QED  BY <1>13, <2>1, <2>2 DEF Joins
<1>15. msg = msg2
  <2>1. SameWhole(z, msg, z, msg2)  BY <1>13 DEF SameWhole, a, a2
  <2>. QED  BY <1>2, <1>3, <1>14, <2>1, EndsCancel
<1>16. SameString(n, n2)
  <2>1. Len(n) = Len(n2)  BY <1>4, <1>5, <1>6, <1>10
  <2>2. \A x \in 1 .. Len(n) : n[x] = n2[x]  BY <1>4, <1>5, <1>11, <2>1
  <2>. QED  BY <2>1, <2>2 DEF SameString
<1>17. n = n2  BY <1>6, <1>16, StringsEqual
<1>18. dst = dst2  BY <1>17, TagsAreApart DEF n, n2
<1>19. len = len2  BY <1>13, LengthsAreApart DEF l, l2, Legal
<1>. QED  BY <1>15, <1>18, <1>19

(* A length is answered when its blocks can be counted by a byte.          *)
LEMMA AnsweredIs ==
  ASSUME SizesAreLegal, NEW len \in Answered
  PROVE  len \in Nat /\ Ceiling(len) < ByteBase
<1>1. DIGEST \in Nat /\ ByteBase \in Nat /\ ByteBase > 0  BY Sizes
<1>2. len \in 0 .. (ByteBase - 1) * DIGEST /\ ~XmdRefuses(len)  BY DEF Answered
<1>3. len \in Nat
  <2>1. (ByteBase - 1) * DIGEST \in Int  BY <1>1
  <2>. QED  BY <1>2, <2>1
<1>4. Ceiling(len) \in Nat  BY <1>3, CeilingHolds
<1>. QED  BY <1>1, <1>2, <1>3, <1>4 DEF XmdRefuses

(* A call that hashes its first block has strings the caller could tell    *)
(* apart.                                                                  *)
LEMMA ApartMeans ==
  ASSUME Legal, ExpandIInv PROVE DomainsAreApart
<1> SUFFICES ASSUME pc = "xmd", NEW msg \in Messages, NEW dst \in Tags,
                    NEW len \in Answered,
                    B0String(msg, dst, len)
                    = B0String(request.msg, request.dst, request.len)
             PROVE  msg = request.msg /\ dst = request.dst /\ len = request.len
  BY DEF DomainsAreApart
<1>1. IsCall(request) /\ request.op # "hkdf" /\ ~Refused(request)
  BY DEF ExpandIInv, Running
<1>2. request.len \in Nat /\ request.msg \in Messages /\ request.dst \in Tags
  BY <1>1 DEF IsCall
<1>3. Ceiling(request.len) < ByteBase  BY <1>1, RefusedIs DEF LegalCall
<1>4. len \in Nat /\ Ceiling(len) < ByteBase  BY AnsweredIs DEF Legal
<1>. QED  BY <1>2, <1>3, <1>4, StringsAreApart

(* Two calls that differ in the message, the tag or the length hash        *)
(* different strings, for any strings of bytes whatever and every length   *)
(* that is answered: the tag can be read off the end of what is hashed,    *)
(* and the length field, of fixed width, before it                         *)
(* (hash_to_curve.c:42-65).                                                *)
THEOREM DomainsStayApart == ExpandSpec => []DomainsAreApart
<1>1. ExpandIInv => DomainsAreApart  BY ApartMeans, LegalHolds
<1>2. ExpandSpec => []ExpandIInv  BY ExpansionInductive
<1>. QED  BY <1>1, <1>2, PTL
=============================================================================
