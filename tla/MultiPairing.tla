----------------------------- MODULE MultiPairing ----------------------------
(***************************************************************************)
(* elips_pairing_multi and elips_pairing_multi_prec of pairing/miller.c,   *)
(* loop by loop: validate every pair, fill a buffer of CHUNK affine pairs, *)
(* run one shared Miller loop whenever it is full and once more for the    *)
(* tail, and exponentiate once.  A "prec" call first has its caller build  *)
(* the table of every second argument with ep2_precompute; the loop then   *)
(* replays the lines of those tables by index.                             *)
(***************************************************************************)
EXTENDS MillerLines, FiniteSets, FiniteSetTheorems, SequenceTheorems, TLAPS

CONSTANTS
  Chunk,                      \* ELIPS_MULTI_CHUNK, 8 in the code
  Builds,                     \* the generated parameter sets
  Calls                       \* the calls a caller may make

ASSUME ChunkAssumption == Chunk \in Nat /\ Chunk >= 1

(* The n that a caller passes beside its pairs.                            *)
PairCount(c) == Len(c.ps)

ASSUME CallsAssumption == \A c \in Calls : PairCount(c) \in Nat
ASSUME BuildsAssumption == \A b \in Builds : Top(b) \in Nat

VARIABLES
  pc, build, call, rc, out,
  j,                          \* the pair the current loop is at
  m,                          \* pairs in the buffers
  base,                       \* first table of the chunk (prec only)
  px, qx,                     \* buffered affine points, 0 .. Chunk - 1
  f, g,                       \* product so far, and the chunk's Miller value
  T,                          \* running points of the chunk, or of the table
  i,                          \* digit of ELIPS_LOOP the loop is at
  k,                          \* index into the line tables
  pcs                         \* the tables built for this call

local == <<j, m, base, px, qx, f, g, T, i, k, pcs>>
vars == <<pc, build, call, rc, out, local>>

PcValues == {"idle", "precompute", "table", "validate", "fill", "chunk",
             "flush", "done"}

Good(point) == point \notin {"infinity", "off_subgroup"}
pairing_final_exp(x) == [image |-> x]
NoCall == [op |-> "none"]
NumPairs == PairCount(call)
Prec == call.op = "prec"

-----------------------------------------------------------------------------
EmptyBuffer == [s \in 0 .. Chunk - 1 |-> "uninit"]

Init == /\ pc = "idle" /\ build \in Builds /\ call = NoCall
        /\ rc = 0 /\ out = pairing_final_exp(one)
        /\ j = 0 /\ m = 0 /\ base = 0 /\ i = 0 /\ k = 0
        /\ px = EmptyBuffer /\ qx = EmptyBuffer
        /\ f = one /\ g = one /\ T = <<>> /\ pcs = <<>>

(* fp12_set_one(out) comes before any check, so a refusal leaves one.      *)
Invoke ==
  /\ pc = "idle"
  /\ call' \in Calls
  /\ pc' = IF call'.op = "prec" THEN "precompute" ELSE "validate"
  /\ out' = pairing_final_exp(one)
  /\ UNCHANGED <<build, rc, local>>

Return(code) == /\ pc' = "done" /\ rc' = code
                /\ UNCHANGED <<build, call, local>>

Collect ==
  /\ pc = "done" /\ pc' = "idle" /\ call' = NoCall /\ rc' = 0
  /\ out' = pairing_final_exp(one)
  /\ j' = 0 /\ m' = 0 /\ base' = 0 /\ i' = 0 /\ k' = 0
  /\ px' = EmptyBuffer /\ qx' = EmptyBuffer
  /\ f' = one /\ g' = one /\ T' = <<>> /\ pcs' = <<>>
  /\ UNCHANGED build

-----------------------------------------------------------------------------
(* ep2_precompute for each Q of the call, one iteration of its loop a step.*)
PrecomputeStart ==
  /\ pc = "precompute" /\ Len(pcs) < NumPairs
  /\ LET q == call.qs[Len(pcs) + 1]
     IN \/ ~Good(q) /\ Return(0)
        \/ /\ Good(q)
           /\ pcs' = Append(pcs, <<>>)
           /\ T' = <<ep2_from_affine(build, q)>>
           /\ i' = Top(build) - 1
           /\ pc' = "table"
           /\ UNCHANGED <<build, call, rc, j, m, base, px, qx, f, g, k>>
  /\ UNCHANGED out

PrecomputeIteration ==
  /\ pc = "table" /\ i >= 0
  /\ pcs' = [pcs EXCEPT ![Len(pcs)] = @ \o LinesOf(T[1], Digit(build, i))]
  /\ T' = <<Stepped(T[1], Digit(build, i))>>
  /\ i' = i - 1
  /\ UNCHANGED <<pc, build, call, rc, out, j, m, base, px, qx, f, g, k>>

(* A table whose length is not ELIPS_MILLER_LINES is reported as a failure.*)
PrecomputeEnd ==
  /\ pc = "table" /\ i < 0
  /\ LET table == pcs[Len(pcs)] \o
                    IF build.bn THEN CorrectionLines(T[1]) ELSE <<>>
     IN \/ Len(table) # build.lines /\ Return(0)
        \/ /\ Len(table) = build.lines
           /\ pcs' = [pcs EXCEPT ![Len(pcs)] = table]
           /\ pc' = "precompute"
           /\ UNCHANGED <<build, call, rc, j, m, base, px, qx, f, g, T, i, k>>
  /\ UNCHANGED out

PrecomputeAll ==
  /\ pc = "precompute" /\ Len(pcs) = NumPairs
  /\ pc' = "validate"
  /\ UNCHANGED <<build, call, rc, out, local>>

-----------------------------------------------------------------------------
(* Validate everything before computing anything.  The Qs of a prec call   *)
(* were validated when their tables were built.                            *)
Refused(p, q) == ~Good(p) \/ (~Prec /\ ~Good(q))

MoreToValidate(jj) == jj < NumPairs

Validate ==
  /\ pc = "validate" /\ MoreToValidate(j)
  /\ \/ /\ Refused(call.ps[j + 1], call.qs[j + 1])
        /\ Return(0)
     \/ /\ ~Refused(call.ps[j + 1], call.qs[j + 1])
        /\ j' = j + 1
        /\ UNCHANGED <<pc, build, call, rc, m, base, px, qx, f, g, T, i, k,
                       pcs>>
  /\ UNCHANGED out

Validated ==
  /\ pc = "validate" /\ ~MoreToValidate(j)
  /\ pc' = "fill" /\ j' = 0 /\ m' = 0 /\ base' = 0 /\ f' = one
  /\ UNCHANGED <<build, call, rc, out, px, qx, g, T, i, k, pcs>>

-----------------------------------------------------------------------------
(* The head of miller_chunk and of miller_prec_chunk on count pairs.       *)
ChunkStart(pts, count) ==
  /\ T' = IF Prec THEN <<>>
          ELSE [s \in 1 .. count |-> ep2_from_affine(build, pts[s - 1])]
  /\ g' = one /\ i' = Top(build) - 1 /\ k' = 0
  /\ pc' = "chunk"

Full(count) == count = Chunk

(* The affine copies of pair j go to slot m; a full buffer starts a chunk. *)
Fill ==
  /\ pc = "fill" /\ j < NumPairs
  /\ px' = [px EXCEPT ![m] = call.ps[j + 1]]
  /\ qx' = IF Prec THEN qx ELSE [qx EXCEPT ![m] = call.qs[j + 1]]
  /\ j' = j + 1 /\ m' = m + 1
  /\ \/ Full(m') /\ ChunkStart(qx', m')
     \/ ~Full(m') /\ UNCHANGED <<pc, g, T, i, k>>
  /\ UNCHANGED <<build, call, rc, out, base, f, pcs>>

StartTail ==
  /\ pc = "fill" /\ j = NumPairs /\ m > 0
  /\ ChunkStart(qx, m)
  /\ UNCHANGED <<build, call, rc, out, j, m, base, px, qx, f, pcs>>

(* The table the replay reads for slot s of the chunk: pc + base.          *)
TableOf(s) == pcs[base + s]

ReplayedLines(s, count) ==    \* count lines of the table from index k on
  [x \in 1 .. count |-> TableOf(s)[k + x]]

(* One iteration for all the pairs of the chunk: one squaring, and the     *)
(* lines of each pair, computed from T or read from the pair's table.      *)
IterationLines(s, d) ==
  IF Prec THEN ReplayedLines(s, IF d = 0 THEN 1 ELSE 2) ELSE LinesOf(T[s], d)

LinesPerStep(d) == IF d = 0 THEN 1 ELSE 2

(* h multiplied by the lines of every pair, at the pair's point.           *)
TimesLines(h, lines) ==
  FoldLeft(LAMBDA v, s : line_muls(v, lines[s], px[s - 1]), h,
           [s \in 1 .. m |-> s])

SquaredAndMultiplied(d) ==
  TimesLines(fp12_sqr(g), [s \in 1 .. m |-> IterationLines(s, d)])

ChunkIteration ==
  /\ pc = "chunk" /\ i >= 0
  /\ LET d == Digit(build, i)
     IN /\ g' = SquaredAndMultiplied(d)
        /\ T' = IF Prec THEN T ELSE [s \in 1 .. m |-> Stepped(T[s], d)]
        /\ k' = IF Prec THEN k + LinesPerStep(d) ELSE k
  /\ i' = i - 1
  /\ UNCHANGED <<pc, build, call, rc, out, j, m, base, px, qx, f, pcs>>

(* BN's correction lines, per pair and without a squaring.                 *)
Corrections(s) ==
  IF ~build.bn THEN <<>>
  ELSE IF Prec THEN ReplayedLines(s, 2) ELSE CorrectionLines(T[s])

Corrected == TimesLines(g, [s \in 1 .. m |-> Corrections(s)])

ChunkEnd ==
  /\ pc = "chunk" /\ i < 0
  /\ g' = Corrected
  /\ pc' = "flush"
  /\ UNCHANGED <<build, call, rc, out, j, m, base, px, qx, f, T, i, k, pcs>>

KeepsBase(jj) == base         \* variant: the replay restarts at table 0

NextBase(jj) == jj

(* The chunk's value joins the product.  After a full chunk filling goes   *)
(* on with an empty buffer; after the tail nothing is left to flush.       *)
Flush ==
  /\ pc = "flush"
  /\ f' = fp12_mul(f, g) /\ m' = 0
  /\ base' = IF Prec /\ Full(m) THEN NextBase(j) ELSE base
  /\ pc' = "fill"
  /\ UNCHANGED <<build, call, rc, out, j, px, qx, g, T, i, k, pcs>>

FinalExp ==
  /\ pc = "fill" /\ j = NumPairs /\ m = 0
  /\ out' = pairing_final_exp(f)
  /\ Return(1)

-----------------------------------------------------------------------------
Work == \/ PrecomputeStart \/ PrecomputeIteration \/ PrecomputeEnd
        \/ PrecomputeAll \/ Validate \/ Validated \/ Fill \/ StartTail
        \/ ChunkIteration \/ ChunkEnd \/ Flush \/ FinalExp

Next == Invoke \/ Work \/ Collect

(* A call runs to its return: nothing in these loops waits for anything.   *)
Spec == Init /\ [][Next]_vars /\ WF_vars(Work)

-----------------------------------------------------------------------------
(* The buffers have room for the next pair, and they and the tables of a   *)
(* chunk are those of the same pairs: slot s holds pair j - m + s and, in  *)
(* a prec call, so does table base + s (miller.c:876 and miller.c:542).    *)
ChunkIsAligned ==
  pc \in {"fill", "chunk", "flush"} =>
    /\ pc = "fill" => m < Chunk
    /\ \A s \in 1 .. m :
      /\ px[s - 1] = call.ps[j - m + s]
      /\ Prec => base + s = j - m + s
      /\ ~Prec => qx[s - 1] = call.qs[j - m + s]

(* The replay at digit i reads exactly the lines that precomputing the     *)
(* digit i appended: the lines before k are those of the digits above i,   *)
(* and the table holds no line the replay leaves unread (miller.c:495).    *)
NonzeroAbove(b, d) == {e \in d + 1 .. Top(b) - 1 : Digit(b, e) # 0}
LinesBefore(b, d) == Top(b) - 1 - d + Cardinality(NonzeroAbove(b, d))

CorrectionCount(b) == IF b.bn THEN 2 ELSE 0

TableIsAligned ==
  (pc = "chunk" /\ Prec) =>
    /\ k = LinesBefore(build, i)
    /\ i < 0 => k + CorrectionCount(build) = build.lines

(* Buffers, tables and lines are always those of the same pair.            *)
PairsAreAligned == ChunkIsAligned /\ TableIsAligned

-----------------------------------------------------------------------------
Product ==
  INSTANCE PairingProduct WITH
    phase <- CASE pc = "idle" -> "idle" [] pc = "done" -> "done"
               [] OTHER -> "busy"

(* Chunking, tables and shared squarings never show: the machine returns   *)
(* the product of the pairs' own Miller values, and always returns.        *)
ImplementsProduct == Product!Spec

-----------------------------------------------------------------------------
(* The strengthening: where the counters are, so that only a full buffer   *)
(* or the end of the pairs starts a chunk, and base is left behind only    *)
(* once there is nothing more to replay.                                   *)
Counters ==
  /\ pc \in PcValues /\ (pc # "idle" => call \in Calls)
  /\ pc \in {"fill", "chunk", "flush"} =>
       /\ j \in 0 .. NumPairs /\ m \in 0 .. Chunk /\ m <= j
       /\ pc = "fill" => m < Chunk
       /\ pc # "fill" => m > 0 /\ (m = Chunk \/ j = NumPairs)
       /\ Prec => base = j - m \/ (j = NumPairs /\ m = 0)

Buffers == DOMAIN px = 0 .. Chunk - 1 /\ DOMAIN qx = 0 .. Chunk - 1

ChunkInv == Counters /\ Buffers /\ ChunkIsAligned

USE ChunkAssumption, CallsAssumption DEF PcValues

LEMMA EmptyBuffers ==
  ASSUME NEW p, NEW q, p = EmptyBuffer, q = EmptyBuffer
  PROVE  DOMAIN p = 0 .. Chunk - 1 /\ DOMAIN q = 0 .. Chunk - 1
BY DEF EmptyBuffer

LEMMA InitChunkInv == Init => ChunkInv
<1> SUFFICES ASSUME Init PROVE ChunkInv
  OBVIOUS
<1>1. Counters /\ ChunkIsAligned  BY DEF Init, Counters, ChunkIsAligned
<1>2. px = EmptyBuffer /\ qx = EmptyBuffer  BY DEF Init
<1>3. Buffers  BY Zenon, <1>2, EmptyBuffers DEF Buffers
<1>. QED  BY <1>1, <1>3 DEF ChunkInv

LEMMA FillChunkInv ==
  ASSUME ChunkInv, Fill
  PROVE  ChunkInv'
<1> USE DEF NumPairs, Prec
<1>1. /\ pc = "fill" /\ j < NumPairs /\ j' = j + 1 /\ m' = m + 1
      /\ px' = [px EXCEPT ![m] = call.ps[j + 1]]
      /\ qx' = IF Prec THEN qx ELSE [qx EXCEPT ![m] = call.qs[j + 1]]
      /\ base' = base /\ call' = call
      /\ pc' = IF m + 1 = Chunk THEN "chunk" ELSE "fill"
  BY DEF Fill, Full, ChunkStart
<1> HIDE DEF Fill
<1> USE DEF ChunkInv, Counters
<1>2. j \in Nat /\ m \in 0 .. Chunk - 1 /\ m <= j /\ NumPairs \in Nat
  BY <1>1
<1>3. Counters'  BY <1>1, <1>2
<1>4. \A s \in 1 .. m + 1 : j' - m' + s = j - m + s
  BY <1>1, <1>2
<1>5. /\ px'[m] = call.ps[j + 1]
      /\ ~Prec => qx'[m] = call.qs[j + 1]
      /\ \A s \in 1 .. m : px'[s - 1] = px[s - 1] /\ qx'[s - 1] = qx[s - 1]
  BY <1>1, <1>2 DEF Buffers
<1>6. Buffers'  BY <1>1 DEF Buffers
<1>7. Prec => base = j - m
  BY <1>1, <1>2
<1>8. ChunkIsAligned'
  <2> SUFFICES ASSUME NEW s \in 1 .. m + 1
               PROVE  /\ px'[s - 1] = call.ps[j - m + s]
                      /\ Prec => base + s = j - m + s
                      /\ ~Prec => qx'[s - 1] = call.qs[j - m + s]
    BY <1>1, <1>2, <1>4 DEF ChunkIsAligned
  <2>1. CASE s = m + 1
    <3>1. s - 1 = m /\ j - m + s = j + 1  BY <1>2, <2>1
    <3>. QED  BY <1>5, <1>7, <3>1
  <2>2. CASE s \in 1 .. m
    BY <1>1, <1>5, <1>7, <2>2 DEF ChunkIsAligned
  <2>. QED  BY <1>2, <2>1, <2>2
<1>. QED  BY <1>3, <1>6, <1>8

LEMMA SameBuffers ==
  ASSUME ChunkInv, UNCHANGED <<px, qx>>
  PROVE  Buffers'
BY DEF ChunkInv, Buffers

LEMMA StepChunkInv == ChunkInv /\ [Next]_vars => ChunkInv'
<1> SUFFICES ASSUME ChunkInv, [Next]_vars PROVE ChunkInv'
  OBVIOUS
<1> USE DEF ChunkInv, NumPairs, Prec
<1>1. CASE Invoke
  BY <1>1, SameBuffers DEF Invoke, local, Counters, ChunkIsAligned
<1>2. CASE Collect
  <2>1. Counters' /\ ChunkIsAligned'
    BY <1>2 DEF Collect, Counters, ChunkIsAligned
  <2>2. px' = EmptyBuffer /\ qx' = EmptyBuffer  BY <1>2 DEF Collect
  <2>3. Buffers'  BY Zenon, <2>2, EmptyBuffers DEF Buffers
  <2>. QED  BY <2>1, <2>3
<1>3. CASE PrecomputeStart \/ PrecomputeIteration \/ PrecomputeEnd \/ PrecomputeAll
  BY <1>3, SameBuffers DEF PrecomputeStart, PrecomputeIteration, PrecomputeEnd,
     PrecomputeAll, Return, local, Counters, ChunkIsAligned
<1>4. CASE Validate
  BY <1>4, SameBuffers DEF Validate, Return, local, Counters, ChunkIsAligned
<1>5. CASE Validated
  BY <1>5, SameBuffers DEF Validated, Counters, ChunkIsAligned
<1>6. CASE Fill
  BY <1>6, FillChunkInv
<1>7. CASE StartTail
  BY <1>7, SameBuffers DEF StartTail, ChunkStart, Counters, ChunkIsAligned
<1>8. CASE ChunkIteration \/ ChunkEnd
  BY <1>8, SameBuffers DEF ChunkIteration, ChunkEnd, Counters, ChunkIsAligned
<1>9. CASE Flush
  BY <1>9, SameBuffers DEF Flush, Full, NextBase, Counters, ChunkIsAligned
<1>10. CASE FinalExp
  BY <1>10, SameBuffers DEF FinalExp, Return, local, Counters, ChunkIsAligned
<1>11. CASE UNCHANGED vars
  BY <1>11, SameBuffers DEF vars, local, Counters, ChunkIsAligned
<1>. QED
  BY <1>1, <1>2, <1>3, <1>4, <1>5, <1>6, <1>7, <1>8, <1>9, <1>10, <1>11
  DEF Next, Work

LEMMA ChunkHasPairs ==
  ASSUME ChunkInv, pc = "chunk"
  PROVE  NumPairs # 0
BY DEF ChunkInv, Counters, NumPairs

-----------------------------------------------------------------------------
(* The lengths: a table in the making, and the index of a replay, are at   *)
(* the count of lines of the digits above i; a table that was finished has *)
(* the size its build was given.                                           *)
Sized == LinesBefore(build, -1) + CorrectionCount(build) = build.lines

TableInv ==
  /\ build \in Builds
  /\ \E S : pcs \in Seq(Seq(S))
  /\ pc = "idle" => pcs = <<>>
  /\ pc \in {"table", "chunk"} => i \in -1 .. Top(build) - 1
  /\ pc = "table" => /\ Len(pcs) > 0
                     /\ Len(pcs[Len(pcs)]) = LinesBefore(build, i)
  /\ pc = "precompute" => Len(pcs) = 0 \/ Sized
  /\ (Prec /\ pc \in {"validate", "fill", "chunk", "flush"}) =>
       NumPairs = 0 \/ Sized
  /\ (Prec /\ pc = "chunk") => k = LinesBefore(build, i)

USE BuildsAssumption

LEMMA LinesCounted ==
  ASSUME NEW b \in Builds, NEW d \in -1 .. Top(b) - 1
  PROVE  /\ IsFiniteSet(NonzeroAbove(b, d))
         /\ Cardinality(NonzeroAbove(b, d)) \in Nat
         /\ LinesBefore(b, d) \in Int
<1>1. Top(b) \in Nat  OBVIOUS
<1>2. IsFiniteSet(d + 1 .. Top(b) - 1)  BY <1>1, FS_Interval
<1>3. NonzeroAbove(b, d) \in SUBSET (d + 1 .. Top(b) - 1)
  BY DEF NonzeroAbove
<1>4. IsFiniteSet(NonzeroAbove(b, d))  BY Zenon, <1>2, <1>3, FS_Subset
<1>5. Cardinality(NonzeroAbove(b, d)) \in Nat
  BY Zenon, <1>4, FS_CardinalityType
<1>. QED  BY <1>1, <1>4, <1>5 DEF LinesBefore

LEMMA NoLinesYet ==
  ASSUME NEW b \in Builds
  PROVE  LinesBefore(b, Top(b) - 1) = 0
<1>1. Top(b) \in Nat  OBVIOUS
<1>2. NonzeroAbove(b, Top(b) - 1) = {}
  BY <1>1 DEF NonzeroAbove
<1>3. Cardinality(NonzeroAbove(b, Top(b) - 1)) = 0
  BY Zenon, <1>2, FS_EmptySet
<1>. QED  BY <1>1, <1>3 DEF LinesBefore

(* One digit takes one line, or two when it is not zero.                   *)
LEMMA LinesOfDigit ==
  ASSUME NEW b \in Builds, NEW d \in 0 .. Top(b) - 1
  PROVE  LinesBefore(b, d - 1) =
           LinesBefore(b, d) + (IF Digit(b, d) = 0 THEN 1 ELSE 2)
<1> DEFINE A == NonzeroAbove(b, d)
           B == NonzeroAbove(b, d - 1)
<1>1. Top(b) \in Nat /\ d \in -1 .. Top(b) - 1 /\ d - 1 \in -1 .. Top(b) - 1
  OBVIOUS
<1>2. d \notin A /\ B = IF Digit(b, d) = 0 THEN A ELSE A \cup {d}
  BY <1>1 DEF NonzeroAbove
<1>3. IsFiniteSet(A) /\ Cardinality(A) \in Nat
  BY <1>1, LinesCounted
<1> HIDE DEF A, B
<1>4. Cardinality(A \cup {d}) = Cardinality(A) + 1
  BY <1>2, <1>3, FS_AddElement
<1>5. Cardinality(B) = Cardinality(A) + (IF Digit(b, d) = 0 THEN 0 ELSE 1)
  BY <1>2, <1>3, <1>4
<1>. QED  BY <1>1, <1>3, <1>5 DEF LinesBefore, A, B

LEMMA OneOrTwoLines ==
  ASSUME NEW x, NEW y
  PROVE  /\ <<x>> \in Seq({x, y}) /\ Len(<<x>>) = 1
         /\ <<x, y>> \in Seq({x, y}) /\ Len(<<x, y>>) = 2
<1>1. <<x>> \in [1 .. 1 -> {x, y}]  OBVIOUS
<1>2. <<x, y>> \in [1 .. 2 -> {x, y}]  OBVIOUS
<1>. QED  BY <1>1, <1>2

LEMMA LengthOfLines ==
  ASSUME NEW t, NEW d
  PROVE  \E R : /\ LinesOf(t, d) \in Seq(R)
                /\ Len(LinesOf(t, d)) = IF d = 0 THEN 1 ELSE 2
<1>1. PICK x, y : LinesOf(t, d) = IF d = 0 THEN <<x>> ELSE <<x, y>>
  BY Zenon DEF LinesOf
<1>2. /\ LinesOf(t, d) \in Seq({x, y})
      /\ Len(LinesOf(t, d)) = IF d = 0 THEN 1 ELSE 2
  BY Zenon, <1>1, OneOrTwoLines
<1>. QED  BY Zenon, <1>2

LEMMA LengthOfCorrections ==
  ASSUME NEW t
  PROVE  \E R : CorrectionLines(t) \in Seq(R) /\ Len(CorrectionLines(t)) = 2
<1>1. PICK x, y : CorrectionLines(t) = <<x, y>>
  BY Zenon DEF CorrectionLines
<1>2. CorrectionLines(t) \in Seq({x, y}) /\ Len(CorrectionLines(t)) = 2
  BY Zenon, <1>1, OneOrTwoLines
<1>. QED  BY Zenon, <1>2

(* What appending lines to the last of the tables does.                    *)
LEMMA LastTableGrows ==
  ASSUME NEW S, NEW ts \in Seq(Seq(S)), Len(ts) > 0,
         NEW R, NEW lines \in Seq(R),
         NEW new, new = [ts EXCEPT ![Len(ts)] = ts[Len(ts)] \o lines]
  PROVE  /\ \E U : new \in Seq(Seq(U))
         /\ Len(new) = Len(ts)
         /\ Len(new[Len(new)]) = Len(ts[Len(ts)]) + Len(lines)
<1> DEFINE U == S \cup R
           n == Len(ts)
           table == ts[n] \o lines
<1>1. n \in 1 .. Len(ts)  OBVIOUS
<1>2. Seq(S) \subseteq Seq(U) /\ lines \in Seq(U)
  BY SeqMonotonic
<1>3. ts \in Seq(Seq(U))
  BY Zenon, <1>2, SeqMonotonic
<1>4. ts[n] \in Seq(U)  BY <1>1, <1>3, ElementOfSeq
<1>5. table \in Seq(U) /\ Len(table) = Len(ts[n]) + Len(lines)
  BY <1>2, <1>4, ConcatProperties
<1> HIDE DEF U, table
<1>6. /\ [ts EXCEPT ![n] = table] \in Seq(Seq(U))
      /\ Len([ts EXCEPT ![n] = table]) = n
      /\ [ts EXCEPT ![n] = table][n] = table
  BY <1>1, <1>3, <1>5, ExceptSeq
<1>. QED  BY <1>5, <1>6 DEF table

LEMMA TableStarts ==
  ASSUME NEW S, NEW ts \in Seq(Seq(S))
  PROVE  /\ Append(ts, <<>>) \in Seq(Seq(S))
         /\ Len(Append(ts, <<>>)) > 0
         /\ Len(Append(ts, <<>>)[Len(Append(ts, <<>>))]) = 0
<1>1. <<>> \in Seq(S)  OBVIOUS
<1>. QED  BY <1>1

LEMMA InitTableInv == Init => TableInv
<1> SUFFICES ASSUME Init PROVE TableInv
  OBVIOUS
<1>1. pc = "idle" /\ pcs = <<>> /\ build \in Builds  BY DEF Init
<1>2. <<>> \in Seq(Seq({}))  OBVIOUS
<1>. QED  BY <1>1, <1>2 DEF TableInv

LEMMA StepTableInv == TableInv /\ ChunkInv /\ [Next]_vars => TableInv'
<1> SUFFICES ASSUME TableInv, ChunkInv, [Next]_vars PROVE TableInv'
  OBVIOUS
<1>1. build' = build /\ build \in Builds /\ Top(build) \in Nat
  BY DEF TableInv, Next, Work, vars, local, Invoke, Collect, PrecomputeStart,
     PrecomputeIteration, PrecomputeEnd, PrecomputeAll, Return, Validate,
     Validated, Fill, StartTail, ChunkIteration, ChunkEnd, Flush, FinalExp
<1>2. LinesBefore(build, Top(build) - 1) = 0
  BY <1>1, NoLinesYet
<1>3. Top(build') - 1 = Top(build) - 1 /\ (Sized' <=> Sized)
  BY <1>1 DEF Sized
<1> USE DEF TableInv, NumPairs, Prec
<1>4. CASE Invoke
  BY <1>1, <1>3, <1>4 DEF Invoke, local
<1>5. CASE Collect
  <2>1. pc' = "idle" /\ pcs' = <<>>  BY <1>5 DEF Collect
  <2>2. <<>> \in Seq(Seq({}))  OBVIOUS
  <2>. QED  BY <1>1, <2>1, <2>2
<1>6. CASE PrecomputeStart
  <2>1. CASE pc' = "done"
    BY <1>1, <1>6, <2>1 DEF PrecomputeStart, Return, local
  <2>2. CASE pc' # "done"
    <3>1. /\ pc = "precompute" /\ pc' = "table" /\ i' = Top(build) - 1
          /\ pcs' = Append(pcs, <<>>)
      BY <1>6, <2>2 DEF PrecomputeStart, Return
    <3>2. PICK S : pcs \in Seq(Seq(S))  OBVIOUS
    <3>3. /\ pcs' \in Seq(Seq(S)) /\ Len(pcs') > 0
          /\ Len(pcs'[Len(pcs')]) = 0
      BY Zenon, <3>1, <3>2, TableStarts
    <3>. QED  BY <1>1, <1>2, <3>1, <3>3
  <2>. QED  BY <2>1, <2>2
<1>7. CASE PrecomputeIteration
  <2> DEFINE d == Digit(build, i)
             lines == LinesOf(T[1], d)
  <2>1. /\ pc = "table" /\ pc' = "table" /\ i \in 0 .. Top(build) - 1
        /\ i' = i - 1 /\ Len(pcs) > 0
        /\ Len(pcs[Len(pcs)]) = LinesBefore(build, i)
        /\ pcs' = [pcs EXCEPT ![Len(pcs)] = pcs[Len(pcs)] \o lines]
    BY <1>7 DEF PrecomputeIteration
  <2>2. PICK S : pcs \in Seq(Seq(S))  OBVIOUS
  <2>3. PICK R : lines \in Seq(R) /\ Len(lines) = IF d = 0 THEN 1 ELSE 2
    BY Zenon, LengthOfLines
  <2>4. /\ \E U : pcs' \in Seq(Seq(U))
        /\ Len(pcs') = Len(pcs)
        /\ Len(pcs'[Len(pcs')]) = Len(pcs[Len(pcs)]) + Len(lines)
    <3> HIDE DEF lines, TableInv
    <3>1. /\ pcs \in Seq(Seq(S)) /\ Len(pcs) > 0 /\ lines \in Seq(R)
          /\ pcs' = [pcs EXCEPT ![Len(pcs)] = pcs[Len(pcs)] \o lines]
      BY Zenon, <2>1, <2>2, <2>3
    <3>2. \E U : pcs' \in Seq(Seq(U))  BY <3>1, LastTableGrows
    <3>3. Len(pcs') = Len(pcs)  BY <3>1, LastTableGrows
    <3>4. Len(pcs'[Len(pcs')]) = Len(pcs[Len(pcs)]) + Len(lines)
      BY <3>1, LastTableGrows
    <3>. QED  BY <3>2, <3>3, <3>4
  <2>5. LinesBefore(build, i - 1) =
          LinesBefore(build, i) + (IF d = 0 THEN 1 ELSE 2)
    BY <1>1, <2>1, LinesOfDigit
  <2> HIDE DEF lines
  <2>. QED  BY <1>1, <2>1, <2>3, <2>4, <2>5
<1>8. CASE PrecomputeEnd
  <2> DEFINE last == pcs[Len(pcs)]
             lines == CorrectionLines(T[1])
             extra == IF build.bn THEN lines ELSE <<>>
  <2>1. CASE pc' = "done"
    BY <1>1, <1>8, <2>1 DEF PrecomputeEnd, Return, local
  <2>2. CASE pc' # "done"
    <3>1. /\ pc = "table" /\ pc' = "precompute" /\ i = -1 /\ Len(pcs) > 0
          /\ Len(last) = LinesBefore(build, -1)
          /\ Len(last \o extra) = build.lines
          /\ pcs' = [pcs EXCEPT ![Len(pcs)] = last \o extra]
      <4>1. /\ pc = "table" /\ pc' = "precompute" /\ i < 0
            /\ Len(last \o extra) = build.lines
            /\ pcs' = [pcs EXCEPT ![Len(pcs)] = last \o extra]
        BY Zenon, <1>8, <2>2 DEF PrecomputeEnd, Return
      <4>2. i = -1 /\ Len(pcs) > 0 /\ Len(last) = LinesBefore(build, i)
        BY <1>1, <4>1
      <4>. QED  BY Zenon, <4>1, <4>2
    <3>2. PICK S : pcs \in Seq(Seq(S))  OBVIOUS
    <3>3. PICK R : lines \in Seq(R) /\ Len(lines) = 2
      BY Zenon, LengthOfCorrections
    <3> HIDE DEF lines
    <3>4. extra \in Seq(R) /\ Len(extra) = CorrectionCount(build)
      BY Zenon, <3>3, EmptySeq DEF CorrectionCount
    <3> HIDE DEF extra
    <3>5. \E U : pcs' \in Seq(Seq(U))
      BY <3>1, <3>2, <3>4, LastTableGrows
    <3>6. last \in Seq(S)
      BY <3>1, <3>2, ElementOfSeq
    <3>7. Len(last \o extra) = Len(last) + Len(extra)
      <4>1. last \in Seq(S \cup R) /\ extra \in Seq(S \cup R)
        BY <3>4, <3>6, SeqMonotonic
      <4>. QED  BY Zenon, <4>1, ConcatProperties
    <3>8. Sized  BY <3>1, <3>4, <3>7 DEF Sized
    <3>. QED  BY <1>1, <1>3, <3>1, <3>5, <3>8
  <2>. QED  BY <2>1, <2>2
<1>9. CASE PrecomputeAll
  BY <1>1, <1>3, <1>9 DEF PrecomputeAll, local
<1>10. CASE Validate \/ Validated
  BY <1>1, <1>3, <1>10 DEF Validate, Validated, Return, local
<1>11. CASE Fill \/ StartTail
  BY <1>1, <1>2, <1>3, <1>11 DEF Fill, StartTail, ChunkStart
<1>12. CASE ChunkIteration
  <2>1. /\ pc = "chunk" /\ pc' = "chunk" /\ i \in 0 .. Top(build) - 1
        /\ i' = i - 1 /\ pcs' = pcs /\ call' = call
        /\ Prec => k' = k + (IF Digit(build, i) = 0 THEN 1 ELSE 2)
    BY <1>1, <1>12 DEF ChunkIteration, LinesPerStep
  <2>2. LinesBefore(build, i - 1) =
          LinesBefore(build, i) + (IF Digit(build, i) = 0 THEN 1 ELSE 2)
    BY <1>1, <2>1, LinesOfDigit
  <2>. QED  BY <1>1, <1>3, <2>1, <2>2
<1>13. CASE ChunkEnd \/ Flush
  BY <1>1, <1>3, <1>13 DEF ChunkEnd, Flush
<1>14. CASE FinalExp
  BY <1>1, <1>14 DEF FinalExp, Return, local
<1>15. CASE UNCHANGED vars
  BY <1>1, <1>3, <1>15 DEF vars, local
<1>. QED
  BY <1>4, <1>5, <1>6, <1>7, <1>8, <1>9, <1>10, <1>11, <1>12, <1>13, <1>14,
     <1>15
  DEF Next, Work

(* For any buffer size, loop and number of pairs: the chunk that is full   *)
(* or last holds the points and the tables of the same pairs, and its      *)
(* replay reads the line that was computed for the digit it is at and      *)
(* leaves none unread.                                                     *)
THEOREM PairsStayAligned == Spec => []PairsAreAligned
<1>1. Init => ChunkInv /\ TableInv
  BY InitChunkInv, InitTableInv
<1>2. ChunkInv /\ TableInv /\ [Next]_vars => (ChunkInv /\ TableInv)'
  BY StepChunkInv, StepTableInv
<1>3. ChunkInv /\ TableInv => PairsAreAligned
  <2> SUFFICES ASSUME ChunkInv, TableInv PROVE PairsAreAligned
    OBVIOUS
  <2>1. ChunkIsAligned  BY DEF ChunkInv
  <2>2. TableIsAligned
    <3> SUFFICES ASSUME pc = "chunk", Prec
                 PROVE  /\ k = LinesBefore(build, i)
                        /\ i < 0 => k + CorrectionCount(build) = build.lines
      BY DEF TableIsAligned
    <3>1. NumPairs # 0  BY ChunkHasPairs
    <3>. QED  BY <3>1 DEF TableInv, Sized
  <2>. QED  BY <2>1, <2>2 DEF PairsAreAligned
<1>. QED  BY <1>1, <1>2, <1>3, PTL DEF Spec
=============================================================================
