---------------------------- MODULE BlsApi_proofs ----------------------------
(***************************************************************************)
(* What bls.c does, for every set of well-formed calls, every group order  *)
(* and every MAXN.  IInv says where a call is and what its arrays hold:    *)
(* the pairs that reach elips_pairing_multi are those the caller claimed.  *)
(* MadeInv says what a call that makes something wrote.  DueInv says what  *)
(* has passed by the time a loop or the pairing is reached, and that every *)
(* call returns what BlsScheme promises: from it follow that bls.c takes   *)
(* the steps of BlsService and that an acceptance is earned.               *)
(***************************************************************************)
EXTENDS BlsApi, BlsScheme_proofs

(* A verdict over a fixed, short list of checks is one of the codes.       *)
LEMMA VerdictIsCode ==
  ASSUME NEW p, NEW q, NEW r, NEW c \in Codes, NEW d \in Codes, NEW e \in Codes
  PROVE  /\ Verdict(<< <<p, c>>, <<q, d>> >>) \in Codes
         /\ Verdict(<< <<p, c>>, <<q, d>>, <<r, e>> >>) \in Codes
<1>1. Verdict(<< <<p, c>>, <<q, d>> >>) \in Codes
  <2> DEFINE checks == << <<p, c>>, <<q, d>> >>
             S == {x \in DOMAIN checks : checks[x][1]}
  <2>1. S \in SUBSET Nat  OBVIOUS
  <2>2. \A x \in DOMAIN checks : checks[x][2] \in Codes  OBVIOUS
  <2>3. S # {} => Min(S) \in S  BY <2>1, MinIsIn
  <2>4. S # {} => checks[Min(S)][2] \in Codes
    <3> HIDE DEF checks
    <3>. QED  BY <2>2, <2>3
  <2>. QED  BY <2>4 DEF Verdict, Codes
<1>2. Verdict(<< <<p, c>>, <<q, d>>, <<r, e>> >>) \in Codes
  <2> DEFINE checks == << <<p, c>>, <<q, d>>, <<r, e>> >>
             S == {x \in DOMAIN checks : checks[x][1]}
  <2>1. S \in SUBSET Nat  OBVIOUS
  <2>2. \A x \in DOMAIN checks : checks[x][2] \in Codes  OBVIOUS
  <2>3. S # {} => Min(S) \in S  BY <2>1, MinIsIn
  <2>4. S # {} => checks[Min(S)][2] \in Codes
    <3> HIDE DEF checks
    <3>. QED  BY <2>2, <2>3
  <2>. QED  BY <2>4 DEF Verdict, Codes
<1>. QED  BY <1>1, <1>2

(* The code of a proof of possession is one of the codes.                  *)
LEMMA ProofCodes ==
  ASSUME NEW pk, NEW pop
  PROVE  KeyWithProofRc(pk, pop) \in Codes
<1> DEFINE v == PopVerifyRc(pk, pop)
           p == ~KeyValidate(pk)
           q == ~pop.ok
           r == pop.pt # Times(pk.pt, pk.pt, "POP")
           u == v # "OK"
           s == ReadPkFails(pk)
<1>1. /\ "BAD_KEY" \in Codes /\ "BAD_SIG" \in Codes /\ "VERIFY" \in Codes
  BY DEF Codes
<1>2. v = Verdict(<< <<p, "BAD_KEY">>, <<q, "BAD_SIG">>, <<r, "VERIFY">> >>)
  BY Zenon DEF PopVerifyRc, CoreVerifyRc
<1>3. v \in Codes
  <2> HIDE DEF p, q, r, v
  <2>. QED  BY <1>1, <1>2, VerdictIsCode, Zenon
<1>4. KeyWithProofRc(pk, pop) = Verdict(<< <<u, v>>, <<s, "BAD_KEY">> >>)
  BY Zenon DEF KeyWithProofRc
<1>. QED
  <2> HIDE DEF u, s, v
  <2>. QED  BY <1>1, <1>3, <1>4, VerdictIsCode, Zenon

(* So is what deriving a public key answers.                               *)
LEMMA SkToPkCodes ==
  ASSUME NEW sk
  PROVE  SkToPkRc(sk) \in Codes
<1> DEFINE p == SkToLimbsFails(sk)
           q == MulG1(sk.pt) = Infinity
<1>1. "INVALID" \in Codes /\ "BAD_KEY" \in Codes  BY DEF Codes
<1>2. SkToPkRc(sk) = Verdict(<< <<p, "INVALID">>, <<q, "BAD_KEY">> >>)
  BY Zenon DEF SkToPkRc
<1>. QED
  <2> HIDE DEF p, q
  <2>. QED  BY <1>1, <1>2, VerdictIsCode, Zenon

-----------------------------------------------------------------------------
(* The strengthening: which function is running, and, inside the loop of   *)
(* aggregate_verify, that the first i slots are already those of the claim.*)
CallMatchesPc ==
  /\ pc = "idle" => call = NoCall
  /\ pc # "idle" => call \in Calls
  /\ pc \in Operations => call.op = pc
  /\ pc = "av_loop" => call.op = "aggregate_verify"
  /\ pc = "fav_loop" => call.op = "fast_aggregate_verify"

FilledSoFar ==
  /\ i \in Nat /\ n \in Slots /\ rc \in Codes /\ pc \in PcValues
  /\ DOMAIN P = Slots /\ DOMAIN Q = Slots
  /\ pc \in Operations \cup {"idle", "done"} => i = 0
  /\ pc = "av_loop" =>
       /\ ~CountBad /\ i <= KeyCount(call)
       /\ Q[0] = call.sig.pt
       /\ \A s \in 1 .. i : /\ P[s] = call.pks[s].pt
                            /\ Q[s] = HashToG2(call.msgs[s], "SIG")

IInv == CallMatchesPc /\ FilledSoFar /\ SlotsHoldTheClaim

USE MaxNAssumption

(* What CallsAssumption says of one call.                                  *)
LEMMA CallTyped ==
  ASSUME NEW c \in Calls
  PROVE  /\ c.op \in Operations /\ c.null \in BOOLEAN
         /\ KeyCount(c) \in Nat /\ SigCount(c) \in Nat
         /\ ~c.null => WellFormed(c)
BY CallsAssumption

(* The induction starts,                                                   *)
LEMMA InitIInv == Init => IInv
BY DEF Init, FreshFrame, IInv, CallMatchesPc, FilledSoFar, SlotsHoldTheClaim,
       Operations, PcValues, Slots, EmptySlots, Codes

(* leaving the function restores a fresh frame,                            *)
LEMMA ReturnIInv ==
  ASSUME IInv, NEW code \in Codes, Return(code), pc # "idle"
  PROVE  IInv'
BY DEF IInv, CallMatchesPc, FilledSoFar, SlotsHoldTheClaim, Return,
       Operations, PcValues, Slots, EmptySlots

(* and every action preserves the strengthening.                           *)
LEMMA StepIInv == IInv /\ [Next]_vars => IInv'
<1> SUFFICES ASSUME IInv, [Next]_vars PROVE IInv'
  OBVIOUS
<1> USE DEF IInv
<1>c. {"OK", "INVALID", "BAD_KEY", "BAD_SIG", "VERIFY", "DUP_MESSAGE"}
        \subseteq Codes
  BY DEF Codes
<1>1. CASE Invoke
  BY <1>1, CallTyped DEF Invoke, frame, CallMatchesPc, FilledSoFar,
     SlotsHoldTheClaim, Operations, PcValues
<1>2. CASE Collect
  BY <1>2, <1>c DEF Collect, frame, CallMatchesPc, FilledSoFar,
     SlotsHoldTheClaim, Operations, PcValues
<1>3. CASE PairingCheck
  <2>1. PICK code \in {"OK", "VERIFY"} : Return(code)
    BY <1>3 DEF PairingCheck, PairingCheckRc
  <2>. QED  BY <1>3, <1>c, <2>1, ReturnIInv DEF PairingCheck
<1>4. ASSUME NEW pk, NEW m, NEW sig, NEW tag, CoreVerify(pk, m, sig, tag),
             pc \in {"verify", "pop_verify"},
             pk = call.pks[1],
             sig.pt = ClaimedSignature, HashToG2(m, tag) = ClaimedHash(1)
      PROVE  IInv'
  <2>1. CASE \E code \in {"INVALID", "BAD_KEY", "BAD_SIG"} : Return(code)
    BY <1>4, <1>c, <2>1, ReturnIInv
  <2>2. CASE /\ P' = [P EXCEPT ![1] = pk.pt]
             /\ Q' = [Q EXCEPT ![0] = sig.pt, ![1] = HashToG2(m, tag)]
             /\ n' = 1 /\ pc' = "pairing_check"
             /\ UNCHANGED <<call, i, acc, rc>>
    <3>1. 0 \in Slots /\ 1 \in Slots  BY DEF Slots
    <3>2. call.op \in {"verify", "pop_verify"}
      BY <1>4 DEF CallMatchesPc, Operations
    <3>3. CallMatchesPc' /\ FilledSoFar'
      BY <1>4, <2>2, <3>1 DEF CallMatchesPc, FilledSoFar, Operations, PcValues
    <3>4. /\ Q'[0] = sig.pt /\ Q'[1] = HashToG2(m, tag) /\ P'[1] = pk.pt
      BY <2>2, <3>1 DEF FilledSoFar
    <3>5. SlotsHoldTheClaim'
      BY <1>4, <2>2, <3>2, <3>4
      DEF SlotsHoldTheClaim, ClaimedPairs, ClaimedSignature, ClaimedHash
    <3>. QED  BY <3>3, <3>5
  <2>. QED  BY <1>4, <2>1, <2>2 DEF CoreVerify
<1>5. CASE Verify
  BY <1>4, <1>5 DEF Verify, CallMatchesPc, Operations, ClaimedSignature,
     ClaimedHash
<1>6. CASE PopVerify
  BY <1>4, <1>6 DEF PopVerify, CallMatchesPc, Operations, ClaimedSignature,
     ClaimedHash
<1>7. CASE AggregateFirst
  <2>1. CASE \E code \in {"INVALID", "BAD_SIG"} : Return(code)
    BY <1>7, <1>c, <2>1, ReturnIInv DEF AggregateFirst
  <2>2. CASE /\ i' = 1 /\ pc' = "aggregate_loop"
             /\ UNCHANGED <<call, P, Q, n, rc>>
    BY <1>7, <2>2 DEF AggregateFirst, CallMatchesPc, FilledSoFar,
       SlotsHoldTheClaim, Operations, PcValues
  <2>. QED  BY <1>7, <2>1, <2>2 DEF AggregateFirst
<1>8. CASE AggregateNext
  <2>1. CASE Return("BAD_SIG")
    BY <1>8, <1>c, <2>1, ReturnIInv DEF AggregateNext
  <2>2. CASE i' = i + 1 /\ UNCHANGED <<pc, call, P, Q, n, rc>>
    BY <1>8, <2>2 DEF AggregateNext, CallMatchesPc, FilledSoFar,
       SlotsHoldTheClaim, Operations, PcValues
  <2>. QED  BY <1>8, <2>1, <2>2 DEF AggregateNext
<1>9. CASE AggregateWrite
  BY <1>9, <1>c, ReturnIInv DEF AggregateWrite
<1>10. CASE AggregateVerifyStart
  <2>1. CASE \E code \in {"INVALID", "DUP_MESSAGE", "BAD_SIG"} : Return(code)
    BY <1>10, <1>c, <2>1, ReturnIInv DEF AggregateVerifyStart
  <2>2. CASE /\ ~CountBad
             /\ Q' = [Q EXCEPT ![0] = call.sig.pt]
             /\ pc' = "av_loop"
             /\ UNCHANGED <<call, i, P, acc, n, rc>>
    <3>1. /\ pc = "aggregate_verify" /\ call.op = "aggregate_verify"
          /\ call \in Calls /\ i = 0
      BY <1>10 DEF AggregateVerifyStart, CallMatchesPc, FilledSoFar, Operations
    <3>2. CallMatchesPc'  BY <2>2, <3>1 DEF CallMatchesPc, Operations
    <3>3. 0 \in Slots /\ KeyCount(call) \in Nat  BY <3>1, CallTyped DEF Slots
    <3>4. FilledSoFar'
      BY <2>2, <3>1, <3>3 DEF FilledSoFar, CountBad, Operations, PcValues
    <3>5. SlotsHoldTheClaim'  BY <2>2 DEF SlotsHoldTheClaim
    <3>. QED  BY <3>2, <3>4, <3>5
  <2>. QED  BY <1>10, <2>1, <2>2 DEF AggregateVerifyStart
<1>11. CASE AggregateVerifyPair
  <2>1. CASE Return("BAD_KEY")
    BY <1>11, <1>c, <2>1, ReturnIInv DEF AggregateVerifyPair
  <2>2. CASE /\ P' = [P EXCEPT ![SlotOf(i)] = call.pks[i + 1].pt]
             /\ Q' = [Q EXCEPT ![SlotOf(i)] =
                        HashToG2(call.msgs[i + 1], "SIG")]
             /\ i' = i + 1
             /\ UNCHANGED <<pc, call, acc, n, rc>>
    BY <1>11, <2>2, CallTyped DEF AggregateVerifyPair, CallMatchesPc,
       FilledSoFar, SlotsHoldTheClaim, Operations, PcValues, Slots, CountBad,
       SlotOf
  <2>. QED  BY <1>11, <2>1, <2>2 DEF AggregateVerifyPair
<1>12. CASE AggregateVerifyEnd
  BY <1>12, CallTyped DEF AggregateVerifyEnd, CallMatchesPc, FilledSoFar,
     SlotsHoldTheClaim, Operations, PcValues, Slots, CountBad, ClaimedPairs,
     ClaimedSignature, ClaimedHash
<1>13. CASE FastAggregateStart
  <2>1. CASE Return("INVALID")
    BY <1>13, <1>c, <2>1, ReturnIInv DEF FastAggregateStart
  <2>2. CASE pc' = "fav_loop" /\ UNCHANGED <<call, frame, rc>>
    BY <1>13, <2>2 DEF FastAggregateStart, CallMatchesPc, FilledSoFar,
       SlotsHoldTheClaim, Operations, PcValues, frame
  <2>. QED  BY <1>13, <2>1, <2>2 DEF FastAggregateStart
<1>14. CASE FastAggregateKey
  <2> DEFINE prc == KeyWithProofRc(call.pks[i + 1], call.pops[i + 1])
  <2>1. CASE Return(prc)
    BY <1>14, <2>1, ReturnIInv, ProofCodes DEF FastAggregateKey
  <2>2. CASE /\ P' = [P EXCEPT ![1] = IF i = 0 THEN call.pks[i + 1].pt
                                      ELSE Plus(@, call.pks[i + 1].pt)]
             /\ i' = i + 1
             /\ UNCHANGED <<pc, call, Q, acc, n, rc>>
    BY <1>14, <2>2 DEF FastAggregateKey, CallMatchesPc, FilledSoFar,
       SlotsHoldTheClaim, Operations, PcValues
  <2>. QED  BY <1>14, <2>1, <2>2 DEF FastAggregateKey
<1>15. CASE FastAggregateEnd
  <2>1. CASE \E code \in {"BAD_KEY", "BAD_SIG"} : Return(code)
    BY <1>15, <1>c, <2>1, ReturnIInv DEF FastAggregateEnd
  <2>2. CASE /\ Q' = [Q EXCEPT ![0] = call.sig.pt,
                               ![1] = HashToG2(call.msgs[1], "SIG")]
             /\ n' = 1 /\ pc' = "pairing_check"
             /\ UNCHANGED <<call, i, P, acc, rc>>
    <3>1. 0 \in Slots /\ 1 \in Slots  BY DEF Slots
    <3>2. call.op = "fast_aggregate_verify"
      BY <1>15 DEF FastAggregateEnd, CallMatchesPc
    <3>3. CallMatchesPc' /\ FilledSoFar'
      BY <1>15, <2>2, <3>1 DEF FastAggregateEnd, CallMatchesPc, FilledSoFar,
         Operations, PcValues
    <3>4. SlotsHoldTheClaim'
      BY <2>2, <3>1, <3>2 DEF FilledSoFar, SlotsHoldTheClaim, ClaimedPairs,
         ClaimedSignature, ClaimedHash
    <3>. QED  BY <3>3, <3>4
  <2>. QED  BY <1>15, <2>1, <2>2 DEF FastAggregateEnd
<1>sign. ASSUME NEW sk, NEW m, NEW tag, CoreSign(sk, m, tag), pc # "idle"
       PROVE  IInv'
  <2>1. PICK code \in {"INVALID", "OK"} : Return(code)
    BY <1>sign DEF CoreSign
  <2>. QED  BY <1>sign, <1>c, <2>1, ReturnIInv
<1>16. CASE SkToPk
  <2>1. PICK code \in Codes : Return(code)
    BY <1>16, <1>c, SkToPkCodes DEF SkToPk
  <2>. QED  BY <1>16, <2>1, ReturnIInv DEF SkToPk
<1>17. CASE PkValidate
  <2>1. PICK code \in Codes : Return(code)
    BY <1>17, <1>c DEF PkValidate
  <2>. QED  BY <1>17, <2>1, ReturnIInv DEF PkValidate
<1>18. CASE Sign
  <2>1. CASE Return("INVALID")
    BY <1>18, <1>c, <2>1, ReturnIInv DEF Sign
  <2>2. CASE CoreSign(call.sk, call.msgs[1], "SIG")
    BY <1>18, <1>sign, <2>2 DEF Sign
  <2>. QED  BY <1>18, <2>1, <2>2 DEF Sign
<1>19. CASE PopProve
  <2>1. CASE \E code \in Codes : Return(code)
    BY <1>19, <2>1, ReturnIInv DEF PopProve
  <2>2. CASE CoreSign(call.sk, MulG1(call.sk.pt), "POP")
    BY <1>19, <1>sign, <2>2 DEF PopProve
  <2>. QED  BY <1>19, <1>c, <2>1, <2>2, SkToPkCodes DEF PopProve
<1>20. CASE UNCHANGED vars
  BY <1>20 DEF vars, CallMatchesPc, FilledSoFar, SlotsHoldTheClaim, CountBad,
     ClaimedPairs, ClaimedSignature, ClaimedHash
<1>. QED
  BY <1>1, <1>2, <1>3, <1>5, <1>6, <1>7, <1>8, <1>9, <1>10, <1>11, <1>12,
     <1>13, <1>14, <1>15, <1>16, <1>17, <1>18, <1>19, <1>20 DEF Next, Work

(* The strengthened invariant holds in every reachable state.              *)
THEOREM BlsApiInductive == Spec => []IInv
BY InitIInv, StepIInv, PTL DEF Spec

(* The type invariant of the machine, for all arguments and any MAXN.      *)
THEOREM BlsApiTypeCorrect == Spec => []TypeOK
<1>1. IInv => TypeOK
  BY CallTyped DEF IInv, CallMatchesPc, FilledSoFar, TypeOK, NoCall, PcValues,
     Operations
<1>. QED  BY <1>1, BlsApiInductive, PTL

(* The pairs checked are the pairs claimed: bls.c hands the pairing slot s *)
(* = (key s, message s), and nothing it did not write.                     *)
THEOREM BlsApiChecksTheClaim == Spec => []SlotsHoldTheClaim
<1>1. IInv => SlotsHoldTheClaim  BY DEF IInv
<1>. QED  BY <1>1, BlsApiInductive, PTL

-----------------------------------------------------------------------------
(* What is made verifies.  A call that makes something is one step, so the *)
(* secret that step accepted is the one its caller still holds at the end. *)
Making == {"sk_to_pk", "sign", "pop_prove"}
MadeAtOnce == pc # "idle" /\ call.op \in Making => pc \in {call.op, "done"}

MadeInv == MadeAtOnce /\ WhatIsMadeVerifies

(* A verdict is OK when no check failed, and not when the first one did.   *)
LEMMA NothingFailed ==
  ASSUME NEW p, NEW q, NEW r, NEW c, NEW d, NEW e, ~p, ~q, ~r
  PROVE  /\ Verdict(<< <<p, c>> >>) = "OK"
         /\ Verdict(<< <<p, c>>, <<q, d>> >>) = "OK"
         /\ Verdict(<< <<p, c>>, <<q, d>>, <<r, e>> >>) = "OK"
<1>1. Verdict(<< <<p, c>> >>) = "OK"
  <2> DEFINE checks == << <<p, c>> >>
  <2>1. {x \in DOMAIN checks : checks[x][1]} = {}  OBVIOUS
  <2>. QED  BY <2>1 DEF Verdict
<1>2. Verdict(<< <<p, c>>, <<q, d>> >>) = "OK"
  <2> DEFINE checks == << <<p, c>>, <<q, d>> >>
  <2>1. {x \in DOMAIN checks : checks[x][1]} = {}  OBVIOUS
  <2>. QED  BY <2>1 DEF Verdict
<1>3. Verdict(<< <<p, c>>, <<q, d>>, <<r, e>> >>) = "OK"
  <2> DEFINE checks == << <<p, c>>, <<q, d>>, <<r, e>> >>
  <2>1. {x \in DOMAIN checks : checks[x][1]} = {}  OBVIOUS
  <2>. QED  BY <2>1 DEF Verdict
<1>. QED  BY <1>1, <1>2, <1>3

(* The key of an accepted secret is valid, and what it signs verifies.     *)
LEMMA KeyIsValid ==
  ASSUME NEW sk, ~SkToLimbsFails(sk)
  PROVE  KeyValidate(Encode(MulG1(sk.pt)))
BY DEF SkToLimbsFails, KeyValidate, Encode, MulG1

LEMMA KeyValidates ==
  ASSUME NEW sk, ~SkToLimbsFails(sk)
  PROVE  KeyValidateRc(Encode(MulG1(sk.pt))) = "OK"
<1>1. ~~KeyValidate(Encode(MulG1(sk.pt)))  BY KeyIsValid
<1>. QED  BY Zenon, <1>1, NothingFailed DEF KeyValidateRc

LEMMA SignatureVerifies ==
  ASSUME NEW sk, NEW m, NEW tag, ~SkToLimbsFails(sk)
  PROVE  CoreVerifyRc(Encode(MulG1(sk.pt)), m,
                      Encode(Times(sk.pt, m, tag)), tag) = "OK"
<1> DEFINE pk == Encode(MulG1(sk.pt))
           sig == Encode(Times(sk.pt, m, tag))
<1>1. ~~KeyValidate(pk)  BY KeyIsValid
<1>2. ~~sig.ok  BY DEF Encode
<1>3. ~(sig.pt # Times(pk.pt, m, tag))  BY DEF Encode, MulG1
<1>. QED
  <2> HIDE DEF pk, sig
  <2>1. CoreVerifyRc(pk, m, sig, tag) = "OK"
    BY Zenon, <1>1, <1>2, <1>3, NothingFailed DEF CoreVerifyRc
  <2>. QED  BY <2>1 DEF pk, sig

LEMMA DerivedIsAccepted ==
  ASSUME NEW sk, SkToPkRc(sk) = "OK"
  PROVE  ~SkToLimbsFails(sk)
<1> DEFINE p == SkToLimbsFails(sk)
           q == MulG1(sk.pt) = Infinity
<1>1. SkToPkRc(sk) = Verdict(<< <<p, "INVALID">>, <<q, "BAD_KEY">> >>)
  BY Zenon DEF SkToPkRc
<1>2. p => Answers(<< <<p, "INVALID">>, <<q, "BAD_KEY">> >>, "INVALID")
  <2> HIDE DEF p, q
  <2>. QED  BY Zenon, FirstOfTwo
<1>3. "INVALID" # "OK"  OBVIOUS
<1>. QED  BY Zenon, <1>1, <1>2, <1>3 DEF Answers

(* The other actions make nothing, and nor does a refusal.                 *)
LEMMA OthersMakeNothing ==
  ASSUME call.op \notin Making, UNCHANGED call
  PROVE  MadeInv'
BY DEF MadeInv, MadeAtOnce, WhatIsMadeVerifies, Making

LEMMA RefusedMakesNothing ==
  ASSUME NEW code, code # "OK", Return(code)
  PROVE  MadeInv'
BY DEF MadeInv, MadeAtOnce, WhatIsMadeVerifies, Return

(* Every action preserves it.                                              *)
LEMMA StepMadeInv == IInv /\ MadeInv /\ [Next]_vars => MadeInv'
<1> SUFFICES ASSUME IInv, MadeInv, [Next]_vars PROVE MadeInv'
  OBVIOUS
<1>1. CASE Invoke
  BY <1>1, CallTyped
  DEF Invoke, MadeInv, MadeAtOnce, WhatIsMadeVerifies, Operations
<1>2. CASE Collect
  BY <1>2 DEF Collect, MadeInv, MadeAtOnce, WhatIsMadeVerifies
<1>3. CASE SkToPk
  <2>1. pc = "sk_to_pk" /\ call.op = "sk_to_pk"
    BY <1>3 DEF SkToPk, IInv, CallMatchesPc, Operations
  <2>2. CASE \E code : code # "OK" /\ Return(code)
    BY <2>2, RefusedMakesNothing
  <2>3. CASE /\ SkToPkRc(call.sk) = "OK"
             /\ out' = Encode(MulG1(call.sk.pt)) /\ Return("OK")
    <3>1. KeyValidateRc(out') = "OK"
      BY <2>3, DerivedIsAccepted, KeyValidates
    <3>. QED
      BY <2>1, <2>3, <3>1 DEF Return, MadeInv, MadeAtOnce, WhatIsMadeVerifies
  <2>. QED  BY <1>3, <2>2, <2>3 DEF SkToPk
<1>4. CASE Sign
  <2>1. pc = "sign" /\ call.op = "sign"
    BY <1>4 DEF Sign, IInv, CallMatchesPc, Operations
  <2>2. CASE Return("INVALID")
    BY <2>2, RefusedMakesNothing
  <2>3. CASE /\ ~SkToLimbsFails(call.sk)
             /\ out' = Encode(Times(call.sk.pt, call.msgs[1], "SIG"))
             /\ Return("OK")
    <3>1. CoreVerifyRc(Encode(MulG1(call.sk.pt)), call.msgs[1], out', "SIG")
            = "OK"
      BY <2>3, SignatureVerifies
    <3>. QED
      BY <2>1, <2>3, <3>1 DEF Return, MadeInv, MadeAtOnce, WhatIsMadeVerifies
  <2>. QED  BY <1>4, <2>2, <2>3 DEF Sign, CoreSign
<1>5. CASE PopProve
  <2>1. pc = "pop_prove" /\ call.op = "pop_prove"
    BY <1>5 DEF PopProve, IInv, CallMatchesPc, Operations
  <2>2. CASE \E code : code # "OK" /\ Return(code)
    BY <2>2, RefusedMakesNothing
  <2>3. CASE /\ ~SkToLimbsFails(call.sk)
             /\ out' = Encode(Times(call.sk.pt, MulG1(call.sk.pt), "POP"))
             /\ Return("OK")
    <3> DEFINE pk == Encode(MulG1(call.sk.pt))
    <3>1. pk.pt = MulG1(call.sk.pt)  BY DEF Encode
    <3>2. CoreVerifyRc(pk, MulG1(call.sk.pt), out', "POP") = "OK"
      BY <2>3, SignatureVerifies
    <3>3. PopVerifyRc(pk, out') = "OK"
      <4> HIDE DEF pk
      <4>. QED  BY <3>1, <3>2 DEF PopVerifyRc
    <3>. QED
      BY <2>1, <2>3, <3>3 DEF Return, MadeInv, MadeAtOnce, WhatIsMadeVerifies
  <2>. QED  BY <1>5, <2>2, <2>3 DEF PopProve, CoreSign, DerivedFails
<1>6. CASE PkValidate \/ Verify \/ PopVerify \/ PairingCheck
  <2>1. UNCHANGED call
    BY <1>6 DEF PkValidate, Verify, PopVerify, CoreVerify, PairingCheck, Return
  <2>2. pc \in {"pk_validate", "verify", "pop_verify", "pairing_check"}
    BY <1>6 DEF PkValidate, Verify, PopVerify, PairingCheck
  <2>3. call.op \notin Making
    BY <2>2 DEF MadeInv, MadeAtOnce, Making
  <2>. QED  BY <2>1, <2>3, OthersMakeNothing
<1>7. CASE \/ AggregateFirst \/ AggregateNext \/ AggregateWrite
           \/ AggregateVerifyStart \/ AggregateVerifyPair \/ AggregateVerifyEnd
  <2>1. UNCHANGED call
    BY <1>7 DEF AggregateFirst, AggregateNext, AggregateWrite,
       AggregateVerifyStart, AggregateVerifyPair, AggregateVerifyEnd, Return
  <2>2. pc \in {"aggregate", "aggregate_loop", "aggregate_verify", "av_loop"}
    BY <1>7 DEF AggregateFirst, AggregateNext, AggregateWrite,
       AggregateVerifyStart, AggregateVerifyPair, AggregateVerifyEnd
  <2>3. call.op \notin Making
    BY <2>2 DEF MadeInv, MadeAtOnce, Making
  <2>. QED  BY <2>1, <2>3, OthersMakeNothing
<1>8. CASE FastAggregateStart \/ FastAggregateKey \/ FastAggregateEnd
  <2>1. UNCHANGED call
    BY <1>8 DEF FastAggregateStart, FastAggregateKey, FastAggregateEnd, Return
  <2>2. pc \in {"fast_aggregate_verify", "fav_loop"}
    BY <1>8 DEF FastAggregateStart, FastAggregateKey, FastAggregateEnd
  <2>3. call.op \notin Making
    BY <2>2 DEF MadeInv, MadeAtOnce, Making
  <2>. QED  BY <2>1, <2>3, OthersMakeNothing
<1>9. CASE UNCHANGED vars
  BY <1>9 DEF vars, MadeInv, MadeAtOnce, WhatIsMadeVerifies
<1>. QED
  BY <1>1, <1>2, <1>3, <1>4, <1>5, <1>6, <1>7, <1>8, <1>9 DEF Next, Work

(* Keys, signatures and proofs that bls.c makes are accepted by bls.c, for *)
(* every secret, message and group order: no identity is ever handed out.  *)
THEOREM BlsApiMakesVerifies == Spec => []WhatIsMadeVerifies
<1>1. Init => MadeInv
  BY DEF Init, MadeInv, MadeAtOnce, WhatIsMadeVerifies
<1>2. MadeInv => WhatIsMadeVerifies  BY DEF MadeInv
<1>. QED  BY <1>1, <1>2, StepMadeInv, BlsApiInductive, PTL DEF Spec

-----------------------------------------------------------------------------
(* What pairing_check answers, once the keys are points other than the     *)
(* identity: whether the signature is the sum of the shares (bls.c:74-96). *)
LEMMA PairingCheckAnswers ==
  ASSUME NEW share, n \in Nat, 0 \in DOMAIN P, IsPoint2(Q[0]),
         \A s \in 1 .. n :
           P[s] # Infinity /\ SlotIsShare(P[s], Q[s], share[s]),
         SumOver(1 .. n, share) # Infinity
  PROVE  PairingCheckRc([P EXCEPT ![0] = Minus(G1Generator)], Q)
           = IF Q[0] = SumOver(1 .. n, share) THEN "OK" ELSE "VERIFY"
<1> DEFINE p == [P EXCEPT ![0] = Minus(G1Generator)]
           sum == SumOver(1 .. n, share)
           product == SumOver(0 .. n, [s \in 0 .. n |-> Pairing(p[s], Q[s])])
<1>1. /\ p[0] = Minus(G1Generator)
      /\ \A s \in 1 .. n : p[s] = P[s]
  OBVIOUS
<1>2. p[0] # Infinity  BY <1>1, SignaturePairing
<1>3. 0 .. (n + 1) - 1 = 0 .. n  OBVIOUS
<1>. HIDE DEF p
<1>4. product = Infinity <=> Q[0] = sum
  <2>1. \A s \in 1 .. n : SlotIsShare(p[s], Q[s], share[s])
    BY <1>1
  <2>. QED  BY <1>1, <2>1, PairingEquation
<1>5. ASSUME NEW s \in 1 .. n PROVE p[s] # Infinity /\ Q[s] # Infinity
  <2>1. p[s] = P[s] /\ P[s] # Infinity  BY <1>1
  <2>2. PICK m, tag : IsPoint(P[s]) /\ Q[s] = HashToG2(m, tag)
    BY DEF SlotIsShare
  <2>3. Q[s] # Infinity  BY <2>2, HashPairing
  <2>. QED  BY <2>1, <2>3
<1>6. PairingMultiAccepts(p, Q, n + 1) <=> Q[0] # Infinity
  <2>1. PairingMultiAccepts(p, Q, n + 1)
          <=> \A s \in 0 .. n : p[s] # Infinity /\ Q[s] # Infinity
    BY Zenon, <1>3 DEF PairingMultiAccepts
  <2>2. \A s \in 0 .. n : s = 0 \/ s \in 1 .. n  OBVIOUS
  <2>3. 0 \in 0 .. n  OBVIOUS
  <2>. QED  BY Zenon, <1>2, <1>5, <2>1, <2>2, <2>3
<1>7. PairingProduct(p, Q, n + 1) = product
  BY Zenon, <1>3 DEF PairingProduct
<1>8. PairingMultiOut(p, Q, n + 1)
        = IF Q[0] # Infinity THEN product ELSE Infinity
  BY Zenon, <1>6, <1>7 DEF PairingMultiOut
<1>. HIDE DEF product, sum
<1>9. sum # Infinity  BY DEF sum
<1>10. PairingCheckRc(p, Q)
         = IF Q[0] # Infinity /\ PairingMultiOut(p, Q, n + 1) = Infinity
           THEN "OK" ELSE "VERIFY"
  BY <1>6 DEF PairingCheckRc
<1>11. PairingCheckRc(p, Q) = IF Q[0] = sum THEN "OK" ELSE "VERIFY"
  BY <1>4, <1>8, <1>9, <1>10
<1>. QED  BY <1>11 DEF p, sum

(* With one key, there is one share.                                       *)
LEMMA SingleCheckAnswers ==
  ASSUME n = 1, 0 \in DOMAIN P, IsPoint2(Q[0]), IsPoint(P[1]), P[1] # Infinity,
         NEW m, NEW tag, Q[1] = HashToG2(m, tag)
  PROVE  PairingCheckRc([P EXCEPT ![0] = Minus(G1Generator)], Q)
           = IF Q[0] = Times(P[1], m, tag) THEN "OK" ELSE "VERIFY"
<1> DEFINE share == [s \in {1} |-> Times(P[1], m, tag)]
<1>1. share[1] = Times(P[1], m, tag)  OBVIOUS
<1>2. 1 .. n = {1} /\ n \in Nat  OBVIOUS
<1>3. IsForm(share[1]) /\ share[1] # Infinity
  BY <1>1, TimesIsForm, TimesIsIdentity DEF IsPoint
<1>4. \A s \in 1 .. n : P[s] # Infinity /\ SlotIsShare(P[s], Q[s], share[s])
  BY <1>1, <1>2 DEF SlotIsShare
<1>. HIDE DEF share
<1>5. SumOver(1 .. n, share) = share[1]  BY <1>2, <1>3, SumOfOne
<1>6. SumOver(1 .. n, share) # Infinity  BY <1>3, <1>5
<1>7. PairingCheckRc([P EXCEPT ![0] = Minus(G1Generator)], Q)
        = IF Q[0] = SumOver(1 .. n, share) THEN "OK" ELSE "VERIFY"
  BY <1>2, <1>4, <1>6, PairingCheckAnswers
<1>. QED  BY <1>1, <1>5, <1>7

-----------------------------------------------------------------------------
(* What is promised of a call, function by function.                       *)
LEMMA Promises ==
  ASSUME NEW c \in Calls
  PROVE  /\ c.null => PromisedRc(c) = "INVALID"
         /\ ~c.null =>
              /\ c.op \in {"sk_to_pk", "sign", "pop_prove"} =>
                   PromisedRc(c) = WithSecretRc(c.sk)
              /\ c.op = "pk_validate" =>
                   PromisedRc(c) = KeyValidateRc(c.pks[1])
              /\ c.op = "verify" => PromisedRc(c)
                   = CoreVerifyRc(c.pks[1], c.msgs[1], c.sig, "SIG")
              /\ c.op = "pop_verify" => PromisedRc(c)
                   = CoreVerifyRc(c.pks[1], c.pks[1].pt, c.pops[1], "POP")
              /\ c.op = "aggregate" => PromisedRc(c) = AggregateRc(c.sigs)
              /\ c.op = "aggregate_verify" =>
                   PromisedRc(c) = AggregateVerifyRc(c.pks, c.msgs, c.sig)
              /\ c.op = "fast_aggregate_verify" => PromisedRc(c)
                   = FastAggregateVerifyRc(c.pks, c.pops, c.msgs[1], c.sig)
BY CallTyped DEF PromisedRc, PopVerifyRc

(* and the bytes,                                                          *)
LEMMA PromisedBytes ==
  ASSUME NEW c
  PROVE  /\ PromisedRc(c) # "OK" => PromisedOut(c) = Untouched
         /\ c.op \notin {"sk_to_pk", "sign", "pop_prove", "aggregate"} =>
              PromisedOut(c) = Untouched
         /\ PromisedRc(c) = "OK" =>
              /\ c.op = "sk_to_pk" => PromisedOut(c) = Encode(MulG1(c.sk.pt))
              /\ c.op = "sign" =>
                   PromisedOut(c) = Encode(Times(c.sk.pt, c.msgs[1], "SIG"))
              /\ c.op = "pop_prove" => PromisedOut(c)
                   = Encode(Times(c.sk.pt, MulG1(c.sk.pt), "POP"))
              /\ c.op = "aggregate" => PromisedOut(c) = Encode(SigSum(c.sigs))
BY DEF PromisedOut

(* The codes of the calls that check one thing.                            *)
LEMMA KeyValidateCodes ==
  ASSUME NEW pk
  PROVE  KeyValidateRc(pk) = IF ReadPkFails(pk) THEN "BAD_KEY" ELSE "OK"
<1> DEFINE p == ~KeyValidate(pk)
           checks == << <<p, "BAD_KEY">> >>
<1>1. KeyValidateRc(pk) = Verdict(checks)  BY Zenon DEF KeyValidateRc
<1>2. (p => Verdict(checks) = "BAD_KEY") /\ (~p => Verdict(checks) = "OK")
  <2>. HIDE DEF p
  <2>1. p => Verdict(checks) = "BAD_KEY"
    BY Zenon, FirstOfOne DEF Answers
  <2>2. ~p => Verdict(checks) = "OK"
    BY Zenon, NothingFailed
  <2>. QED  BY Zenon, <2>1, <2>2
<1>3. p <=> ReadPkFails(pk)  BY DEF KeyValidate, ReadPkFails
<1>. HIDE DEF p, checks
<1>. QED  BY <1>1, <1>2, <1>3

(* Two checks of a secret come to the one the header promises, since the   *)
(* key of a secret other than zero is never the identity.                  *)
LEMMA SecretCodes ==
  ASSUME NEW sk
  PROVE  /\ WithSecretRc(sk) = IF SkToLimbsFails(sk) THEN "INVALID" ELSE "OK"
         /\ SkToPkRc(sk) = IF SkToLimbsFails(sk) THEN "INVALID" ELSE "OK"
<1> DEFINE p == ~SecretKey(sk)
           q == SkToLimbsFails(sk)
           r == MulG1(sk.pt) = Infinity
           checks == << <<p, "INVALID">> >>
           derive == << <<q, "INVALID">>, <<r, "BAD_KEY">> >>
<1>1. WithSecretRc(sk) = Verdict(checks)  BY Zenon DEF WithSecretRc
<1>2. SkToPkRc(sk) = Verdict(derive)  BY Zenon DEF SkToPkRc
<1>3. (p <=> q) /\ (~q => ~r)
  BY DEF SecretKey, SkToLimbsFails, MulG1
<1>. HIDE DEF p, q, r
<1>4. (p => Verdict(checks) = "INVALID") /\ (~p => Verdict(checks) = "OK")
  <2>1. p => Verdict(checks) = "INVALID"
    BY Zenon, FirstOfOne DEF Answers
  <2>2. ~p => Verdict(checks) = "OK"
    BY Zenon, NothingFailed
  <2>. QED  BY Zenon, <2>1, <2>2
<1>5. (q => Verdict(derive) = "INVALID")
      /\ (~q /\ ~r => Verdict(derive) = "OK")
  <2>1. q => Answers(derive, "INVALID")
    BY Zenon, FirstOfTwo
  <2>2. ~q /\ ~r => Verdict(derive) = "OK"
    BY Zenon, NothingFailed
  <2>. QED  BY Zenon, <2>1, <2>2 DEF Answers
<1>. HIDE DEF checks, derive
<1>. QED  BY <1>1, <1>2, <1>3, <1>4, <1>5 DEF q

(* What is promised of an aggregate, check by check.                       *)
LEMMA AggregateCodes ==
  ASSUME NEW list
  PROVE  /\ Len(list) = 0 => AggregateRc(list) = "INVALID"
         /\ Len(list) # 0 /\ (\E k \in DOMAIN list : ~list[k].ok) =>
              AggregateRc(list) = "BAD_SIG"
         /\ Len(list) # 0 /\ (\A k \in DOMAIN list : list[k].ok) =>
              AggregateRc(list) = "OK"
<1> DEFINE p == Len(list) = 0
           q == \E k \in DOMAIN list : ~list[k].ok
           checks == << <<p, "INVALID">>, <<q, "BAD_SIG">> >>
<1>1. AggregateRc(list) = Verdict(checks)  BY Zenon DEF AggregateRc
<1>2. q <=> ~\A k \in DOMAIN list : list[k].ok  BY Zenon
<1>. HIDE DEF p, q
<1>3. /\ p => Verdict(checks) = "INVALID"
      /\ ~p /\ q => Verdict(checks) = "BAD_SIG"
      /\ ~p /\ ~q => Verdict(checks) = "OK"
  <2>1. p => Answers(checks, "INVALID")  BY Zenon, FirstOfTwo
  <2>3. ~p /\ q => Answers(checks, "BAD_SIG")  BY Zenon, FirstOfTwo
  <2>2. ~p /\ ~q => Verdict(checks) = "OK"
    BY Zenon, NothingFailed
  <2>. QED  BY Zenon, <2>1, <2>2, <2>3 DEF Answers
<1>. HIDE DEF checks
<1>. QED  BY Zenon, <1>1, <1>2, <1>3 DEF p, q

-----------------------------------------------------------------------------
(* What has been checked, and summed, by the time the call is at pc: all   *)
(* but the equation when it is at pairing_check.                           *)
Inside == {"aggregate_loop", "av_loop", "fav_loop", "pairing_check"}
Checking == {"verify", "pop_verify", "aggregate_verify",
             "fast_aggregate_verify"}

KeysRead(k) == \A s \in 1 .. k : KeyValidate(call.pks[s])
ProofsRead(k) ==
  \A s \in 1 .. k : PopVerifyRc(call.pks[s], call.pops[s]) = "OK"

SingleChecked ==
  pc = "pairing_check" =>
    /\ call.op \in Checking
    /\ call.op = "verify" => KeyValidate(call.pks[1]) /\ call.sig.ok
    /\ call.op = "pop_verify" => KeyValidate(call.pks[1]) /\ call.pops[1].ok

SignaturesSoFar ==
  pc = "aggregate_loop" =>
    /\ call.op = "aggregate" /\ i \in 1 .. SigCount(call)
    /\ \A s \in 1 .. i : call.sigs[s].ok
    /\ acc = KeySum(call.sigs, i)

PairsSoFar ==
  pc \in {"av_loop", "pairing_check"} /\ call.op = "aggregate_verify" =>
    /\ ~CountBad /\ ~RepeatedMessage /\ call.sig.ok
    /\ i \in 0 .. KeyCount(call) /\ KeysRead(i)
    /\ pc = "pairing_check" => i = KeyCount(call)

ProofsSoFar ==
  pc \in {"fav_loop", "pairing_check"} /\ call.op = "fast_aggregate_verify" =>
    /\ KeyCount(call) > 0 /\ i \in 0 .. KeyCount(call) /\ ProofsRead(i)
    /\ i > 0 => P[1] = KeySum(call.pks, i)
    /\ pc = "pairing_check" =>
         i = KeyCount(call) /\ P[1] # Infinity /\ call.sig.ok

Passed ==
  /\ pc \in Inside => ~call.null
  /\ SingleChecked /\ SignaturesSoFar /\ PairsSoFar /\ ProofsSoFar

(* The code and the bytes are those promised, once the call is done.       *)
Due ==
  /\ pc # "done" => rc = "OK" /\ out = Untouched
  /\ pc = "done" => rc = PromisedRc(call) /\ out = PromisedOut(call)

DueInv == Due /\ Passed

-----------------------------------------------------------------------------
(* pairing_check answers what is promised: one key and one message,        *)
CheckRc == PairingCheckRc([P EXCEPT ![0] = Minus(G1Generator)], Q)

LEMMA SinglePromise ==
  ASSUME n = 1, 0 \in DOMAIN P, NEW pk, NEW m, NEW sig, NEW tag,
         KeyValidate(pk), IsPoint(pk.pt), sig.ok, IsPoint2(sig.pt),
         P[1] = pk.pt, Q[0] = sig.pt, Q[1] = HashToG2(m, tag)
  PROVE  CheckRc = CoreVerifyRc(pk, m, sig, tag)
<1>1. CheckRc = IF Q[0] = Times(P[1], m, tag) THEN "OK" ELSE "VERIFY"
  BY SingleCheckAnswers DEF CheckRc, KeyValidate
<1>2. CASE sig.pt = Times(pk.pt, m, tag)
  <2>1. CoreVerifyRc(pk, m, sig, tag) = "OK"  BY <1>2, CoreVerifyMeans
  <2>. QED  BY <1>1, <1>2, <2>1
<1>3. CASE sig.pt # Times(pk.pt, m, tag)
  <2>1. CoreVerifyRc(pk, m, sig, tag) = "VERIFY"  BY <1>3, CoreVerifyFirst
  <2>. QED  BY <1>1, <1>3, <2>1
<1>. QED  BY <1>2, <1>3

(* many keys with a message each,                                          *)
LEMMA AggregatePromise ==
  ASSUME NEW pks, NEW msgs, NEW sig, n \in Nat, n > 0, 0 \in DOMAIN P,
         Len(pks) = n, DOMAIN pks = 1 .. n, DOMAIN msgs = 1 .. n,
         ~TooMany(n), ~HasDuplicate(msgs), sig.ok, IsPoint2(sig.pt),
         \A s \in 1 .. n : KeyValidate(pks[s]) /\ IsPoint(pks[s].pt),
         Q[0] = sig.pt,
         \A s \in 1 .. n : /\ P[s] = pks[s].pt
                           /\ Q[s] = HashToG2(msgs[s], "SIG")
  PROVE  CheckRc = AggregateVerifyRc(pks, msgs, sig)
<1> DEFINE share == [s \in DOMAIN pks |-> Times(pks[s].pt, msgs[s], "SIG")]
           pts == [s \in 1 .. n |-> pks[s].pt]
           sum == SumOver(DOMAIN pks, share)
<1>1. \A s \in 1 .. n : /\ share[s] = Times(pks[s].pt, msgs[s], "SIG")
                        /\ pts[s] = pks[s].pt
  OBVIOUS
<1>2. \A j, k \in 1 .. n : msgs[j] = msgs[k] => j = k
  <2> SUFFICES ASSUME NEW j \in 1 .. n, NEW k \in 1 .. n,
                      msgs[j] = msgs[k], j < k
      PROVE  FALSE
    OBVIOUS
  <2>. QED  BY DEF HasDuplicate
<1>3. \A s \in 1 .. n : KeyValidate(pks[s]) /\ pks[s].pt # Infinity
  BY DEF KeyValidate
<1>. HIDE DEF share, pts
<1>4. SharesOf(share, pts, msgs, n, "SIG")
  BY <1>1, <1>2 DEF SharesOf, IsPoint
<1>5. 1 \in 1 .. n /\ pts[1] # Infinity  BY <1>1, <1>3
<1>6. sum = SumOver(1 .. n, share)  BY Zenon
<1>7. sum # Infinity  BY <1>4, <1>5, <1>6, SharesStay
<1>8. \A s \in 1 .. n : P[s] # Infinity /\ SlotIsShare(P[s], Q[s], share[s])
  BY <1>1, <1>3 DEF SlotIsShare
<1>9. CheckRc = IF Q[0] = sum THEN "OK" ELSE "VERIFY"
  BY <1>6, <1>7, <1>8, PairingCheckAnswers DEF CheckRc
<1>10. ~(Len(pks) = 0 \/ TooMany(Len(pks)))  OBVIOUS
<1>11. \A s \in DOMAIN pks : KeyValidate(pks[s])  OBVIOUS
<1>12. CASE sig.pt = sum
  <2>1. AggregateVerifyRc(pks, msgs, sig) = "OK"
    BY Zenon, <1>10, <1>11, <1>12, AggregateVerifyMeans DEF share
  <2>. QED  BY <1>9, <1>12, <2>1
<1>13. CASE sig.pt # sum
  <2>1. AggregateVerifyRc(pks, msgs, sig) = "VERIFY"
    BY Zenon, <1>10, <1>11, <1>13, AggregateVerifyFirst DEF ManyFirst, share
  <2>. QED  BY <1>9, <1>13, <2>1
<1>. QED  BY <1>12, <1>13

(* and many keys with one message.                                         *)
LEMMA FastPromise ==
  ASSUME NEW pks, NEW pops, NEW m, NEW sig, NEW len \in Nat, len > 0,
         n = 1, 0 \in DOMAIN P, Len(pks) = len, DOMAIN pks = 1 .. len,
         \A s \in 1 .. len : IsPoint(pks[s].pt),
         \A s \in 1 .. len : PopVerifyRc(pks[s], pops[s]) = "OK",
         sig.ok, IsPoint2(sig.pt),
         P[1] = KeySum(pks, len), P[1] # Infinity,
         Q[0] = sig.pt, Q[1] = HashToG2(m, "SIG")
  PROVE  CheckRc = FastAggregateVerifyRc(pks, pops, m, sig)
<1> DEFINE sum == KeySum(pks, len)
           V == FastAggregateVerifyRc(pks, pops, m, sig)
<1>1. IsPoint(sum)
  <2>1. PointsTo(pks, len)  BY DEF PointsTo
  <2>. QED  BY <2>1, KeySumIsPoint
<1>2. CheckRc = IF Q[0] = Times(P[1], m, "SIG") THEN "OK" ELSE "VERIFY"
  BY <1>1, SingleCheckAnswers DEF CheckRc
<1>3. CASE sig.pt = Times(sum, m, "SIG")
  <2>1. V = "OK"  BY <1>3, FastAggregateVerifyMeans
  <2>. QED  BY <1>2, <1>3, <2>1
<1>4. CASE sig.pt # Times(sum, m, "SIG")
  <2>1. FastFirst(V, pks, pops, m, sig, len)
    BY FastAggregateVerifyFirst
  <2>2. V = "VERIFY"  BY <1>4, <2>1 DEF FastFirst
  <2>. QED  BY <1>2, <1>4, <2>2
<1>. QED  BY <1>3, <1>4

(* Whichever function called it, pairing_check answers what is promised.   *)
LEMMA CheckKeepsThePromise ==
  ASSUME IInv, DueInv, pc = "pairing_check"
  PROVE  CheckRc = PromisedRc(call)
<1>1. /\ call \in Calls /\ ~call.null /\ WellFormed(call)
      /\ KeyCount(call) \in Nat /\ call.op \in Checking
  BY CallTyped DEF IInv, CallMatchesPc, DueInv, Passed, Inside, SingleChecked
<1>2. /\ 0 \in DOMAIN P /\ n = ClaimedPairs /\ Q[0] = ClaimedSignature
      /\ \A s \in 1 .. n :
           /\ Q[s] = ClaimedHash(s)
           /\ call.op # "fast_aggregate_verify" => P[s] = call.pks[s].pt
  <2>1. 0 \in DOMAIN P
    BY MaxNAssumption DEF IInv, FilledSoFar, Slots
  <2>. QED  BY <2>1 DEF IInv, SlotsHoldTheClaim
<1>3. CASE call.op = "verify"
  <2>1. /\ n = 1 /\ 1 \in 1 .. n /\ 1 \in DOMAIN call.pks
    BY <1>1, <1>2, <1>3 DEF ClaimedPairs, WellFormed
  <2>2. /\ Q[0] = call.sig.pt /\ Q[1] = HashToG2(call.msgs[1], "SIG")
        /\ P[1] = call.pks[1].pt
    BY <1>2, <1>3, <2>1 DEF ClaimedSignature, ClaimedHash
  <2>3. /\ KeyValidate(call.pks[1]) /\ call.sig.ok
        /\ IsPoint(call.pks[1].pt) /\ IsPoint2(call.sig.pt)
    BY <1>1, <1>3, <2>1 DEF DueInv, Passed, SingleChecked, WellFormed, Decoded
  <2>4. CheckRc = CoreVerifyRc(call.pks[1], call.msgs[1], call.sig, "SIG")
    BY <1>2, <2>1, <2>2, <2>3, SinglePromise
  <2>. QED  BY <1>1, <1>3, <2>4, Promises
<1>4. CASE call.op = "pop_verify"
  <2>1. /\ n = 1 /\ 1 \in 1 .. n /\ 1 \in DOMAIN call.pks
        /\ 1 \in DOMAIN call.pops
    BY <1>1, <1>2, <1>4 DEF ClaimedPairs, WellFormed
  <2>2. /\ Q[0] = call.pops[1].pt /\ Q[1] = HashToG2(call.pks[1].pt, "POP")
        /\ P[1] = call.pks[1].pt
    BY <1>2, <1>4, <2>1 DEF ClaimedSignature, ClaimedHash
  <2>3. /\ KeyValidate(call.pks[1]) /\ call.pops[1].ok
        /\ IsPoint(call.pks[1].pt) /\ IsPoint2(call.pops[1].pt)
    BY <1>1, <1>4, <2>1 DEF DueInv, Passed, SingleChecked, WellFormed, Decoded
  <2>4. CheckRc
          = CoreVerifyRc(call.pks[1], call.pks[1].pt, call.pops[1], "POP")
    BY <1>2, <2>1, <2>2, <2>3, SinglePromise
  <2>. QED  BY <1>1, <1>4, <2>4, Promises
<1>5. CASE call.op = "aggregate_verify"
  <2>1. /\ n = KeyCount(call) /\ n \in Nat /\ n > 0 /\ ~TooMany(n)
        /\ Len(call.pks) = n
        /\ DOMAIN call.pks = 1 .. n /\ DOMAIN call.msgs = 1 .. n
    BY <1>1, <1>2, <1>5 DEF DueInv, Passed, PairsSoFar, CountBad, ClaimedPairs,
       WellFormed, KeyCount, TooMany
  <2>2. ~HasDuplicate(call.msgs) /\ call.sig.ok
    BY <1>5 DEF DueInv, Passed, PairsSoFar, RepeatedMessage, HasDuplicate
  <2>3. \A s \in 1 .. n : KeyValidate(call.pks[s])
    BY <1>5, <2>1 DEF DueInv, Passed, PairsSoFar, KeysRead
  <2>4. \A s \in 1 .. n : IsPoint(call.pks[s].pt)
    BY <1>1, <2>1 DEF WellFormed, Decoded
  <2>5. IsPoint2(call.sig.pt)  BY <1>1 DEF WellFormed, Decoded
  <2>6. /\ Q[0] = call.sig.pt
        /\ \A s \in 1 .. n : /\ P[s] = call.pks[s].pt
                             /\ Q[s] = HashToG2(call.msgs[s], "SIG")
    BY <1>2, <1>5 DEF ClaimedSignature, ClaimedHash
  <2>7. CheckRc = AggregateVerifyRc(call.pks, call.msgs, call.sig)
    BY <1>2, <2>1, <2>2, <2>3, <2>4, <2>5, <2>6, AggregatePromise
  <2>. QED  BY <1>1, <1>5, <2>7, Promises
<1>6. CASE call.op = "fast_aggregate_verify"
  <2> DEFINE len == KeyCount(call)
  <2>1. /\ len \in Nat /\ len > 0 /\ n = 1 /\ i = len
        /\ Len(call.pks) = len /\ DOMAIN call.pks = 1 .. len
    BY <1>1, <1>2, <1>6 DEF DueInv, Passed, ProofsSoFar, ClaimedPairs,
       WellFormed, KeyCount
  <2>2. \A s \in 1 .. len : IsPoint(call.pks[s].pt)
    BY <1>1, <2>1 DEF WellFormed, Decoded
  <2>3. \A s \in 1 .. len : PopVerifyRc(call.pks[s], call.pops[s]) = "OK"
    BY <1>6, <2>1 DEF DueInv, Passed, ProofsSoFar, ProofsRead
  <2>4. /\ call.sig.ok /\ P[1] = KeySum(call.pks, len) /\ P[1] # Infinity
    BY <1>6, <2>1 DEF DueInv, Passed, ProofsSoFar
  <2>5. IsPoint2(call.sig.pt)  BY <1>1 DEF WellFormed, Decoded
  <2>6. Q[0] = call.sig.pt /\ Q[1] = HashToG2(call.msgs[1], "SIG")
    BY <1>2, <1>6, <2>1 DEF ClaimedSignature, ClaimedHash
  <2>. HIDE DEF len
  <2>7. CheckRc
          = FastAggregateVerifyRc(call.pks, call.pops, call.msgs[1], call.sig)
    BY <1>2, <2>1, <2>2, <2>3, <2>4, <2>5, <2>6, FastPromise
  <2>. QED  BY <1>1, <1>6, <2>7, Promises
<1>. QED  BY <1>1, <1>3, <1>4, <1>5, <1>6 DEF Checking

-----------------------------------------------------------------------------
(* A call that returns what is promised is done with it.                   *)
LEMMA YieldsDue ==
  ASSUME NEW code, Return(code), code = PromisedRc(call),
         out' = PromisedOut(call)
  PROVE  DueInv'
BY DEF Return, DueInv, Due, Passed, Inside, SingleChecked, SignaturesSoFar,
       PairsSoFar, ProofsSoFar

(* A call that refuses, with the code promised and nothing written.        *)
LEMMA RefusesDue ==
  ASSUME DueInv, pc # "done", NEW code, Return(code),
         code = PromisedRc(call), code # "OK", UNCHANGED out
  PROVE  DueInv'
<1>1. out' = PromisedOut(call)  BY PromisedBytes DEF DueInv, Due
<1>. QED  BY <1>1, YieldsDue

(* What a verification answers, it leaves the buffer alone.                *)
LEMMA AnswersDue ==
  ASSUME DueInv, pc # "done", NEW code, Return(code),
         code = PromisedRc(call), UNCHANGED out,
         call.op \notin {"sk_to_pk", "sign", "pop_prove", "aggregate"}
  PROVE  DueInv'
<1>1. out' = PromisedOut(call)  BY PromisedBytes DEF DueInv, Due
<1>. QED  BY <1>1, YieldsDue

(* Nothing is due at first.                                                *)
LEMMA InitDueInv == Init => DueInv
BY DEF Init, DueInv, Due, Passed, Inside, SingleChecked, SignaturesSoFar,
       PairsSoFar, ProofsSoFar

(* A null argument is refused before anything else.                        *)
LEMMA NullDue ==
  ASSUME DueInv, call \in Calls, pc # "done", call.null, Return("INVALID"),
         UNCHANGED out
  PROVE  DueInv'
<1>1. PromisedRc(call) = "INVALID"  BY Promises
<1>. QED  BY <1>1, RefusesDue

(* core_verify.                                                            *)
LEMMA CoreVerifyDue ==
  ASSUME IInv, DueInv, pc = call.op, call.op \in {"verify", "pop_verify"},
         call \in Calls, NEW pk, NEW m, NEW sig, NEW tag, pk = call.pks[1],
         ~call.null => PromisedRc(call) = CoreVerifyRc(pk, m, sig, tag),
         call.op = "verify" => sig = call.sig,
         call.op = "pop_verify" => sig = call.pops[1],
         ~call.null => sig.ok \in BOOLEAN,
         CoreVerify(pk, m, sig, tag), UNCHANGED out
  PROVE  DueInv'
<1>0. pc # "done"  OBVIOUS
<1>1. CASE NullArgument /\ Return("INVALID")
  BY <1>0, <1>1, NullDue DEF NullArgument
<1>2. CASE ~NullArgument /\ ReadPkFails(pk) /\ Return("BAD_KEY")
  <2>1. PromisedRc(call) = "BAD_KEY"
    BY <1>2, CoreVerifyFirst DEF NullArgument, ReadPkFails, KeyValidate
  <2>. QED  BY <1>0, <1>2, <2>1, RefusesDue
<1>3. CASE /\ ~NullArgument /\ ~ReadPkFails(pk) /\ ReadSigFails(sig)
           /\ Return("BAD_SIG")
  <2>1. PromisedRc(call) = "BAD_SIG"
    BY <1>3, CoreVerifyFirst DEF NullArgument, ReadPkFails, ReadSigFails,
       KeyValidate
  <2>. QED  BY <1>0, <1>3, <2>1, RefusesDue
<1>4. CASE /\ ~NullArgument /\ ~ReadPkFails(pk) /\ ~ReadSigFails(sig)
           /\ pc' = "pairing_check" /\ UNCHANGED <<call, rc>>
  <2>1. Due'  BY <1>0, <1>4 DEF DueInv, Due
  <2>2. KeyValidate(pk) /\ sig.ok
    BY <1>4 DEF ReadPkFails, ReadSigFails, KeyValidate, NullArgument
  <2>3. Passed'
    BY <1>4, <2>2 DEF Passed, Inside, Checking, SingleChecked,
       SignaturesSoFar, PairsSoFar, ProofsSoFar, NullArgument
  <2>. QED  BY <2>1, <2>3 DEF DueInv
<1>. QED  BY <1>1, <1>2, <1>3, <1>4 DEF CoreVerify

(* elips_bls_aggregate.                                                    *)
LEMMA AggregateDue ==
  ASSUME IInv, DueInv, AggregateFirst \/ AggregateNext \/ AggregateWrite
  PROVE  DueInv'
<1> DEFINE list == call.sigs
           k == SigCount(call)
<1>1. /\ call \in Calls /\ call.op = "aggregate"
      /\ pc \in {"aggregate", "aggregate_loop"}
  BY DEF AggregateFirst, AggregateNext, AggregateWrite, IInv, CallMatchesPc,
     Operations, DueInv, Passed, SignaturesSoFar
<1>2. k \in Nat /\ (~call.null => WellFormed(call))  BY <1>1, CallTyped
<1>3. ASSUME ~call.null
      PROVE  /\ PromisedRc(call) = AggregateRc(list)
             /\ DOMAIN list = 1 .. k /\ Len(list) = k
             /\ \A s \in 1 .. k : IsPoint(list[s].pt) /\ list[s].ok \in BOOLEAN
  BY <1>1, <1>2, <1>3, Promises DEF WellFormed, Decoded, IsPoint2, SigCount
<1>4. ASSUME NEW j \in 1 .. k, ~call.null, ReadSigFails(list[j]),
             Return("BAD_SIG"), UNCHANGED out
      PROVE  DueInv'
  <2>1. Len(list) # 0 /\ j \in DOMAIN list /\ ~list[j].ok
    BY <1>2, <1>3, <1>4 DEF ReadSigFails
  <2>2. PromisedRc(call) = "BAD_SIG"  BY <1>3, <1>4, <2>1, AggregateCodes
  <2>. QED  BY <1>1, <1>4, <2>2, RefusesDue
<1>5. ASSUME pc' = "aggregate_loop", UNCHANGED <<call, rc, out>>, ~call.null,
             i' \in 1 .. k, \A s \in 1 .. i' : list[s].ok,
             acc' = KeySum(list, i')
      PROVE  DueInv'
  BY <1>1, <1>5 DEF DueInv, Due, Passed, Inside, SingleChecked,
     SignaturesSoFar, PairsSoFar, ProofsSoFar
<1>6. CASE AggregateFirst
  <2>1. UNCHANGED out  BY <1>6 DEF AggregateFirst
  <2>2. CASE call.null /\ Return("INVALID")  BY <1>1, <2>1, <2>2, NullDue
  <2>3. CASE ~call.null /\ k = 0 /\ Return("INVALID")
    <3>1. PromisedRc(call) = "INVALID"  BY <1>3, <2>3, AggregateCodes
    <3>. QED  BY <1>1, <2>1, <2>3, <3>1, RefusesDue
  <2>4. CASE /\ ~call.null /\ k > 0 /\ ReadSigFails(list[1])
             /\ Return("BAD_SIG")
    <3>1. 1 \in 1 .. k  BY <1>2, <2>4
    <3>. QED  BY <1>4, <2>1, <2>4, <3>1
  <2>5. CASE /\ ~call.null /\ k > 0 /\ ~ReadSigFails(list[1])
             /\ acc' = list[1].pt /\ i' = 1 /\ pc' = "aggregate_loop"
             /\ UNCHANGED <<call, rc>>
    <3>1. 1 \in 1 .. k  BY <1>2, <2>5
    <3>2. PointsTo(list, 1)  BY <1>3, <2>5, <3>1 DEF PointsTo
    <3>3. acc' = KeySum(list, i')  BY <2>5, <3>2, KeySumFirst
    <3>4. \A s \in 1 .. i' : list[s].ok  BY <2>5 DEF ReadSigFails
    <3>. QED  BY <1>5, <2>1, <2>5, <3>1, <3>3, <3>4
  <2>. QED
    BY <1>6, <1>2, <2>2, <2>3, <2>4, <2>5 DEF AggregateFirst, NullArgument
<1>7. CASE AggregateNext
  <2>1. /\ ~call.null /\ i \in 1 .. k /\ \A s \in 1 .. i : list[s].ok
        /\ acc = KeySum(list, i)
    BY <1>7 DEF AggregateNext, DueInv, Passed, Inside, SignaturesSoFar
  <2>2. UNCHANGED out /\ i + 1 \in 1 .. k /\ pc = "aggregate_loop"
    BY <1>2, <1>7, <2>1 DEF AggregateNext
  <2>3. CASE ReadSigFails(list[i + 1]) /\ Return("BAD_SIG")
    BY <1>4, <2>1, <2>2, <2>3
  <2>4. CASE /\ ~ReadSigFails(list[i + 1])
             /\ acc' = Plus(acc, list[i + 1].pt) /\ i' = i + 1
             /\ UNCHANGED <<pc, call, rc>>
    <3>1. i \in Nat /\ PointsTo(list, i + 1)
      BY <1>2, <1>3, <2>1, <2>2 DEF PointsTo
    <3>2. acc' = KeySum(list, i')  BY <2>1, <2>4, <3>1, KeySumNext
    <3>3. \A s \in 1 .. i' : list[s].ok
      BY <2>1, <2>4, <3>1 DEF ReadSigFails
    <3>. QED  BY <1>5, <2>1, <2>2, <2>4, <3>2, <3>3
  <2>. QED  BY <1>7, <2>3, <2>4 DEF AggregateNext
<1>8. CASE AggregateWrite
  <2>1. /\ ~call.null /\ i = k /\ i \in 1 .. k /\ \A s \in 1 .. i : list[s].ok
        /\ acc = KeySum(list, i)
    BY <1>8 DEF AggregateWrite, DueInv, Passed, Inside, SignaturesSoFar
  <2>2. PromisedRc(call) = "OK"
    <3>1. Len(list) # 0 /\ \A s \in DOMAIN list : list[s].ok
      BY <1>2, <1>3, <2>1
    <3>. QED  BY <1>3, <2>1, <3>1, AggregateCodes
  <2>3. SigSum(list) = acc
    BY Zenon, <1>3, <2>1 DEF SigSum, KeySum
  <2>4. out' = PromisedOut(call)
    BY <1>1, <1>8, <2>2, <2>3, PromisedBytes DEF AggregateWrite
  <2>. QED  BY <1>8, <2>2, <2>4, YieldsDue DEF AggregateWrite
<1>. QED  BY <1>6, <1>7, <1>8

(* elips_bls_aggregate_verify.                                             *)
LEMMA AggregateVerifyDue ==
  ASSUME IInv, DueInv,
         AggregateVerifyStart \/ AggregateVerifyPair \/ AggregateVerifyEnd
  PROVE  DueInv'
<1> DEFINE pks == call.pks
           k == KeyCount(call)
           rcs == AggregateVerifyRc(pks, call.msgs, call.sig)
           count == ~(Len(pks) = 0 \/ TooMany(Len(pks)))
           keys == \A s \in DOMAIN pks : KeyValidate(pks[s])
<1>1. /\ call \in Calls /\ call.op = "aggregate_verify" /\ UNCHANGED out
      /\ pc \in {"aggregate_verify", "av_loop"}
  BY DEF AggregateVerifyStart, AggregateVerifyPair, AggregateVerifyEnd,
     IInv, CallMatchesPc, Operations
<1>2. k \in Nat /\ (~call.null => WellFormed(call))  BY <1>1, CallTyped
<1>3. ASSUME ~call.null
      PROVE  /\ PromisedRc(call) = rcs
             /\ DOMAIN pks = 1 .. k /\ Len(pks) = k
             /\ DOMAIN call.msgs = 1 .. k
  BY <1>1, <1>2, <1>3, Promises DEF WellFormed, KeyCount
<1>4. /\ count <=> ~CountBad
      /\ HasDuplicate(call.msgs) <=> RepeatedMessage
  BY DEF CountBad, TooMany, KeyCount, HasDuplicate, RepeatedMessage
<1>5. ASSUME NEW code, ~call.null, rcs = code, code # "OK", Return(code)
      PROVE  DueInv'
  BY <1>1, <1>3, <1>5, RefusesDue
<1>6. /\ ~count => rcs = "INVALID"
      /\ count /\ HasDuplicate(call.msgs) => rcs = "DUP_MESSAGE"
      /\ count /\ ~HasDuplicate(call.msgs) /\ ~call.sig.ok => rcs = "BAD_SIG"
      /\ count /\ ~HasDuplicate(call.msgs) /\ call.sig.ok /\ ~keys
           => rcs = "BAD_KEY"
  <2>1. ManyFirst(rcs, pks, call.msgs, call.sig)  BY AggregateVerifyFirst
  <2>. HIDE DEF rcs
  <2>. QED  BY <2>1 DEF ManyFirst
<1>. HIDE DEF rcs, count
<1>7. ASSUME pc' \in {"av_loop", "pairing_check"}, UNCHANGED <<call, rc>>,
             ~call.null, ~CountBad, ~RepeatedMessage, call.sig.ok,
             i' \in 0 .. k, \A s \in 1 .. i' : KeyValidate(pks[s]),
             pc' = "pairing_check" => i' = k
      PROVE  DueInv'
  BY <1>1, <1>7 DEF DueInv, Due, Passed, Inside, Checking, SingleChecked,
     SignaturesSoFar, PairsSoFar, ProofsSoFar, KeysRead, CountBad,
     RepeatedMessage
<1>8. CASE AggregateVerifyStart
  <2>1. CASE call.null /\ Return("INVALID")  BY <1>1, <2>1, NullDue
  <2>2. CASE ~call.null /\ CountBad /\ Return("INVALID")
    BY <1>4, <1>5, <1>6, <2>2
  <2>3. CASE /\ ~call.null /\ ~CountBad /\ RepeatedMessage
             /\ Return("DUP_MESSAGE")
    BY <1>4, <1>5, <1>6, <2>3
  <2>4. CASE /\ ~call.null /\ ~CountBad /\ ~RepeatedMessage
             /\ ReadSigFails(call.sig) /\ Return("BAD_SIG")
    BY <1>4, <1>5, <1>6, <2>4 DEF ReadSigFails
  <2>5. CASE /\ ~call.null /\ ~CountBad /\ ~RepeatedMessage
             /\ ~ReadSigFails(call.sig)
             /\ pc' = "av_loop" /\ UNCHANGED <<call, i, rc>>
    <3>1. i = 0
      BY <1>8 DEF AggregateVerifyStart, IInv, FilledSoFar, Operations
    <3>. QED  BY <1>2, <1>7, <2>5, <3>1 DEF ReadSigFails
  <2>. QED
    BY <1>8, <2>1, <2>2, <2>3, <2>4, <2>5
    DEF AggregateVerifyStart, NullArgument
<1>9. CASE AggregateVerifyPair \/ AggregateVerifyEnd
  <2>1. pc = "av_loop"
    BY <1>9 DEF AggregateVerifyPair, AggregateVerifyEnd
  <2>2. /\ ~call.null /\ ~CountBad /\ ~RepeatedMessage /\ call.sig.ok
        /\ i \in 0 .. k /\ \A s \in 1 .. i : KeyValidate(pks[s])
    BY <1>1, <2>1 DEF DueInv, Passed, Inside, PairsSoFar, KeysRead
  <2>3. CASE i < k /\ ReadPkFails(pks[i + 1]) /\ Return("BAD_KEY")
    <3>1. i + 1 \in DOMAIN pks /\ ~KeyValidate(pks[i + 1])
      BY <1>2, <1>3, <2>2, <2>3 DEF ReadPkFails, KeyValidate
    <3>2. ~keys  BY <3>1
    <3>. QED  BY <1>4, <1>5, <1>6, <2>2, <2>3, <3>2
  <2>4. CASE /\ i < k /\ ~ReadPkFails(pks[i + 1])
             /\ i' = i + 1 /\ UNCHANGED <<pc, call, rc>>
    <3>1. i' \in 0 .. k  BY <1>2, <2>2, <2>4
    <3>2. \A s \in 1 .. i' : KeyValidate(pks[s])
      BY <1>2, <2>2, <2>4 DEF ReadPkFails, KeyValidate
    <3>. QED  BY <1>7, <2>1, <2>2, <2>4, <3>1, <3>2
  <2>5. CASE AggregateVerifyEnd
    BY <1>2, <1>7, <2>2, <2>5 DEF AggregateVerifyEnd
  <2>. QED  BY <1>9, <2>3, <2>4, <2>5 DEF AggregateVerifyPair
<1>. QED  BY <1>8, <1>9

(* The code of one key and its proof is that of the proof, which already   *)
(* refuses a bad key.                                                      *)
LEMMA KeyWithProofCodes ==
  ASSUME NEW pk, NEW pop
  PROVE  KeyWithProofRc(pk, pop) = PopVerifyRc(pk, pop)
<1> DEFINE v == PopVerifyRc(pk, pop)
           p == v # "OK"
           q == ReadPkFails(pk)
           checks == << <<p, v>>, <<q, "BAD_KEY">> >>
<1>1. KeyWithProofRc(pk, pop) = Verdict(checks)  BY Zenon DEF KeyWithProofRc
<1>2. ~p => ~q
  <2> SUFFICES ASSUME v = "OK" PROVE ~q
    OBVIOUS
  <2>1. CoreVerifyRc(pk, pk.pt, pop, "POP") = "OK"  BY DEF PopVerifyRc
  <2>. QED  BY <2>1, CoreVerifyMeans DEF KeyValidate, ReadPkFails
<1>3. p <=> v # "OK"  OBVIOUS
<1>. HIDE DEF p, q, v
<1>4. p => Answers(checks, v)  BY Zenon, FirstOfTwo
<1>5. ~p /\ ~q => Verdict(checks) = "OK"  BY Zenon, NothingFailed
<1>. HIDE DEF checks
<1>6. p => Verdict(checks) = v  BY Zenon, <1>4 DEF Answers
<1>7. Verdict(checks) = v  BY Zenon, <1>2, <1>3, <1>5, <1>6
<1>. QED  BY <1>1, <1>7 DEF v

(* elips_bls_fast_aggregate_verify.                                        *)
LEMMA FastAggregateDue ==
  ASSUME IInv, DueInv,
         FastAggregateStart \/ FastAggregateKey \/ FastAggregateEnd
  PROVE  DueInv'
<1> DEFINE pks == call.pks
           k == KeyCount(call)
           prc(s) == PopVerifyRc(pks[s], call.pops[s])
           rcs == FastAggregateVerifyRc(pks, call.pops, call.msgs[1], call.sig)
<1>1. /\ call \in Calls /\ call.op = "fast_aggregate_verify" /\ UNCHANGED out
      /\ pc \in {"fast_aggregate_verify", "fav_loop"}
  BY DEF FastAggregateStart, FastAggregateKey, FastAggregateEnd,
     IInv, CallMatchesPc, Operations
<1>2. k \in Nat /\ (~call.null => WellFormed(call))  BY <1>1, CallTyped
<1>3. ASSUME ~call.null
      PROVE  /\ PromisedRc(call) = rcs
             /\ DOMAIN pks = 1 .. k /\ Len(pks) = k
             /\ \A s \in 1 .. k : IsPoint(pks[s].pt)
  BY <1>1, <1>2, <1>3, Promises DEF WellFormed, KeyCount, Decoded
<1>4. ASSUME ~call.null
      PROVE  FastFirst(rcs, pks, call.pops, call.msgs[1], call.sig, k)
  BY <1>2, <1>3, <1>4, FastAggregateVerifyFirst
<1>. HIDE DEF rcs
<1>5. ASSUME NEW code, ~call.null, rcs = code, code # "OK", Return(code)
      PROVE  DueInv'
  BY <1>1, <1>3, <1>5, RefusesDue
<1>6. ASSUME pc' \in {"fav_loop", "pairing_check"}, UNCHANGED <<call, rc>>,
             ~call.null, k > 0, i' \in 0 .. k,
             \A s \in 1 .. i' : prc(s) = "OK",
             i' > 0 => P'[1] = KeySum(pks, i'),
             pc' = "pairing_check" =>
               i' = k /\ P'[1] # Infinity /\ call.sig.ok
      PROVE  DueInv'
  BY <1>1, <1>6 DEF DueInv, Due, Passed, Inside, Checking, SingleChecked,
     SignaturesSoFar, PairsSoFar, ProofsSoFar, ProofsRead
<1>7. CASE FastAggregateStart
  <2>1. CASE call.null /\ Return("INVALID")  BY <1>1, <2>1, NullDue
  <2>2. CASE ~call.null /\ k = 0 /\ Return("INVALID")
    <3>1. rcs = "INVALID"  BY <1>4, <2>2 DEF FastFirst
    <3>. QED  BY <1>5, <2>2, <3>1
  <2>3. CASE /\ ~call.null /\ k > 0 /\ pc' = "fav_loop"
             /\ UNCHANGED <<call, i, rc>>
    <3>1. i = 0
      BY <1>7 DEF FastAggregateStart, IInv, FilledSoFar, Operations
    <3>. QED  BY <1>2, <1>6, <2>3, <3>1
  <2>. QED
    BY <1>2, <1>7, <2>1, <2>2, <2>3 DEF FastAggregateStart, NullArgument, frame
<1>8. CASE FastAggregateKey \/ FastAggregateEnd
  <2>1. pc = "fav_loop"
    BY <1>8 DEF FastAggregateKey, FastAggregateEnd
  <2>2. /\ ~call.null /\ k > 0 /\ i \in 0 .. k
        /\ \A s \in 1 .. i : prc(s) = "OK"
        /\ i > 0 => P[1] = KeySum(pks, i)
    BY <1>1, <2>1 DEF DueInv, Passed, Inside, ProofsSoFar, ProofsRead
  <2>3. 1 \in DOMAIN P  BY MaxNAssumption DEF IInv, FilledSoFar, Slots
  <2>4. CASE FastAggregateKey
    <3> DEFINE j == i + 1
    <3>1. i < k /\ j \in 1 .. k /\ i \in Nat
      BY <1>2, <2>2, <2>4 DEF FastAggregateKey
    <3>2. KeyWithProofRc(pks[j], call.pops[j]) = prc(j)
      BY KeyWithProofCodes
    <3>3. CASE prc(j) # "OK" /\ Return(prc(j))
      <4>1. \A s \in 1 .. j - 1 : prc(s) = "OK"  BY <2>2, <3>1
      <4>2. rcs = prc(j)  BY <1>4, <2>2, <3>1, <3>3, <4>1 DEF FastFirst
      <4>. QED  BY <1>5, <2>2, <3>3, <4>2
    <3>4. CASE /\ prc(j) = "OK" /\ i' = j /\ UNCHANGED <<pc, call, rc>>
               /\ P' = [P EXCEPT ![1] = IF i = 0 THEN pks[j].pt
                                        ELSE Plus(@, pks[j].pt)]
      <4>1. P'[1] = IF i = 0 THEN pks[j].pt ELSE Plus(P[1], pks[j].pt)
        BY <2>3, <3>4
      <4>2. PointsTo(pks, j)  BY <1>3, <2>2, <3>1 DEF PointsTo
      <4>3. CASE i = 0
        <5>1. j = 1  BY <4>3
        <5>. QED
          <6>1. P'[1] = KeySum(pks, i')
            BY <3>4, <4>1, <4>2, <4>3, <5>1, KeySumFirst
          <6>2. i' \in 0 .. k  BY <3>1, <3>4
          <6>3. \A s \in 1 .. i' : prc(s) = "OK"  BY <3>4, <5>1
          <6>. QED  BY <1>6, <2>1, <2>2, <3>4, <6>1, <6>2, <6>3
      <4>4. CASE i > 0
        <5>1. P'[1] = KeySum(pks, i')
          BY <2>2, <3>1, <3>4, <4>1, <4>2, <4>4, KeySumNext
        <5>2. i' \in 0 .. k  BY <3>1, <3>4
        <5>3. \A s \in 1 .. i' : prc(s) = "OK"
          BY <2>2, <3>1, <3>4
        <5>. QED  BY <1>6, <2>1, <2>2, <3>4, <5>1, <5>2, <5>3
      <4>. QED  BY <3>1, <4>3, <4>4
    <3>. QED  BY <2>4, <3>2, <3>3, <3>4 DEF FastAggregateKey
  <2>5. CASE FastAggregateEnd
    <3>1. i = k /\ P[1] = KeySum(pks, k) /\ k # 0
      BY <1>2, <2>2, <2>5 DEF FastAggregateEnd
    <3>2. k # 0 /\ \A s \in 1 .. k : prc(s) = "OK"  BY <2>2, <3>1
    <3>3. CASE P[1] = Infinity /\ Return("BAD_KEY")
      <4>1. rcs = "BAD_KEY"  BY <1>4, <2>2, <3>1, <3>2, <3>3 DEF FastFirst
      <4>. QED  BY <1>5, <2>2, <3>3, <4>1
    <3>4. CASE P[1] # Infinity /\ ReadSigFails(call.sig) /\ Return("BAD_SIG")
      <4>1. rcs = "BAD_SIG"
        BY <1>4, <2>2, <3>1, <3>2, <3>4 DEF FastFirst, ReadSigFails
      <4>. QED  BY <1>5, <2>2, <3>4, <4>1
    <3>5. CASE /\ P[1] # Infinity /\ ~ReadSigFails(call.sig)
               /\ pc' = "pairing_check" /\ UNCHANGED <<call, i, P, rc>>
      BY <1>6, <2>2, <3>1, <3>2, <3>5 DEF ReadSigFails
    <3>. QED  BY <2>5, <3>3, <3>4, <3>5 DEF FastAggregateEnd
  <2>. QED  BY <1>8, <2>4, <2>5
<1>. QED  BY <1>7, <1>8

(* The calls that make something, and pk_validate: one step each.          *)
LEMMA SecretDue ==
  ASSUME IInv, DueInv, SkToPk \/ Sign \/ PopProve
  PROVE  DueInv'
<1> DEFINE sk == call.sk
<1>1. /\ call \in Calls /\ pc = call.op
      /\ call.op \in {"sk_to_pk", "sign", "pop_prove"}
  BY DEF SkToPk, Sign, PopProve, IInv, CallMatchesPc, Operations
<1>2. ~call.null =>
        PromisedRc(call) = IF SkToLimbsFails(sk) THEN "INVALID" ELSE "OK"
  BY <1>1, Promises, SecretCodes
<1>3. CASE call.null /\ Return("INVALID") /\ UNCHANGED out
  BY <1>1, <1>3, NullDue
<1>4. CASE /\ ~call.null /\ SkToLimbsFails(sk)
           /\ Return("INVALID") /\ UNCHANGED out
  BY <1>1, <1>2, <1>4, RefusesDue
<1>5. ASSUME ~call.null, ~SkToLimbsFails(sk), Return("OK"),
             out' = PromisedOut(call)
      PROVE  DueInv'
  BY <1>2, <1>5, YieldsDue
<1>6. SkToPkRc(sk) = IF SkToLimbsFails(sk) THEN "INVALID" ELSE "OK"
  BY SecretCodes
<1>7. CASE SkToPk
  <2>1. CASE /\ ~call.null /\ SkToPkRc(sk) = "OK"
             /\ out' = Encode(MulG1(sk.pt)) /\ Return("OK")
    <3>1. call.op = "sk_to_pk"  BY <1>1, <1>7 DEF SkToPk
    <3>2. ~SkToLimbsFails(sk) /\ PromisedRc(call) = "OK"  BY <1>2, <1>6, <2>1
    <3>3. out' = PromisedOut(call)  BY <2>1, <3>1, <3>2, PromisedBytes
    <3>. QED  BY <1>5, <2>1, <3>2, <3>3
  <2>2. CASE /\ ~call.null /\ SkToPkRc(sk) # "OK"
             /\ Return(SkToPkRc(sk)) /\ UNCHANGED out
    BY <1>4, <1>6, <2>2
  <2>. QED  BY <1>3, <1>7, <2>1, <2>2 DEF SkToPk, NullArgument
<1>8. CASE Sign
  <2>1. CASE /\ ~call.null /\ ~SkToLimbsFails(sk) /\ Return("OK")
             /\ out' = Encode(Times(sk.pt, call.msgs[1], "SIG"))
    <3>1. call.op = "sign"  BY <1>1, <1>8 DEF Sign
    <3>2. PromisedRc(call) = "OK"  BY <1>2, <2>1
    <3>3. out' = PromisedOut(call)  BY <2>1, <3>1, <3>2, PromisedBytes
    <3>. QED  BY <1>5, <2>1, <3>3
  <2>. QED  BY <1>3, <1>4, <1>8, <2>1 DEF Sign, CoreSign, NullArgument
<1>9. CASE PopProve
  <2>1. CASE /\ ~call.null /\ ~SkToLimbsFails(sk) /\ Return("OK")
             /\ out' = Encode(Times(sk.pt, MulG1(sk.pt), "POP"))
    <3>1. call.op = "pop_prove"  BY <1>1, <1>9 DEF PopProve
    <3>2. PromisedRc(call) = "OK"  BY <1>2, <2>1
    <3>3. out' = PromisedOut(call)  BY <2>1, <3>1, <3>2, PromisedBytes
    <3>. QED  BY <1>5, <2>1, <3>3
  <2>2. CASE /\ ~call.null /\ DerivedFails(sk)
             /\ Return(SkToPkRc(sk)) /\ UNCHANGED out
    BY <1>4, <1>6, <2>2 DEF DerivedFails
  <2>. QED  BY <1>3, <1>4, <1>9, <2>1, <2>2
       DEF PopProve, CoreSign, NullArgument
<1>. QED  BY <1>7, <1>8, <1>9

(* elips_bls_pk_validate.                                                  *)
LEMMA PkValidateDue ==
  ASSUME IInv, DueInv, PkValidate
  PROVE  DueInv'
<1>1. /\ call \in Calls /\ pc = call.op /\ call.op = "pk_validate"
      /\ UNCHANGED out
  BY DEF PkValidate, IInv, CallMatchesPc, Operations
<1>2. CASE call.null /\ Return("INVALID")  BY <1>1, <1>2, NullDue
<1>3. CASE /\ ~call.null
           /\ Return(IF ReadPkFails(call.pks[1]) THEN "BAD_KEY" ELSE "OK")
  <2> DEFINE code == IF ReadPkFails(call.pks[1]) THEN "BAD_KEY" ELSE "OK"
  <2>1. PromisedRc(call) = code
    BY <1>1, <1>3, Promises, KeyValidateCodes
  <2>. QED  BY <1>1, <1>3, <2>1, AnswersDue
<1>. QED  BY <1>2, <1>3 DEF PkValidate, NullArgument

(* elips_bls_verify and elips_bls_pop_verify.                              *)
LEMMA VerifyDue ==
  ASSUME IInv, DueInv, Verify \/ PopVerify
  PROVE  DueInv'
<1>1. call \in Calls /\ pc = call.op /\ UNCHANGED out
  BY DEF Verify, PopVerify, IInv, CallMatchesPc, Operations
<1>2. ~call.null => WellFormed(call) /\ KeyCount(call) \in Nat
  BY <1>1, CallTyped
<1>3. CASE Verify
  <2>1. call.op = "verify"  BY <1>1, <1>3 DEF Verify
  <2>2. ~call.null => PromisedRc(call)
          = CoreVerifyRc(call.pks[1], call.msgs[1], call.sig, "SIG")
    BY <1>1, <2>1, Promises
  <2>3. ~call.null => call.sig.ok \in BOOLEAN
    BY <1>2 DEF WellFormed, Decoded
  <2>4. CoreVerify(call.pks[1], call.msgs[1], call.sig, "SIG")
    BY <1>3 DEF Verify
  <2>. QED  BY <1>1, <2>1, <2>2, <2>3, <2>4, CoreVerifyDue
<1>4. CASE PopVerify
  <2>1. call.op = "pop_verify"  BY <1>1, <1>4 DEF PopVerify
  <2>2. ~call.null => PromisedRc(call)
          = CoreVerifyRc(call.pks[1], call.pks[1].pt, call.pops[1], "POP")
    BY <1>1, <2>1, Promises
  <2>3. ~call.null => call.pops[1].ok \in BOOLEAN
    BY <1>2, <2>1 DEF WellFormed, Decoded
  <2>4. CoreVerify(call.pks[1], call.pks[1].pt, call.pops[1], "POP")
    BY <1>4 DEF PopVerify
  <2>. QED  BY <1>1, <2>1, <2>2, <2>3, <2>4, CoreVerifyDue
<1>. QED  BY <1>3, <1>4

(* Every action keeps what is due.                                         *)
LEMMA StepDueInv == IInv /\ DueInv /\ [Next]_vars => DueInv'
<1> SUFFICES ASSUME IInv, DueInv, [Next]_vars PROVE DueInv'
  OBVIOUS
<1>1. CASE Invoke
  BY <1>1, CallTyped DEF Invoke, DueInv, Due, Passed, Inside, SingleChecked,
     SignaturesSoFar, PairsSoFar, ProofsSoFar, Operations
<1>2. CASE Collect
  BY <1>2 DEF Collect, DueInv, Due, Passed, Inside, SingleChecked,
     SignaturesSoFar, PairsSoFar, ProofsSoFar
<1>3. CASE PairingCheck
  <2>1. Return(CheckRc) /\ UNCHANGED out /\ pc = "pairing_check"
    BY <1>3 DEF PairingCheck, CheckRc
  <2>2. CheckRc = PromisedRc(call)  BY <2>1, CheckKeepsThePromise
  <2>3. call.op \notin {"sk_to_pk", "sign", "pop_prove", "aggregate"}
    BY <2>1 DEF DueInv, Passed, SingleChecked, Checking
  <2>. QED  BY <2>1, <2>2, <2>3, AnswersDue
<1>4. CASE SkToPk \/ Sign \/ PopProve  BY <1>4, SecretDue
<1>5. CASE PkValidate  BY <1>5, PkValidateDue
<1>6. CASE Verify \/ PopVerify  BY <1>6, VerifyDue
<1>7. CASE AggregateFirst \/ AggregateNext \/ AggregateWrite
  BY <1>7, AggregateDue
<1>8. CASE AggregateVerifyStart \/ AggregateVerifyPair \/ AggregateVerifyEnd
  BY <1>8, AggregateVerifyDue
<1>9. CASE FastAggregateStart \/ FastAggregateKey \/ FastAggregateEnd
  BY <1>9, FastAggregateDue
<1>10. CASE UNCHANGED vars
  BY <1>10 DEF vars, DueInv, Due, Passed, Inside, SingleChecked,
     SignaturesSoFar, PairsSoFar, ProofsSoFar, KeysRead, ProofsRead,
     CountBad, RepeatedMessage
<1>. QED
  BY <1>1, <1>2, <1>3, <1>4, <1>5, <1>6, <1>7, <1>8, <1>9, <1>10
  DEF Next, Work

(* Every call returns the code and the bytes that bls.h promises of it,    *)
(* for every set of well-formed calls, every group order and every MAXN.   *)
THEOREM BlsApiKeepsPromises == Spec => []DueInv
BY InitDueInv, StepDueInv, BlsApiInductive, PTL DEF Spec

-----------------------------------------------------------------------------
(* A call accepted by elips_bls_aggregate_verify or by its fast sibling.   *)
LEMMA OkIsEarned ==
  ASSUME call \in Calls, PromisedRc(call) = "OK"
  PROVE  ~call.null /\ WellFormed(call)
BY CallTyped, Promises

(* Many keys with a message each: the signature carries every share.       *)
LEMMA AcceptedAggregate ==
  ASSUME IInv, DueInv, pc = "done", rc = "OK", call.op = "aggregate_verify"
  PROVE  /\ KeyCount(call) \in Nat /\ DOMAIN call.pks = 1 .. KeyCount(call)
         /\ \A k \in DOMAIN call.pks : call.pks[k].pt # Infinity
         /\ call.sig.pt # Infinity
         /\ \A k \in DOMAIN call.pks : \A x :
              Coef(call.sig.pt, <<x, call.msgs[k], "SIG">>)
                = Coef(call.pks[k].pt, x)
<1> DEFINE pks == call.pks
           msgs == call.msgs
           k == KeyCount(call)
           share == [s \in DOMAIN pks |-> Times(pks[s].pt, msgs[s], "SIG")]
           pts == [s \in 1 .. k |-> pks[s].pt]
           sum == SumOver(DOMAIN pks, share)
<1>1. call \in Calls /\ PromisedRc(call) = "OK"
  BY DEF IInv, CallMatchesPc, DueInv, Due
<1>2. ~call.null /\ WellFormed(call) /\ k \in Nat
  BY <1>1, OkIsEarned, CallTyped
<1>3. AggregateVerifyRc(pks, msgs, call.sig) = "OK"
  BY <1>1, <1>2, Promises
<1>4. /\ Len(pks) # 0 /\ ~HasDuplicate(msgs)
      /\ \A s \in DOMAIN pks : KeyValidate(pks[s])
      /\ call.sig.pt = sum
  <2>1. ASSUME NEW ks, NEW ms, NEW sig, AggregateVerifyRc(ks, ms, sig) = "OK"
        PROVE  /\ Len(ks) # 0 /\ ~HasDuplicate(ms)
               /\ \A s \in DOMAIN ks : KeyValidate(ks[s])
               /\ sig.pt = SumOver(DOMAIN ks,
                    [s \in DOMAIN ks |-> Times(ks[s].pt, ms[s], "SIG")])
    BY <2>1, AggregateVerifyMeans
  <2>. QED  BY Zenon, <1>3, <2>1
<1>5. /\ DOMAIN pks = 1 .. k /\ DOMAIN msgs = 1 .. k /\ k # 0
      /\ \A s \in 1 .. k : IsForm(pks[s].pt)
  BY <1>2, <1>4 DEF WellFormed, KeyCount, Decoded, IsPoint
<1>6. \A s \in 1 .. k : pks[s].pt # Infinity
  BY <1>4, <1>5 DEF KeyValidate
<1>7. \A s \in 1 .. k : /\ share[s] = Times(pks[s].pt, msgs[s], "SIG")
                        /\ pts[s] = pks[s].pt
  BY <1>5
<1>8. \A j, l \in 1 .. k : msgs[j] = msgs[l] => j = l
  <2> SUFFICES ASSUME NEW j \in 1 .. k, NEW l \in 1 .. k,
                      msgs[j] = msgs[l], j < l
      PROVE  FALSE
    BY <1>2
  <2>. QED  BY <1>4, <1>5 DEF HasDuplicate
<1>. HIDE DEF share, pts
<1>9. SharesOf(share, pts, msgs, k, "SIG")
  BY <1>2, <1>5, <1>7, <1>8 DEF SharesOf
<1>10. sum = SumOver(1 .. k, share)  BY Zenon, <1>5
<1>11. call.sig.pt # Infinity
  <2>1. 1 \in 1 .. k /\ pts[1] # Infinity  BY <1>2, <1>5, <1>6, <1>7
  <2>. QED  BY <1>4, <1>9, <1>10, <2>1, SharesStay
<1>12. ASSUME NEW s \in 1 .. k, NEW x
       PROVE  Coef(call.sig.pt, <<x, msgs[s], "SIG">>) = Coef(pks[s].pt, x)
  <2>1. Coef(sum, <<x, msgs[s], "SIG">>) = Coef(pts[s], x)
    BY <1>9, <1>10, SharesApart
  <2>. QED  BY Zenon, <1>4, <1>7, <2>1
<1>. QED  BY <1>2, <1>5, <1>6, <1>11, <1>12

(* Many keys with one message: no key, sum or signature is the identity.   *)
LEMMA AcceptedFast ==
  ASSUME IInv, DueInv, pc = "done", rc = "OK",
         call.op = "fast_aggregate_verify"
  PROVE  /\ \A k \in DOMAIN call.pks : call.pks[k].pt # Infinity
         /\ KeySum(call.pks, KeyCount(call)) # Infinity
         /\ call.sig.pt # Infinity
<1> DEFINE pks == call.pks
           k == KeyCount(call)
           sum == KeySum(pks, k)
<1>1. call \in Calls /\ PromisedRc(call) = "OK"
  BY DEF IInv, CallMatchesPc, DueInv, Due
<1>2. ~call.null /\ WellFormed(call) /\ k \in Nat
  BY <1>1, OkIsEarned, CallTyped
<1>3. /\ FastAggregateVerifyRc(pks, call.pops, call.msgs[1], call.sig) = "OK"
      /\ DOMAIN pks = 1 .. k /\ Len(pks) = k
  BY <1>1, <1>2, Promises DEF WellFormed, KeyCount
<1>4. /\ \A s \in 1 .. k : PopVerifyRc(pks[s], call.pops[s]) = "OK"
      /\ sum # Infinity /\ call.sig.pt = Times(sum, call.msgs[1], "SIG")
  <2>1. ASSUME NEW ks, NEW ps, NEW m, NEW sig, NEW len \in Nat,
               Len(ks) = len, DOMAIN ks = 1 .. len,
               FastAggregateVerifyRc(ks, ps, m, sig) = "OK"
        PROVE  /\ \A s \in 1 .. len : PopVerifyRc(ks[s], ps[s]) = "OK"
               /\ KeySum(ks, len) # Infinity
               /\ sig.pt = Times(KeySum(ks, len), m, "SIG")
    BY <2>1, FastAggregateVerifyMeans
  <2>2. /\ k \in Nat /\ Len(pks) = k /\ DOMAIN pks = 1 .. k
        /\ FastAggregateVerifyRc(pks, call.pops, call.msgs[1], call.sig) = "OK"
    BY <1>2, <1>3
  <2>. HIDE DEF pks, k
  <2>. QED  BY <2>1, <2>2
<1>5. ASSUME NEW s \in 1 .. k PROVE pks[s].pt # Infinity
  <2>1. CoreVerifyRc(pks[s], pks[s].pt, call.pops[s], "POP") = "OK"
    BY <1>4 DEF PopVerifyRc
  <2>. QED  BY <2>1, CoreVerifyMeans DEF KeyValidate
<1>6. IsForm(sum)
  <2>1. PointsTo(pks, k)  BY <1>2, <1>3 DEF WellFormed, Decoded, PointsTo
  <2>. QED  BY <2>1, KeySumIsPoint DEF IsPoint
<1>7. call.sig.pt # Infinity  BY <1>4, <1>6, TimesIsIdentity
<1>. QED  BY <1>3, <1>4, <1>5, <1>7

(* One key, or none.                                                       *)
LEMMA AcceptedKey ==
  ASSUME IInv, DueInv, pc = "done", rc = "OK",
         call.op \notin {"aggregate", "aggregate_verify",
                         "fast_aggregate_verify"}
  PROVE  /\ \A k \in DOMAIN call.pks : call.pks[k].pt # Infinity
         /\ call.op = "verify" => call.sig.pt # Infinity
<1>1. call \in Calls /\ PromisedRc(call) = "OK" /\ call.op \in Operations
  BY CallTyped DEF IInv, CallMatchesPc, DueInv, Due
<1>2. ~call.null /\ WellFormed(call) /\ KeyCount(call) \in Nat
  BY <1>1, OkIsEarned, CallTyped
<1>3. CASE call.op \in {"sk_to_pk", "sign", "pop_prove"}
  BY <1>2, <1>3 DEF WellFormed
<1>4. CASE call.op \in {"pk_validate", "verify", "pop_verify"}
  <2> DEFINE pk == call.pks[1]
  <2>1. DOMAIN call.pks = {1} /\ IsPoint(pk.pt)
    BY <1>2, <1>4 DEF WellFormed, Decoded
  <2>2. KeyValidate(pk)
    <3>1. CASE call.op = "pk_validate"
      BY <1>1, <1>2, <3>1, Promises, KeyValidateCodes
      DEF ReadPkFails, KeyValidate
    <3>2. CASE call.op \in {"verify", "pop_verify"}
      BY <1>1, <1>2, <3>2, Promises, CoreVerifyMeans
    <3>. QED  BY <1>4, <3>1, <3>2
  <2>3. call.op = "verify" => call.sig.pt = Times(pk.pt, call.msgs[1], "SIG")
    BY <1>1, <1>2, Promises, CoreVerifyMeans
  <2>4. pk.pt # Infinity  BY <2>2 DEF KeyValidate
  <2>5. Times(pk.pt, call.msgs[1], "SIG") # Infinity
    BY <2>1, <2>4, TimesIsIdentity DEF IsPoint
  <2>. QED  BY <2>1, <2>3, <2>4, <2>5
<1>. QED  BY <1>1, <1>3, <1>4 DEF Operations

(* What a yes of the library means: every signer's share is in an accepted *)
(* aggregate, whole and on its own message, and no identity, alone or as a *)
(* sum that cancels, is ever accepted (bls.h:114, bls.c:390).              *)
THEOREM BlsApiAcceptsTheEarned == Spec => []AcceptanceIsEarned
<1>1. IInv /\ DueInv => OkAccountsForEveryKey
  BY AcceptedAggregate DEF OkAccountsForEveryKey
<1>2. IInv /\ DueInv => IdentityNeverVerifies
  <2> SUFFICES ASSUME IInv, DueInv, pc = "done", rc = "OK",
                      call.op # "aggregate"
      PROVE  /\ \A k \in DOMAIN call.pks : call.pks[k].pt # Infinity
             /\ call.op \in {"verify", "aggregate_verify",
                             "fast_aggregate_verify"} =>
                  call.sig.pt # Infinity
             /\ call.op = "fast_aggregate_verify" =>
                  KeySum(call.pks, KeyCount(call)) # Infinity
    BY DEF IdentityNeverVerifies
  <2>. QED  BY AcceptedAggregate, AcceptedFast, AcceptedKey
<1>3. IInv /\ DueInv => AcceptanceIsEarned
  BY <1>1, <1>2 DEF AcceptanceIsEarned
<1>. QED  BY <1>3, BlsApiInductive, BlsApiKeepsPromises, PTL

-----------------------------------------------------------------------------
(* Step by step, bls.c does what the abstract service does: every call is  *)
(* one Invoke, one Complete with the promised code and bytes, and one      *)
(* Collect, and the loops and pairings in between are not seen.            *)
THEOREM BlsApiStepsAreServiceSteps ==
  Spec => Service!Init /\ [][Service!Next]_(Service!vars)
<1>1. Init => Service!Init
  BY DEF Init, Service!Init
<1>2. IInv /\ DueInv /\ DueInv' /\ [Next]_vars
        => [Service!Next]_(Service!vars)
  <2> SUFFICES ASSUME IInv, DueInv, DueInv', [Next]_vars
      PROVE  [Service!Next]_(Service!vars)
    OBVIOUS
  <2>1. CASE Invoke
    BY <2>1, CallTyped DEF Invoke, Service!Invoke, Service!Next, Operations
  <2>2. CASE Collect
    BY <2>2 DEF Collect, Service!Collect, Service!Next
  <2>3. CASE Work
    <3>1. /\ pc \notin {"idle", "done"} /\ UNCHANGED call
          /\ pc' # "idle"
      BY <2>3 DEF Work, SkToPk, PkValidate, Sign, CoreSign, PopProve,
         PairingCheck, Verify, PopVerify, CoreVerify, AggregateFirst,
         AggregateNext,
         AggregateWrite, AggregateVerifyStart, AggregateVerifyPair,
         AggregateVerifyEnd, FastAggregateStart, FastAggregateKey,
         FastAggregateEnd, Return
    <3>2. CASE pc' = "done"
      BY <3>1, <3>2 DEF DueInv, Due, Service!Complete, Service!Next
    <3>3. CASE pc' # "done"
      BY <3>1, <3>3 DEF DueInv, Due, Service!vars
    <3>. QED  BY <3>2, <3>3
  <2>4. CASE UNCHANGED vars
    BY <2>4 DEF vars, Service!vars
  <2>. QED  BY <2>1, <2>2, <2>3, <2>4 DEF Next
<1>. QED  BY <1>1, <1>2, BlsApiInductive, BlsApiKeepsPromises, PTL DEF Spec
=============================================================================
