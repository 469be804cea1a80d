------------------------------- MODULE BlsApi --------------------------------
(***************************************************************************)
(* src/bls/bls.c: its entry points but key generation, which is in KeyGen, *)
(* as the code runs them, one action per validation block, loop iteration  *)
(* or pairing.  The two point arrays live in the caller's stack frame and  *)
(* start uninitialised; slot 0 of P is left for pairing_check to fill.     *)
(***************************************************************************)
EXTENDS BlsScheme

CONSTANTS
  Calls,         \* the argument records the application passes
  Uninit         \* the content of a stack slot nobody has written

(* The n that a caller passes beside its keys, or its signatures.          *)
KeyCount(c) == Len(c.pks)
SigCount(c) == Len(c.sigs)

(* What the prototypes of bls.h say of the arguments: one key or none, or  *)
(* one message, one proof for each key; and what serialize.c makes of the  *)
(* bytes, a point when it accepts them.  Nothing is known of a null call,  *)
(* one with a null where the entry tests for it.                           *)
Decoded(pt, IsOne(_)) == pt.ok \in BOOLEAN /\ IsOne(pt.pt)

WellFormed(c) ==
  /\ DOMAIN c.pks = 1 .. KeyCount(c) /\ DOMAIN c.sigs = 1 .. SigCount(c)
  /\ \A k \in DOMAIN c.pks : Decoded(c.pks[k], IsPoint)
  /\ \A k \in DOMAIN c.sigs : Decoded(c.sigs[k], IsPoint2)
  /\ \A k \in DOMAIN c.pops : Decoded(c.pops[k], IsPoint2)
  /\ Decoded(c.sig, IsPoint2)
  /\ c.op \in {"sk_to_pk", "sign", "pop_prove"} => KeyCount(c) = 0
  /\ c.op \in {"pk_validate", "verify", "pop_verify"} => KeyCount(c) = 1
  /\ c.op = "aggregate_verify" => DOMAIN c.msgs = DOMAIN c.pks
  /\ c.op \in {"pop_verify", "fast_aggregate_verify"} =>
       DOMAIN c.pops = DOMAIN c.pks

ASSUME CallsAssumption ==
  \A c \in Calls :
    /\ c.op \in Operations /\ c.null \in BOOLEAN
    /\ KeyCount(c) \in Nat /\ SigCount(c) \in Nat
    /\ ~c.null => WellFormed(c)

VARIABLES
  pc,            \* where the call in progress is
  call,          \* its arguments
  i,             \* the loop counter
  P, Q,          \* the arrays handed to elips_pairing_multi
  acc,           \* the accumulator of elips_bls_aggregate
  n,             \* number of pairs given to pairing_check
  rc,            \* the returned code
  out            \* the caller's output buffer

vars == <<pc, call, i, P, Q, acc, n, rc, out>>
frame == <<i, P, Q, acc, n>>

Slots == 0 .. MaxN
EmptySlots == [s \in Slots |-> Uninit]

FreshFrame == /\ i = 0 /\ P = EmptySlots /\ Q = EmptySlots
              /\ acc = Infinity /\ n = 0

Init == /\ pc = "idle" /\ call = NoCall /\ rc = "OK" /\ out = Untouched
        /\ FreshFrame

(* Leave the function: the stack frame is gone.                            *)
Return(code) ==
  /\ pc' = "done" /\ rc' = code
  /\ i' = 0 /\ P' = EmptySlots /\ Q' = EmptySlots /\ acc' = Infinity /\ n' = 0
  /\ UNCHANGED call

Invoke ==
  /\ pc = "idle"
  /\ call' \in Calls
  /\ pc' = call'.op
  /\ UNCHANGED <<rc, out, frame>>

Collect ==
  /\ pc = "done" /\ pc' = "idle"
  /\ call' = NoCall /\ rc' = "OK" /\ out' = Untouched
  /\ UNCHANGED frame

-----------------------------------------------------------------------------
(* elips_pairing_multi(P, Q, len): refuses the identity in any pair before *)
(* it computes anything, and then returns the product (its cube on BLS12,  *)
(* which is one exactly when the product is, R being prime to 3).          *)
PairingMultiAccepts(p, q, len) ==
  \A s \in 0 .. len - 1 : p[s] # Infinity /\ q[s] # Infinity

PairingProduct(p, q, len) ==
  SumOver(0 .. len - 1, [s \in 0 .. len - 1 |-> Pairing(p[s], q[s])])

PairingMultiOut(p, q, len) ==
  IF PairingMultiAccepts(p, q, len) THEN PairingProduct(p, q, len)
  ELSE Infinity          \* out stays at one when the call refuses

(* Variant: the return value of elips_pairing_multi is not looked at.      *)
IgnoresRefusal(p, q) ==
  IF PairingMultiOut(p, q, n + 1) = Infinity THEN "OK" ELSE "VERIFY"

PairingCheckRc(p, q) ==
  IF /\ PairingMultiAccepts(p, q, n + 1)
     /\ PairingMultiOut(p, q, n + 1) = Infinity
  THEN "OK" ELSE "VERIFY"

PairingCheck ==
  /\ pc = "pairing_check"
  /\ LET filled == [P EXCEPT ![0] = Minus(G1Generator)]
     IN  Return(PairingCheckRc(filled, Q))
  /\ UNCHANGED out

-----------------------------------------------------------------------------
(* read_pk: reject what does not decode, then the identity.                *)
ReadPkFails(pk) == ~pk.ok \/ pk.pt = Infinity
ReadSigFails(sig) == ~sig.ok

(* A pointer the entry tests is null.  They do not test the same ones: a   *)
(* message without bytes may be null, and aggregate_verify and             *)
(* fast_aggregate_verify never look whether a message is (bls.c:335, 371). *)
(* A call that has a null only there is outside the contract of bls.h and  *)
(* not among Calls.                                                        *)
NullArgument == call.null

PkValidate ==
  /\ pc = "pk_validate"
  /\ \/ /\ NullArgument /\ Return("INVALID")
     \/ /\ ~NullArgument
        /\ Return(IF ReadPkFails(call.pks[1]) THEN "BAD_KEY" ELSE "OK")
  /\ UNCHANGED out

-----------------------------------------------------------------------------
(* sk_to_limbs: refuse a secret the order does not bound, then zero.       *)
ReducedIsEnough(sk) == ~sk.ok          \* variant: zero is let through
SkToLimbsFails(sk) == ~sk.ok \/ sk.pt = Infinity

(* elips_bls_sk_to_pk after its pointers: what it answers and writes.      *)
SkToPkRc(sk) ==
  Verdict(<< <<SkToLimbsFails(sk), "INVALID">>,
             <<MulG1(sk.pt) = Infinity, "BAD_KEY">> >>)

SkToPk ==
  /\ pc = "sk_to_pk"
  /\ \/ /\ NullArgument
        /\ Return("INVALID") /\ UNCHANGED out
     \/ /\ ~NullArgument /\ SkToPkRc(call.sk) # "OK"
        /\ Return(SkToPkRc(call.sk)) /\ UNCHANGED out
     \/ /\ ~NullArgument /\ SkToPkRc(call.sk) = "OK"
        /\ out' = Encode(MulG1(call.sk.pt)) /\ Return("OK")

(* core_sign, with the point that is hashed multiplied by the secret.      *)
CoreSign(sk, m, tag) ==
  \/ /\ SkToLimbsFails(sk)
     /\ Return("INVALID") /\ UNCHANGED out
  \/ /\ ~SkToLimbsFails(sk)
     /\ out' = Encode(Times(sk.pt, m, tag)) /\ Return("OK")

Sign ==
  /\ pc = "sign"
  /\ \/ NullArgument /\ Return("INVALID") /\ UNCHANGED out
     \/ ~NullArgument /\ CoreSign(call.sk, call.msgs[1], "SIG")

(* The proof is made over the bytes that sk_to_pk writes.                  *)
DerivedFails(sk) == SkToPkRc(sk) # "OK"

PopProve ==
  /\ pc = "pop_prove"
  /\ \/ /\ NullArgument /\ Return("INVALID") /\ UNCHANGED out
     \/ /\ ~NullArgument /\ DerivedFails(call.sk)
        /\ Return(SkToPkRc(call.sk)) /\ UNCHANGED out
     \/ /\ ~NullArgument /\ ~DerivedFails(call.sk)
        /\ CoreSign(call.sk, MulG1(call.sk.pt), "POP")

(* core_verify.                                                            *)
CoreVerify(pk, m, sig, tag) ==
  \/ /\ NullArgument /\ Return("INVALID")
  \/ /\ ~NullArgument /\ ReadPkFails(pk) /\ Return("BAD_KEY")
  \/ /\ ~NullArgument /\ ~ReadPkFails(pk) /\ ReadSigFails(sig)
     /\ Return("BAD_SIG")
  \/ /\ ~NullArgument /\ ~ReadPkFails(pk) /\ ~ReadSigFails(sig)
     /\ P' = [P EXCEPT ![1] = pk.pt]
     /\ Q' = [Q EXCEPT ![0] = sig.pt, ![1] = HashToG2(m, tag)]
     /\ n' = 1 /\ pc' = "pairing_check"
     /\ UNCHANGED <<call, i, acc, rc>>

Verify ==
  /\ pc = "verify"
  /\ CoreVerify(call.pks[1], call.msgs[1], call.sig, "SIG")
  /\ UNCHANGED out

PopVerify ==
  /\ pc = "pop_verify"
  /\ CoreVerify(call.pks[1], call.pks[1].pt, call.pops[1], "POP")
  /\ UNCHANGED out

-----------------------------------------------------------------------------
(* elips_bls_aggregate: the arguments and the first signature.             *)
AggregateFirst ==
  /\ pc = "aggregate"
  /\ \/ /\ NullArgument \/ SigCount(call) = 0
        /\ Return("INVALID")
     \/ /\ ~NullArgument /\ SigCount(call) > 0
        /\ ReadSigFails(call.sigs[1])
        /\ Return("BAD_SIG")
     \/ /\ ~NullArgument /\ SigCount(call) > 0
        /\ ~ReadSigFails(call.sigs[1])
        /\ acc' = call.sigs[1].pt /\ i' = 1 /\ pc' = "aggregate_loop"
        /\ UNCHANGED <<call, P, Q, n, rc>>
  /\ UNCHANGED out

(* One more signature; after the last, write the sum and return.           *)
AggregateNext ==
  /\ pc = "aggregate_loop" /\ i < SigCount(call)
  /\ LET s == call.sigs[i + 1] IN
     \/ /\ ReadSigFails(s) /\ Return("BAD_SIG")
     \/ /\ ~ReadSigFails(s)
        /\ acc' = Plus(acc, s.pt) /\ i' = i + 1
        /\ UNCHANGED <<pc, call, P, Q, n, rc>>
  /\ UNCHANGED out

AggregateWrite ==
  /\ pc = "aggregate_loop" /\ i = SigCount(call)
  /\ out' = Encode(acc)
  /\ Return("OK")

-----------------------------------------------------------------------------
(* elips_bls_aggregate_verify: counts, duplicates, then the signature.     *)
(* Variants: no upper bound on the count; the pair stored one slot too low.*)
NoUpperBound == KeyCount(call) = 0
OneSlotLow(k) == k

CountBad == KeyCount(call) = 0 \/ KeyCount(call) > MaxN
RepeatedMessage ==
  \E a \in DOMAIN call.msgs : \E b \in DOMAIN call.msgs :
     b > a /\ call.msgs[a] = call.msgs[b]

AggregateVerifyStart ==
  /\ pc = "aggregate_verify"
  /\ \/ /\ NullArgument \/ CountBad
        /\ Return("INVALID")
     \/ /\ ~NullArgument /\ ~CountBad /\ RepeatedMessage
        /\ Return("DUP_MESSAGE")
     \/ /\ ~NullArgument /\ ~CountBad /\ ~RepeatedMessage
        /\ ReadSigFails(call.sig)
        /\ Return("BAD_SIG")
     \/ /\ ~NullArgument /\ ~CountBad /\ ~RepeatedMessage
        /\ ~ReadSigFails(call.sig)
        /\ Q' = [Q EXCEPT ![0] = call.sig.pt]
        /\ pc' = "av_loop"
        /\ UNCHANGED <<call, i, P, acc, n, rc>>
  /\ UNCHANGED out

(* Key i and message i go to slot i + 1, slot 0 being pairing_check's.     *)
SlotOf(k) == k + 1

AggregateVerifyPair ==
  /\ pc = "av_loop" /\ i < KeyCount(call)
  /\ LET pk == call.pks[i + 1] IN
     \/ /\ ReadPkFails(pk) /\ Return("BAD_KEY")
     \/ /\ ~ReadPkFails(pk)
        /\ P' = [P EXCEPT ![SlotOf(i)] = pk.pt]
        /\ Q' = [Q EXCEPT ![SlotOf(i)] = HashToG2(call.msgs[i + 1], "SIG")]
        /\ i' = i + 1
        /\ UNCHANGED <<pc, call, acc, n, rc>>
  /\ UNCHANGED out

AggregateVerifyEnd ==
  /\ pc = "av_loop" /\ i = KeyCount(call)
  /\ n' = KeyCount(call) /\ pc' = "pairing_check"
  /\ UNCHANGED <<call, i, P, Q, acc, rc, out>>

-----------------------------------------------------------------------------
(* elips_bls_fast_aggregate_verify.                                        *)
FastAggregateStart ==
  /\ pc = "fast_aggregate_verify"
  /\ \/ /\ NullArgument \/ KeyCount(call) = 0
        /\ Return("INVALID")
     \/ /\ ~NullArgument /\ KeyCount(call) > 0
        /\ pc' = "fav_loop"
        /\ UNCHANGED <<call, frame, rc>>
  /\ UNCHANGED out

(* The proof of key i, by the very core_verify modelled above, and then    *)
(* the key itself, which is added to the sum held in slot 1.               *)
ProofNotChecked(pk, pop) == IF ReadPkFails(pk) THEN "BAD_KEY" ELSE "OK"

KeyWithProofRc(pk, pop) ==
  Verdict(<< <<PopVerifyRc(pk, pop) # "OK", PopVerifyRc(pk, pop)>>,
             <<ReadPkFails(pk), "BAD_KEY">> >>)

FastAggregateKey ==
  /\ pc = "fav_loop" /\ i < KeyCount(call)
  /\ LET pk  == call.pks[i + 1]
         prc == KeyWithProofRc(pk, call.pops[i + 1])
     IN \/ /\ prc # "OK" /\ Return(prc)
        \/ /\ prc = "OK"
           /\ P' = [P EXCEPT ![1] = IF i = 0 THEN pk.pt ELSE Plus(@, pk.pt)]
           /\ i' = i + 1
           /\ UNCHANGED <<pc, call, Q, acc, n, rc>>
  /\ UNCHANGED out

FastAggregateEnd ==
  /\ pc = "fav_loop" /\ i = KeyCount(call)
  /\ \/ /\ P[1] = Infinity /\ Return("BAD_KEY")
     \/ /\ P[1] # Infinity /\ ReadSigFails(call.sig) /\ Return("BAD_SIG")
     \/ /\ P[1] # Infinity /\ ~ReadSigFails(call.sig)
        /\ Q' = [Q EXCEPT ![0] = call.sig.pt,
                          ![1] = HashToG2(call.msgs[1], "SIG")]
        /\ n' = 1 /\ pc' = "pairing_check"
        /\ UNCHANGED <<call, i, P, acc, rc>>
  /\ UNCHANGED out

-----------------------------------------------------------------------------
Work ==
  \/ SkToPk \/ PkValidate \/ Sign \/ PopProve
  \/ PairingCheck \/ Verify \/ PopVerify
  \/ AggregateFirst \/ AggregateNext \/ AggregateWrite
  \/ AggregateVerifyStart \/ AggregateVerifyPair \/ AggregateVerifyEnd
  \/ FastAggregateStart \/ FastAggregateKey \/ FastAggregateEnd

Next == Invoke \/ Work \/ Collect

(* The thread that made the call keeps running it.                         *)
Spec == Init /\ [][Next]_vars /\ WF_vars(Work)

-----------------------------------------------------------------------------
PcValues == Operations \cup {"idle", "done", "pairing_check",
                             "aggregate_loop", "av_loop", "fav_loop"}

(* The type invariant: counters in range, codes among those of bls.h.      *)
TypeOK ==
  /\ pc \in PcValues
  /\ call.op \in IF pc = "idle" THEN {"none"} ELSE Operations
  /\ i \in Nat /\ n \in Slots
  /\ DOMAIN P = Slots /\ DOMAIN Q = Slots
  /\ rc \in Codes

(* What reaches the pairing is what the caller claimed, whatever route the *)
(* call took: slot 0 holds the signature, slot s the hash point of message *)
(* s under the tag of the function called, beside key s; only the fast     *)
(* path puts a sum there.  In particular no uninitialised slot is read.    *)
ClaimedPairs == IF call.op = "aggregate_verify" THEN KeyCount(call) ELSE 1
ClaimedSignature ==
  IF call.op = "pop_verify" THEN call.pops[1].pt ELSE call.sig.pt
ClaimedHash(s) ==
  IF call.op = "pop_verify" THEN HashToG2(call.pks[s].pt, "POP")
                            ELSE HashToG2(call.msgs[s], "SIG")

SlotsHoldTheClaim ==
  pc = "pairing_check" =>
    /\ n = ClaimedPairs
    /\ Q[0] = ClaimedSignature
    /\ \A s \in 1 .. n :
         /\ Q[s] = ClaimedHash(s)
         /\ call.op # "fast_aggregate_verify" => P[s] = call.pks[s].pt

(* An accepted aggregate pins down what every signer contributed: on the   *)
(* hash point of message k the signature carries exactly key k, so no      *)
(* share can have been moved from one signer to another (bls.h:114).       *)
OkAccountsForEveryKey ==
  (pc = "done" /\ call.op = "aggregate_verify" /\ rc = "OK") =>
    \A k \in DOMAIN call.pks : \A x \in Names :
       Coef(call.sig.pt, <<x, call.msgs[k], "SIG">>)
         = Coef(call.pks[k].pt, x)

(* Neither an identity key, nor keys that cancel, nor an identity          *)
(* signature is ever accepted, on any path.                                *)
IdentityNeverVerifies ==
  (pc = "done" /\ rc = "OK" /\ call.op # "aggregate") =>
    /\ \A k \in DOMAIN call.pks : call.pks[k].pt # Infinity
    /\ call.op \in {"verify", "aggregate_verify", "fast_aggregate_verify"} =>
         call.sig.pt # Infinity
    /\ call.op = "fast_aggregate_verify" =>
         KeySum(call.pks, KeyCount(call)) # Infinity

(* What a yes of the library means, on every path.                         *)
AcceptanceIsEarned == OkAccountsForEveryKey /\ IdentityNeverVerifies

(* What the library makes from a secret it accepts, it accepts: the key is *)
(* a valid one, and the signature and the proof verify under it, neither   *)
(* ever being the identity (bls.c:98, bls.c:413).                          *)
WhatIsMadeVerifies ==
  (pc = "done" /\ rc = "OK") =>
    /\ call.op = "sk_to_pk" => KeyValidateRc(out) = "OK"
    /\ call.op = "sign" =>
         CoreVerifyRc(Encode(MulG1(call.sk.pt)), call.msgs[1], out, "SIG")
           = "OK"
    /\ call.op = "pop_prove" =>
         PopVerifyRc(Encode(MulG1(call.sk.pt)), out) = "OK"

(* The code returned and the bytes written are those the header promises,  *)
(* first failing check first, and every call returns.                      *)
Service ==
  INSTANCE BlsService WITH
    phase <- IF pc \in {"idle", "done"} THEN pc ELSE "busy"
ImplementsService == Service!Spec
=============================================================================
