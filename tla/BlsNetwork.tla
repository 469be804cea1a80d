----------------------------- MODULE BlsNetwork ------------------------------
(***************************************************************************)
(* The scheme in use: signers call elips_bls_sign and elips_bls_pop_prove, *)
(* anyone aggregates what circulates with elips_bls_aggregate, points that *)
(* no signer made circulate too, and a verifier calls the verification     *)
(* functions with any lists of public keys, be they those of signers or    *)
(* other points of G1.  History says who signed what.                      *)
(***************************************************************************)
EXTENDS BlsScheme

CONSTANTS
  SignedBytes,  \* the byte strings signers may be asked to sign
  Counts,       \* how many signatures one call may aggregate
  Foreign,      \* points of G2 made without a signer's secret
  Claims,       \* the lists of keys a verifier may be asked about
  MaxSigs       \* bound on the signatures in circulation

(* Every point of G1: signers' keys, sums, negatives, multiples of Gen.    *)
AllKeys ==
  {LET c(x) == f[x] IN Encode(Reduced(Names, c)) : f \in [Names -> 0 .. R - 1]}

(* Whoever holds no secret can still multiply a hash point by a number.    *)
ASSUME ForeignAssumption ==
  \A f \in Foreign : IsForm(f) /\ \A z \in DOMAIN f : z[1] \notin Keys

(* A list is shorter than the group order, as every size_t is.             *)
ASSUME ClaimsAssumption ==
  \A pks \in Claims : \E len \in 1 .. R - 1 : pks \in [1 .. len -> AllKeys]

ASSUME CountsAssumption == Counts \subseteq Nat \ {0}

VARIABLES
  signed,       \* <<signer, bytes, tag>> of every signature made
  sigs          \* the signatures in circulation, as points of G2

networkVars == <<signed, sigs>>

PublicKey(k) == [x \in {k} |-> 1]          \* elips_bls_sk_to_pk

(* core_sign: [k]H(bytes) under the tag of the calling function.           *)
SignAndPublish(k, bytes, tag) ==
  /\ signed' = signed \cup {<<k, bytes, tag>>}
  /\ sigs' = sigs \cup {Times(PublicKey(k), bytes, tag)}

SignerSigns(k) == \E bytes \in SignedBytes : SignAndPublish(k, bytes, "SIG")
SignerProves(k) == SignAndPublish(k, PublicKey(k), "POP")

(* elips_bls_aggregate over signatures in circulation.                     *)
Aggregate ==
  /\ \E len \in Counts : \E list \in [1 .. len -> sigs] :
       sigs' = sigs \cup {SigSum([j \in 1 .. len |-> Encode(list[j])])}
  /\ UNCHANGED signed

Publish ==
  /\ \E f \in Foreign : sigs' = sigs \cup {f}
  /\ UNCHANGED signed

NetworkInit == signed = {} /\ sigs = {}

NetworkNext ==
  /\ Cardinality(sigs) < MaxSigs
  /\ (\E k \in Keys : SignerSigns(k) \/ SignerProves(k)) \/ Aggregate \/ Publish

NetworkSpec == NetworkInit /\ [][NetworkNext]_networkVars

-----------------------------------------------------------------------------
HonestKeys == {Encode(PublicKey(k)) : k \in Keys}
SignerOf(pk) == CHOOSE k \in Keys : pk = Encode(PublicKey(k))
Bytes == SignedBytes \cup {PublicKey(k) : k \in Keys}

(* elips_bls_aggregate_verify accepts only what every honest signer named  *)
(* in the claim really signed, whatever the other keys are and whatever    *)
(* signatures were added up to get there.                                  *)
AggregateNamesOnlySigners ==
  \A pks \in Claims : \A s \in sigs : \A msgs \in [DOMAIN pks -> SignedBytes] :
    AggregateVerifyRc(pks, msgs, Encode(s)) = "OK" =>
      \A j \in DOMAIN pks :
        pks[j] \in HonestKeys =>
          <<SignerOf(pks[j]), msgs[j], "SIG">> \in signed

(* elips_bls_fast_aggregate_verify likewise: a key registered with a proof *)
(* cannot cancel the share of a signer who signed nothing (bls.h:127).     *)
FastAggregateNamesOnlySigners ==
  \A pks \in Claims : \A s \in sigs : \A m \in SignedBytes :
    \A pops \in [DOMAIN pks -> {Encode(p) : p \in sigs}] :
      FastAggregateVerifyRc(pks, pops, m, Encode(s)) = "OK" =>
        \A j \in DOMAIN pks :
          pks[j] \in HonestKeys => <<SignerOf(pks[j]), m, "SIG">> \in signed

(* Neither aggregate names a signer who did not sign.                      *)
ClaimsNameOnlySigners ==
  AggregateNamesOnlySigners /\ FastAggregateNamesOnlySigners

(* A proof of possession is never accepted as a signature over the encoded *)
(* key, nor such a signature as a proof (bls.c:68).                        *)
ProofsAndSignaturesApart ==
  \A k \in Keys : \A s \in sigs :
    LET pk == Encode(PublicKey(k)) IN
    /\ \A m \in Bytes :
         CoreVerifyRc(pk, m, Encode(s), "SIG") = "OK"
           => <<k, m, "SIG">> \in signed
    /\ PopVerifyRc(pk, Encode(s)) = "OK"
         => <<k, PublicKey(k), "POP">> \in signed

(* Signers who used the API as told are never turned away: the aggregate   *)
(* of their signatures verifies, over distinct messages when it names no   *)
(* more than MaxN keys and, when they published proofs, over a shared one. *)
HonestClaims == {pks \in Claims : \A j \in DOMAIN pks : pks[j] \in HonestKeys}

Made(pks, msgs) ==
  \A j \in DOMAIN pks : <<SignerOf(pks[j]), msgs[j], "SIG">> \in signed

SumMade(pks, msgs) ==
  Encode(SigSum([j \in DOMAIN pks |->
                   Encode(Times(pks[j].pt, msgs[j], "SIG"))]))

HonestAggregatesVerify ==
  \A pks \in HonestClaims :
    /\ \A msgs \in [DOMAIN pks -> SignedBytes] :
         Made(pks, msgs) /\ ~HasDuplicate(msgs) /\ Len(pks) <= MaxN
           => AggregateVerifyRc(pks, msgs, SumMade(pks, msgs)) = "OK"
    /\ \A m \in SignedBytes :
         LET same == [j \in DOMAIN pks |-> m]
             pops == [j \in DOMAIN pks |->
                        Encode(Times(pks[j].pt, pks[j].pt, "POP"))]
         IN  Made(pks, same) /\ (\A j \in DOMAIN pks : pops[j].pt \in sigs)
               => FastAggregateVerifyRc(pks, pops, m, SumMade(pks, same))
                    = "OK"
=============================================================================
