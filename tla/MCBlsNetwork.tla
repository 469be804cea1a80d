---------------------------- MODULE MCBlsNetwork -----------------------------
(***************************************************************************)
(* Two signers, who may be asked to sign an ordinary message or the        *)
(* encoding of the first one's own key; beside them circulates the hash    *)
(* point itself, the signature of the secret 1.  Claims name a signer      *)
(* alone or beside an honest key, a key that cancels or absorbs one, or    *)
(* the identity (no verdict depends on the order of the pairs).            *)
(***************************************************************************)
EXTENDS BlsNetwork

CONSTANTS a, b, m1

MCSignedBytes == {m1, [x \in {a} |-> 1]}
MCForeign == {HashToG2(m1, "SIG")}

Less(f, k) == Encode(Plus(f, Minus(PublicKey(k))))
OtherKeys == {Encode(Infinity), Less(Infinity, a),
              Less(G1Generator, a), Less(PublicKey(b), a)}
MCClaims ==
  {<<h>> : h \in HonestKeys}
  \cup ({Encode(PublicKey(a))} \X (HonestKeys \cup OtherKeys))
  \cup {<<Encode(PublicKey(b)), Less(G1Generator, b)>>}
=============================================================================
