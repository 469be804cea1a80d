------------------------------ MODULE BlsScheme ------------------------------
(***************************************************************************)
(* What include/elips/bls.h promises of each call, stated over the group   *)
(* elements and not over the arrays, loops and pairings that bls.c uses:   *)
(* an ordered list of conditions, the first of which to fail names the     *)
(* code returned, and the verification equation solved for the signature.  *)
(*                                                                         *)
(* A call is a record [op, null, sk, pks, pops, msgs, sig, sigs]; the      *)
(* calls of one key or one message use one-element sequences.              *)
(***************************************************************************)
EXTENDS Integers, FiniteSets, FiniteSetsExt, Sequences

(***************************************************************************)
(* G1, G2 and G_T as src/bls/bls.c uses them, seen through their discrete  *)
(* logarithms.  Secret keys are independent unknowns and so are the points *)
(* hash-to-curve returns, hence every element the API can build is a       *)
(* formal linear combination with coefficients modulo the group order R:   *)
(*   G1  over  Gen (the generator) and the unknown secret keys;            *)
(*   G2  over  <<x, message, tag>> with x a name of G1: the hash point of  *)
(*       (message, tag) multiplied by x;                                   *)
(*   G_T over  <<{x, y}, message, tag>>, the products a pairing makes.     *)
(* A combination is a function from its finite support to 1 .. R-1, the    *)
(* identity is the empty one.                                              *)
(***************************************************************************)
CONSTANTS
  R,      \* order of the groups (a prime; only R > 1 is used)
  Keys,   \* the independent secret exponents
  Gen,    \* the name of the generator, the exponent 1
  Msgs    \* message byte strings that are no public-key encoding

ASSUME GroupAssumption == R \in Nat /\ R > 1 /\ Gen \notin Keys

Names == Keys \cup {Gen}

Coef(f, x) == IF x \in DOMAIN f THEN f[x] ELSE 0

(* A well-formed combination: no stored coefficient vanishes modulo R.     *)
IsForm(f) == f \in [DOMAIN f -> 1 .. R - 1]

(* The points a reader of serialize.c can yield: sums of finitely many     *)
(* terms, those of G2 being multiples of hash points.                      *)
IsPoint(f) == IsForm(f) /\ IsFiniteSet(DOMAIN f)
IsTriple(w) == w = <<w[1], w[2], w[3]>>
IsPoint2(f) == IsPoint(f) /\ \A w \in DOMAIN f : IsTriple(w)

(* Drop the terms whose coefficient vanishes modulo R.                     *)
Reduced(S, c(_)) == [x \in {y \in S : c(y) % R # 0} |-> c(x) % R]

Infinity == [x \in {} |-> 0]

Plus(f, g) ==
  LET c(x) == Coef(f, x) + Coef(g, x)
  IN  Reduced(DOMAIN f \cup DOMAIN g, c)

Minus(f) ==
  LET c(x) == R - f[x]
  IN  Reduced(DOMAIN f, c)

(* The sum of the elements v[j], j in the finite set S.                    *)
SumOver(S, v) ==
  LET add(j, acc) == Plus(v[j], acc)
  IN  FoldSet(add, Infinity, S)

G1Generator == [x \in {Gen} |-> 1]

(* elips_hash_to_g2 under one of the two fixed domain separation tags.     *)
HashToG2(m, tag) == [x \in {<<Gen, m, tag>>} |-> 1]

(* Variant: one domain separation tag for signatures and proofs.           *)
OneTag(k, m, tag) ==
  [x \in {<<y, m, "SIG">> : y \in DOMAIN k} |-> k[x[1]]]

(* [k]HashToG2(m, tag) for the exponent k whose public key is the form k.  *)
Times(k, m, tag) ==
  [x \in {<<y, m, tag>> : y \in DOMAIN k} |-> k[x[1]]]

(* [k]G1: the name of the generator stands for one, so its form is k's.    *)
MulG1(k) == k

(* The bilinear map: e(x, <<y, m, t>>) is the product term <<{x,y}, m, t>>,*)
(* and the product of two combinations the sum over their pairs of terms.  *)
TermProduct(P, Q, t) ==
  LET c(z) == P[t[1]] * Q[t[2]]
  IN  Reduced({<<{t[1], t[2][1]}, t[2][2], t[2][3]>>}, c)

Pairing(P, Q) ==
  LET terms == (DOMAIN P) \X (DOMAIN Q)
  IN  SumOver(terms, [t \in terms |-> TermProduct(P, Q, t)])

(* Encodings.  A reader of serialize.c either accepts and yields a point   *)
(* of the order-r subgroup, or rejects, for whichever of its five reasons, *)
(* and leaves the identity in the caller's variable.                       *)
Encode(pt)  == [ok |-> TRUE,  pt |-> pt]
Malformed   == [ok |-> FALSE, pt |-> Infinity]

(* The 32 bytes of a secret are a number: Encode(k) is k itself, below the *)
(* order, and Unreduced(k) is k plus a multiple of the order.              *)
Unreduced(k) == [ok |-> FALSE, pt |-> k]

-----------------------------------------------------------------------------
CONSTANT MaxN      \* MAXN of elips_bls_aggregate_verify, 63 in the code

ASSUME MaxNAssumption == MaxN \in Nat /\ MaxN >= 1

Codes == {"OK", "INVALID", "BAD_KEY", "BAD_SIG", "VERIFY", "DUP_MESSAGE"}

(* The code of the first check <<failed, code>> that failed, else OK.      *)
Verdict(checks) ==
  LET failures == {i \in DOMAIN checks : checks[i][1]}
  IN  IF failures = {} THEN "OK" ELSE checks[Min(failures)][2]

(* KeyValidate of the draft: decodes into G1 and is not the identity.      *)
KeyValidate(pk) == pk.ok /\ pk.pt # Infinity

(* A secret key is reduced and not zero.                                   *)
SecretKey(sk) == sk.ok /\ sk.pt # Infinity

WithSecretRc(sk) == Verdict(<< <<~SecretKey(sk), "INVALID">> >>)

KeyValidateRc(pk) == Verdict(<< <<~KeyValidate(pk), "BAD_KEY">> >>)

(* core_verify: one key, one message.                                      *)
CoreVerifyRc(pk, m, sig, tag) ==
  Verdict(<< <<~KeyValidate(pk), "BAD_KEY">>,
             <<~sig.ok, "BAD_SIG">>,
             <<sig.pt # Times(pk.pt, m, tag), "VERIFY">> >>)

(* A proof of possession is a signature over the key's own bytes.          *)
ProofUnchecked(pk, pop) == "OK"        \* variant: proofs are not verified

PopVerifyRc(pk, pop) == CoreVerifyRc(pk, pk.pt, pop, "POP")

HasDuplicate(msgs) ==
  \E i, j \in DOMAIN msgs : i < j /\ msgs[i] = msgs[j]

OneTooFew(count) == count >= MaxN      \* variant: the last count refused

TooMany(count) == count > MaxN

(* The aggregate of the signatures the keys would make on their messages.  *)
AggregateVerifyRc(pks, msgs, sig) ==
  LET share == [i \in DOMAIN pks |-> Times(pks[i].pt, msgs[i], "SIG")]
  IN  Verdict(<< <<Len(pks) = 0 \/ TooMany(Len(pks)), "INVALID">>,
                 <<HasDuplicate(msgs), "DUP_MESSAGE">>,
                 <<~sig.ok, "BAD_SIG">>,
                 <<\E i \in DOMAIN pks : ~KeyValidate(pks[i]), "BAD_KEY">>,
                 <<sig.pt # SumOver(DOMAIN pks, share), "VERIFY">> >>)

KeySum(pks, n) == SumOver(1 .. n, [i \in 1 .. n |-> pks[i].pt])

(* Every proof first, in order; then the sum of the keys; then the rest.   *)
FastAggregateVerifyRc(pks, pops, m, sig) ==
  LET proof(i) == PopVerifyRc(pks[i], pops[i])
      proofs == [i \in DOMAIN pks |-> <<proof(i) # "OK", proof(i)>>]
      sum == KeySum(pks, Len(pks))
  IN  Verdict(<< <<Len(pks) = 0, "INVALID">> >> \o proofs \o
              << <<sum = Infinity, "BAD_KEY">>,
                 <<~sig.ok, "BAD_SIG">>,
                 <<sig.pt # Times(sum, m, "SIG"), "VERIFY">> >>)

AggregateRc(sigs) ==
  Verdict(<< <<Len(sigs) = 0, "INVALID">>,
             <<\E i \in DOMAIN sigs : ~sigs[i].ok, "BAD_SIG">> >>)

SigSum(sigs) == SumOver(DOMAIN sigs, [i \in DOMAIN sigs |-> sigs[i].pt])

-----------------------------------------------------------------------------
Untouched == [ok |-> FALSE, pt |-> Infinity]   \* what the caller's buffer held
NoCall == [op |-> "none"]

Operations == {"sk_to_pk", "pk_validate", "sign", "pop_prove",
               "verify", "pop_verify", "aggregate", "aggregate_verify",
               "fast_aggregate_verify"}

PromisedRc(c) ==
  CASE c.null -> "INVALID"
    [] ~c.null /\ c.op \in {"sk_to_pk", "sign", "pop_prove"} ->
         WithSecretRc(c.sk)
    [] ~c.null /\ c.op = "pk_validate" -> KeyValidateRc(c.pks[1])
    [] ~c.null /\ c.op = "verify" ->
         CoreVerifyRc(c.pks[1], c.msgs[1], c.sig, "SIG")
    [] ~c.null /\ c.op = "pop_verify" -> PopVerifyRc(c.pks[1], c.pops[1])
    [] ~c.null /\ c.op = "aggregate" -> AggregateRc(c.sigs)
    [] ~c.null /\ c.op = "aggregate_verify" ->
         AggregateVerifyRc(c.pks, c.msgs, c.sig)
    [] ~c.null /\ c.op = "fast_aggregate_verify" ->
         FastAggregateVerifyRc(c.pks, c.pops, c.msgs[1], c.sig)

(* Only a call that succeeds writes to the caller's output buffer.         *)
PromisedOut(c) ==
  CASE PromisedRc(c) # "OK" -> Untouched
    [] PromisedRc(c) = "OK" /\ c.op = "sk_to_pk" -> Encode(MulG1(c.sk.pt))
    [] PromisedRc(c) = "OK" /\ c.op = "sign" ->
         Encode(Times(c.sk.pt, c.msgs[1], "SIG"))
    [] PromisedRc(c) = "OK" /\ c.op = "pop_prove" ->
         Encode(Times(c.sk.pt, MulG1(c.sk.pt), "POP"))
    [] PromisedRc(c) = "OK" /\ c.op = "aggregate" -> Encode(SigSum(c.sigs))
    [] OTHER -> Untouched
=============================================================================
