------------------------------ MODULE MCBlsApi -------------------------------
(***************************************************************************)
(* Two independent keys a and b, the negation of a, the identity and a     *)
(* rejected encoding; every claim of up to three pairs, some of four, one  *)
(* past MaxN, each with the signature that fits and its near misses; and   *)
(* secrets that are zero, the order, above it, or good.                    *)
(***************************************************************************)
EXTENDS BlsApi

CONSTANTS a, b, m1, m2, m3

KeyPts  == {[x \in {a} |-> 1], [x \in {b} |-> 1], [x \in {a} |-> R - 1]}
PkBytes == {Encode(p) : p \in KeyPts \cup {Infinity}} \cup {Malformed}

NoArgs(op) == [op |-> op, null |-> FALSE, sk |-> Malformed,
               pks |-> << >>, pops |-> << >>, msgs |-> << >>,
               sig |-> Malformed, sigs |-> << >>]
NullCalls == {[NoArgs(op) EXCEPT !.null = TRUE] :
                op \in Operations}

SeqsOf(S, k) == [1 .. k -> S]

(* The signature that fits the claim, and others that nearly do.           *)
Candidates(pks, msgs) ==
  LET share == [k \in DOMAIN pks |-> Times(pks[k].pt, msgs[k], "SIG")]
      part(S)  == SumOver(S, share)
  IN  {Malformed, Encode(Infinity),
       Encode(part(DOMAIN pks)), Encode(part(DOMAIN pks \ {1})),
       Encode(Plus(part(DOMAIN pks), HashToG2(m1, "SIG"))),
       Encode(Minus(part(DOMAIN pks)))}

Proofs(pk) ==
  {Malformed, Encode(Infinity),
   Encode(Times(pk.pt, pk.pt, "POP")), Encode(Times(pk.pt, pk.pt, "SIG"))}

Secrets == {Encode(k) : k \in KeyPts \cup {G1Generator, Infinity}}
           \cup {Unreduced(k) : k \in KeyPts \cup {Infinity}}

SecretCalls ==
  {[NoArgs(op) EXCEPT !.sk = s, !.msgs = <<m>>] :
     op \in {"sk_to_pk", "sign", "pop_prove"}, s \in Secrets, m \in {m1} \cup KeyPts}

ValidateCalls == {[NoArgs("pk_validate") EXCEPT !.pks = <<pk>>] : pk \in PkBytes}

VerifyCalls ==
  UNION {{[NoArgs("verify") EXCEPT !.pks = <<pk>>, !.msgs = <<m>>, !.sig = s] :
            s \in Candidates(<<pk>>, <<m>>) \cup Proofs(pk)} :
         pk \in PkBytes, m \in {m1} \cup KeyPts}

PopCalls ==
  UNION {{[NoArgs("pop_verify") EXCEPT !.pks = <<pk>>, !.pops = <<s>>] :
            s \in Proofs(pk) \cup Proofs(Encode([x \in {a} |-> 1]))} :
         pk \in PkBytes}

AggregateCalls ==
  LET atoms == {Malformed, Encode(Infinity)}
               \cup {Encode(Times(p, m1, "SIG")) : p \in KeyPts}
  IN  {[NoArgs("aggregate") EXCEPT !.sigs = s] :
         s \in UNION {SeqsOf(atoms, k) : k \in 0 .. 3}}

Claims(k, pkset) ==
  UNION {{[NoArgs("aggregate_verify") EXCEPT
             !.pks = pks, !.msgs = msgs, !.sig = s] :
            s \in Candidates(pks, msgs)} :
         pks \in SeqsOf(pkset, k), msgs \in SeqsOf({m1, m2, m3}, k)}

(* One pair more than MaxN, with messages that do not repeat.              *)
FourMessages ==
  LET pks  == [j \in 1 .. 4 |-> Encode([x \in {a} |-> 1])]
      msgs == <<m1, m2, m3, [x \in {b} |-> 1]>>
  IN  {[NoArgs("aggregate_verify") EXCEPT
          !.pks = pks, !.msgs = msgs, !.sig = s] :
         s \in Candidates(pks, msgs)}

AggregateVerifyCalls ==
  Claims(0, PkBytes) \cup Claims(1, PkBytes) \cup Claims(2, PkBytes)
  \cup Claims(3, {Encode(p) : p \in KeyPts})
  \cup Claims(4, {Encode([x \in {a} |-> 1])})
  \cup FourMessages

FastClaims(k, pkset, proofs(_)) ==
  UNION {{[NoArgs("fast_aggregate_verify") EXCEPT
             !.pks = pks, !.pops = pops, !.msgs = <<m1>>, !.sig = s] :
            s \in Candidates(pks, [j \in DOMAIN pks |-> m1]),
            pops \in {f \in SeqsOf(UNION {proofs(pks[j]) : j \in 1 .. k}, k) :
                        \A j \in 1 .. k : f[j] \in proofs(pks[j])}} :
         pks \in SeqsOf(pkset, k)}

FastAggregateCalls ==
  LET own(pk) == {Encode(Times(pk.pt, pk.pt, "POP"))}
  IN  FastClaims(0, PkBytes, Proofs) \cup FastClaims(1, PkBytes, Proofs)
      \cup FastClaims(2, PkBytes, Proofs)
      \cup FastClaims(3, {Encode(p) : p \in KeyPts}, own)

MCCalls == NullCalls \cup SecretCalls \cup ValidateCalls \cup VerifyCalls
           \cup PopCalls \cup AggregateCalls \cup AggregateVerifyCalls
           \cup FastAggregateCalls
=============================================================================
