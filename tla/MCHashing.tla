------------------------------ MODULE MCHashing ------------------------------
(***************************************************************************)
(* What is made of SHA-256 and of entropy, one part at a time: the hash on *)
(* messages to three blocks and one byte, cut in every way;                *)
(* expand_message_xmd, hash_to_field and HKDF on a byte of five values, so *)
(* that four blocks are the most; and secrets from entropy, with three     *)
(* passes of the keygen loop, every choice of which of the four outputs of *)
(* each salt chain vanish, keying material just inside and just outside    *)
(* the bounds, and draws of up to five bytes from a getentropy capped at   *)
(* two, in each of the four builds.                                        *)
(***************************************************************************)
EXTENDS KeyGen, Sha256Stream, ExpandMessage

VARIABLE part                                            \* which part runs

(* Strings of the bytes 0 and 1, which are also lengths, indices and       *)
(* padding: a message may end like the start of a tag.                     *)
Bits(size) == [1 .. size -> {<<0>>, <<1>>}]
ShortStrings == UNION {Bits(size) : size \in 0 .. 3}
SomeTags == {<<>>, <<<<0>>>>, <<<<1>>>>, <<<<0>>, <<1>>>>, <<<<0>>, <<1>>, <<0>>>>,
             <<<<0>>, <<1>>, <<0>>, <<0>>>>, <<<<0>>, <<1>>, <<0>>, <<1>>>>,
             <<<<1>>, <<0>>, <<1>>, <<0>>, <<1>>>>, <<<<1>>, <<0>>, <<1>>, <<0>>, <<0>>>>}
SomeKeys == {<<>>, <<<<1>>>>, <<<<1>>, <<0>>, <<1>>>>, <<<<1>>, <<0>>, <<1>>, <<0>>>>}
MCLengths == {0, 31, 32, 511, 512}

HashInit == /\ part \in {"stream", "expansion", "secrets"}
            /\ KeyInit /\ (part # "secrets" => vanishes = {} /\ build = "linux")
            /\ StreamInit /\ ExpandInit

Hashes == part = "stream" /\ StreamNext /\ UNCHANGED <<part, keyVars, expandVars>>
Expands == part = "expansion" /\ ExpandNext
           /\ UNCHANGED <<part, keyVars, streamVars>>
Draws == part = "secrets" /\ KeyNext /\ UNCHANGED <<part, streamVars, expandVars>>

HashSpec == /\ HashInit
            /\ [][Hashes \/ Expands \/ Draws]_<<part, keyVars, streamVars, expandVars>>
            /\ RandFairness
=============================================================================
