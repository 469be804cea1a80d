----------------------------- MODULE MCScalarMul -----------------------------
(***************************************************************************)
(* Every scalar multiplication of the library, one call at a time.         *)
(*                                                                         *)
(* The plain ladders: scalars of up to eight bits with every declared      *)
(* length, in a group of prime order 1009, and mul_pubconst on arrays of   *)
(* nine bits; like the constants of the code, the scalars leave the top of *)
(* the array free.  The accelerated ones: small seeds of each family and   *)
(* of each sign, and scalars past the order (r = 241, 601 and 4069).       *)
(***************************************************************************)
EXTENDS Ladders

CONSTANTS Seeds, ScalarBits, Scalars, Width

VARIABLES glvpc, curve, group, k, tmp, bits, d, neg, P, glvacc, glvpos

glvVars == <<glvpc, curve, group, k, tmp, bits, d, neg, P, glvacc, glvpos>>

Glv == INSTANCE GlvMul WITH pc <- glvpc, acc <- glvacc, pos <- glvpos

ASSUME ScalarsAssumption == Glv!ScalarsAreLegal

MulInit == Init /\ Glv!Init

MulNext == \/ glvpc = "idle" /\ Next /\ UNCHANGED glvVars
           \/ pc = "idle" /\ Glv!Next /\ UNCHANGED vars

MulSpec == /\ MulInit /\ [][MulNext]_<<vars, glvVars>>
           /\ WF_vars(Work) /\ WF_glvVars(Glv!Work)

(* The digits of a ladder are exactly its scalar, the constants' signed    *)
(* digits and the accelerated routines' short ones, none of them cut off.  *)
DigitsAreTheScalar == RecodingIsExact /\ Glv!NothingIsTruncated

(* The same: each computes [k]P, for every group and family.               *)
GlvImplementsMultiplication == Glv!ImplementsMultiplication

-----------------------------------------------------------------------------
One(op, n, kbits) == [op |-> op, k |-> n, kbits |-> kbits,
                      k1 |-> 0, k1bits |-> 0]

MCCalls ==
  {One(op, n, kbits) : op \in {"mul", "mul_pubconst", "fp2_exp"},
                       n \in 0 .. 255, kbits \in {-1} \cup 0 .. 8}
  \cup {One("mul_pubconst", n, 10) : n \in {0, 1, 513, 1023}}
  \cup {One("fp12_exp", n, 8) : n \in 0 .. 255}
  \cup {c \in [op : {"mul2"}, k : 0 .. 63, kbits : {1, 3, 4, 6},
               k1 : 0 .. 31, k1bits : {0, 2, 5}] :
          c.k < 2 ^ c.kbits /\ c.k1 < 2 ^ c.k1bits}

(* The whole array in use: a constant of PUBCONST_BITS bits.               *)
MCFullCalls == {One("mul_pubconst", n, PubconstBits) :
                  n \in 0 .. 2 ^ PubconstBits - 1}

MCSeeds == {[family |-> "BLS12", x |-> 4], [family |-> "BLS12", x |-> -5],
            [family |-> "BN", x |-> 3]}

MCScalars == (0 .. 1023) \cup {1024 + 13 * n : n \in 0 .. 236} \cup
             4060 .. 4080
=============================================================================
