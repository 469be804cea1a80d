----------------------------- MODULE MCGroupLaw -----------------------------
(***************************************************************************)
(* The template over Fp and over Fp2, as ec.c includes it twice:           *)
(* y^2 = x^3 + 1 over F19, with all its points, and y^2 = x^3 + u over     *)
(* F49, with those whose order divides 6.  Both have points of order two   *)
(* and three, and one is chosen by "field".                                *)
(***************************************************************************)
EXTENDS Fields

VARIABLES field, reg

fp_sqr(a) == fp_mul(a, a)
Curve1 == {P \in Fp \X Fp : fp_sqr(P[2]) = fp_add(fp_mul(fp_sqr(P[1]), P[1]), 1)}

E1 == INSTANCE GroupLaw
        WITH F_add <- fp_add, F_sub <- fp_sub, F_mul <- fp_mul, F_sqr <- fp_sqr,
             F_neg <- fp_neg, F_inv <- fp_inv, F_zero <- 0, F_one <- 1,
             curve_b <- 1, Inputs <- Curve1, Registers <- {1, 2}

F49 == INSTANCE Fields WITH FP_MODULUS <- 7

Torsion6 ==
  {<<<<0, 0>>, <<2, 2>>>>, <<<<0, 0>>, <<5, 5>>>>, <<<<0, 1>>, <<0, 0>>>>,
   <<<<0, 2>>, <<0, 0>>>>, <<<<0, 4>>, <<0, 0>>>>, <<<<0, 3>>, <<1, 1>>>>,
   <<<<0, 3>>, <<6, 6>>>>, <<<<0, 5>>, <<1, 1>>>>, <<<<0, 5>>, <<6, 6>>>>,
   <<<<0, 6>>, <<1, 1>>>>, <<<<0, 6>>, <<6, 6>>>>}

E2 == INSTANCE GroupLaw
        WITH F_add <- F49!fp2_add, F_sub <- F49!fp2_sub, F_mul <- F49!fp2_mul,
             F_sqr <- F49!fp2_sqr, F_neg <- F49!fp2_neg, F_inv <- F49!fp2_inv,
             F_zero <- <<0, 0>>, F_one <- <<1, 0>>, curve_b <- <<0, 1>>,
             Inputs <- Torsion6, Registers <- {1, 2}

Init == \/ field = "fp" /\ E1!Init
        \/ field = "fp2" /\ E2!Init

Next == /\ UNCHANGED field
        /\ \/ field = "fp" /\ E1!Next
           \/ field = "fp2" /\ E2!Next

Spec == Init /\ [][Next]_<<field, reg>>

-----------------------------------------------------------------------------
(* Over either field, addition, doubling and comparison are those of the   *)
(* group, for every representative that calls can produce.                 *)
FormulasAreTheGroupLaw == IF field = "fp" THEN E1!FormulasAreTheGroupLaw
                                          ELSE E2!FormulasAreTheGroupLaw
=============================================================================
