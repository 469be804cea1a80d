CONSTANT FP_MODULUS = 19
SPECIFICATION Spec
INVARIANT FormulasAreTheGroupLaw
