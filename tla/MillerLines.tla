----------------------------- MODULE MillerLines -----------------------------
(***************************************************************************)
(* The data of the pairing, with field arithmetic left symbolic.           *)
(*                                                                         *)
(* The running point of the Miller loop is a multiple of Q, plus a count   *)
(* of psi(Q) once BN's correction lines start; a line is named by the two  *)
(* points it passes through; an accumulator of Fp12 is the bag of          *)
(* evaluated lines <<line, P>> whose product it is.  Squaring doubles the  *)
(* bag, so the bag records the exponent of each line exactly.  Distinct    *)
(* names stand for values with no relation between them: two bags are      *)
(* equal only if the C code would multiply the same lines the same number  *)
(* of times.                                                               *)
(***************************************************************************)
EXTENDS Integers, Sequences, Bags, SequencesExt

(* A build is one generated parameter set: the signed digits ELIPS_LOOP as *)
(* a function on 0 .. top, the family, and the table size it was given.    *)
Top(build) == build.top
Digit(build, i) == build.loop[i]

-----------------------------------------------------------------------------
(* Running points [q, mult, psi] and lines [at, with].                     *)
ep2_from_affine(build, q) ==
  [q |-> q, psi |-> 0,
   mult |-> IF Digit(build, Top(build)) > 0 THEN 1 ELSE -1]

WithOf(d) == IF d > 0 THEN "Q" ELSE "-Q"

dbl_line(T) == [at |-> T, with |-> "T"]
add_line(T, with) == [at |-> T, with |-> with]

Doubled(T) == [T EXCEPT !.mult = 2 * @]

(* The lines one iteration takes with digit d, and where it leaves T.      *)
LinesOf(T, d) ==
  IF d = 0 THEN <<dbl_line(T)>>
  ELSE <<dbl_line(T), add_line(Doubled(T), WithOf(d))>>

ForgetsToAdd(T, d) == Doubled(T)     \* variant: T skips the addition

Stepped(T, d) == [T EXCEPT !.mult = 2 * @ + d]

(* BN's two corrections: T + psi(Q), then (T + psi(Q)) - psi^2(Q).         *)
CorrectionLines(T) ==
  <<add_line(T, "psi(Q)"), add_line([T EXCEPT !.psi = 1], "-psi2(Q)")>>

-----------------------------------------------------------------------------
(* Accumulators.                                                           *)
one == EmptyBag
fp12_sqr(f) == f (+) f
fp12_mul(f, g) == f (+) g

(* line_mul for each line of a sequence, at the point p of G1.             *)
line_muls(f, lines, p) ==
  f (+) ToBag([x \in DOMAIN lines |-> <<lines[x], p>>])

-----------------------------------------------------------------------------
(* The reference: the Miller value of one pair, in closed form.            *)
Multiples(build) ==           \* the multiple of Q before the step of digit i
  LET mult[i \in -1 .. Top(build) - 1] ==
        IF i = Top(build) - 1
        THEN IF Digit(build, Top(build)) > 0 THEN 1 ELSE -1
        ELSE 2 * mult[i + 1] + Digit(build, i + 1)
  IN  mult

Before(build, q, i) == [q |-> q, psi |-> 0, mult |-> Multiples(build)[i]]

LoopFactors(build, p, q) ==
  UNION {{<<i, <<line, p>>>> :
            line \in ToSet(LinesOf(Before(build, q, i), Digit(build, i)))} :
         i \in 0 .. Top(build) - 1}

CorrectionFactors(build, p, q) ==
  IF build.bn
  THEN {<<0, <<line, p>>>> :
          line \in ToSet(CorrectionLines(Before(build, q, -1)))}
  ELSE {}

(* A line of iteration i is squared i more times.                          *)
MillerValue(build, p, q) ==
  LET factors == LoopFactors(build, p, q) \cup CorrectionFactors(build, p, q)
      weight(x) == SumSet({2 ^ y[1] : y \in {z \in factors : z[2] = x}})
  IN  [x \in {y[2] : y \in factors} |-> weight(x)]
=============================================================================
