---------------------------- MODULE RuntimeBackend ----------------------------
(***************************************************************************)
(* Which code a field operation runs.  Two constructors of fp.c choose,    *)
(* from the environment and the processor, while the library is loaded;    *)
(* the tower caches the answer at its first multiplication (fpx.c:259) in  *)
(* a plain variable that threads may read and write at once, a step at a   *)
(* time here.  Another constructor, run before these two, may already      *)
(* multiply.                                                               *)
(***************************************************************************)
EXTENDS Integers

CONSTANTS
  Threads,
  Loader        \* the thread that loads the library and runs constructors

ASSUME LoaderAssumption == Loader \in Threads

VARIABLES
  host,         \* [target, cpu, env, six: FP_LIMBS is 6]
  pending,      \* constructors not yet run
  phase,        \* "loading" or "main"
  fp_addsub_use_asm, fp_mul_use_asm, fp2_lazy_ok,
  pc, reg,      \* of each thread: where its multiplication is, what it read
  ran           \* and the kernels its call has executed

vars == <<host, pending, phase, fp_addsub_use_asm, fp_mul_use_asm, fp2_lazy_ok,
          pc, reg, ran>>
flags == <<fp_addsub_use_asm, fp_mul_use_asm, fp2_lazy_ok>>

Hosts == [target : {"x86_64", "aarch64", "other"},
          cpu : SUBSET {"leaf 7", "BMI2", "ADX"},
          env : SUBSET {"ELIPS_NO_ASM", "ELIPS_NO_ASM_ADDSUB"},
          six : BOOLEAN]

(* The lazy tower is compiled for six limbs only (fpx.c:132).              *)
ELIPS_HAVE_LAZY_FP6 == host.target = "x86_64" /\ host.six

Init ==
  /\ host \in Hosts /\ phase = "loading"
  /\ pending = CASE host.target = "x86_64" -> {"addsub", "mul"}
                 [] host.target = "aarch64" -> {"mul"}
                 [] OTHER -> {}
  /\ fp_addsub_use_asm = IF host.target = "x86_64" THEN 1 ELSE 0
  /\ fp_mul_use_asm = 0 /\ fp2_lazy_ok = -1
  /\ pc = [h \in Threads |-> "idle"] /\ reg = [h \in Threads |-> -1]
  /\ ran = [h \in Threads |-> {}]

-----------------------------------------------------------------------------
EitherFeature ==                                              \* variant
  host.target = "x86_64" => host.cpu \cap {"BMI2", "ADX"} # {}

asm_available ==
  host.target = "x86_64" => {"leaf 7", "BMI2", "ADX"} \subseteq host.cpu

Constructing(c) == /\ phase = "loading" /\ c \in pending /\ pc[Loader] = "idle"
                   /\ pending' = pending \ {c}
                   /\ UNCHANGED <<host, phase, fp2_lazy_ok, pc, reg, ran>>

fp_addsub_select_backend ==
  /\ Constructing("addsub")
  /\ fp_addsub_use_asm' = IF host.env # {} THEN 0 ELSE fp_addsub_use_asm
  /\ UNCHANGED fp_mul_use_asm

fp_mul_select_backend ==
  /\ Constructing("mul")
  /\ fp_mul_use_asm' =
       IF "ELIPS_NO_ASM" \in host.env THEN fp_mul_use_asm
       ELSE IF asm_available THEN 1 ELSE 0
  /\ UNCHANGED fp_addsub_use_asm

Loaded == /\ phase = "loading" /\ pending = {} /\ pc[Loader] = "idle"
          /\ phase' = "main"
          /\ UNCHANGED <<host, pending, flags, pc, reg, ran>>

-----------------------------------------------------------------------------
(* What a call to each dispatcher of fp.c executes.                        *)
AddKernel == IF fp_addsub_use_asm = 1 THEN "adc" ELSE "portable"

MulKernel == IF fp_mul_use_asm = 0 THEN "portable"
             ELSE IF host.target = "x86_64" THEN "mulx" ELSE "umulh"

Mulx == fp_mul_use_asm = 1 /\ host.target = "x86_64"  \* fp_mul_backend()

Goto(h, place) == pc' = [pc EXCEPT ![h] = place]
Runs(h, kernels) == ran' = [ran EXCEPT ![h] = @ \cup kernels]
Local == UNCHANGED <<host, pending, phase, flags>>

MayCall(h) == pc[h] = "idle" /\ (phase = "main" \/ h = Loader)

FpAdd(h) == /\ MayCall(h) /\ Goto(h, "done") /\ Runs(h, {AddKernel})
            /\ Local /\ UNCHANGED reg

FpMul(h) == /\ MayCall(h) /\ Goto(h, "done") /\ Runs(h, {MulKernel})
            /\ Local /\ UNCHANGED reg

(* fp6_mul and the line multiply ask each time; the eager forms multiply   *)
(* in Fp2.                                                                 *)
Fp6Mul(h) ==
  /\ MayCall(h)
  /\ IF ELIPS_HAVE_LAZY_FP6 /\ Mulx
     THEN Goto(h, "done") /\ Runs(h, {"mulx", AddKernel})
     ELSE /\ Goto(h, IF ELIPS_HAVE_LAZY_FP6 THEN "load" ELSE "eager")
          /\ Runs(h, {AddKernel})
  /\ Local /\ UNCHANGED reg

Fp2Mul(h) ==
  /\ MayCall(h) /\ Goto(h, IF ELIPS_HAVE_LAZY_FP6 THEN "load" ELSE "eager")
  /\ Local /\ UNCHANGED <<reg, ran>>

LoadFlag(h) == /\ pc[h] = "load" /\ reg' = [reg EXCEPT ![h] = fp2_lazy_ok]
               /\ Goto(h, IF fp2_lazy_ok < 0 THEN "evaluate" ELSE "test")
               /\ Local /\ UNCHANGED ran

Evaluate(h) == /\ pc[h] = "evaluate" /\ Goto(h, "write")
               /\ reg' = [reg EXCEPT ![h] = IF Mulx THEN 1 ELSE 0]
               /\ Local /\ UNCHANGED ran

ClaimsFirst(h) == IF fp2_lazy_ok = -1 THEN 0 ELSE reg[h]  \* variant: taken

Stored(h) == reg[h]

Write(h) == /\ pc[h] = "write" /\ Goto(h, "test")
            /\ fp2_lazy_ok' = Stored(h)
            /\ UNCHANGED <<host, pending, phase, fp_addsub_use_asm,
                           fp_mul_use_asm, reg, ran>>

(* The flag is read again, or the register that holds it is: with plain    *)
(* accesses the build decides.                                             *)
Test(h) ==
  /\ pc[h] = "test"
  /\ \E seen \in {reg[h], fp2_lazy_ok} :
       IF seen # 0 THEN Goto(h, "done") /\ Runs(h, {"mulx"})
                   ELSE Goto(h, "eager") /\ UNCHANGED ran
  /\ Local /\ UNCHANGED reg

Eager(h) == /\ pc[h] = "eager" /\ Goto(h, "done")
            /\ Runs(h, {MulKernel, AddKernel})
            /\ Local /\ UNCHANGED reg

Return(h) == /\ pc[h] = "done" /\ Goto(h, "idle")
             /\ ran' = [ran EXCEPT ![h] = {}]
             /\ Local /\ UNCHANGED reg

Step(h) == \/ FpAdd(h) \/ FpMul(h) \/ Fp6Mul(h) \/ Fp2Mul(h) \/ LoadFlag(h)
           \/ Evaluate(h) \/ Write(h) \/ Test(h) \/ Eager(h) \/ Return(h)

Next == \/ fp_addsub_select_backend \/ fp_mul_select_backend \/ Loaded
        \/ \E h \in Threads : Step(h)

Spec == Init /\ [][Next]_vars

-----------------------------------------------------------------------------
Capable == host.target = "x86_64" /\ {"leaf 7", "BMI2", "ADX"} \subseteq host.cpu

(* No thread executes an instruction its processor lacks, whichever way    *)
(* the threads race for the flag and whoever multiplied first; and once    *)
(* the library is loaded the environment is obeyed, by the tower's cached  *)
(* answer too (fp.c:124, fp.c:294, fpx.c:259).                             *)
KernelsAreRunnable ==
  \A h \in Threads :
    /\ "mulx" \in ran[h] => Capable
    /\ "adc" \in ran[h] => host.target = "x86_64"
    /\ "umulh" \in ran[h] => host.target = "aarch64"
    /\ phase = "main" /\ "ELIPS_NO_ASM" \in host.env => ran[h] \subseteq {"portable"}
    /\ phase = "main" /\ host.env # {} => "adc" \notin ran[h]

(* The write is idempotent: once the flag has a value no thread changes    *)
(* it, even where it was cached before the constructors ran (fpx.c:249).   *)
FlagSettles == [][fp2_lazy_ok # -1 => fp2_lazy_ok' = fp2_lazy_ok]_vars

=============================================================================
