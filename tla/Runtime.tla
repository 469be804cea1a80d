------------------------------- MODULE Runtime -------------------------------
(***************************************************************************)
(* What surrounds a call, one part at a time: threads, one of them the     *)
(* loader, on every kind of host, each in any number of operations; and    *)
(* calls of every operation through the two bindings, with arguments of    *)
(* every form.  The proofs below are about the three parts, for any number *)
(* of threads and of growths of the instance's memory, and from them about *)
(* the whole.                                                              *)
(***************************************************************************)
EXTENDS RuntimeBackend, Bindings, SequenceTheorems, TLAPS

VARIABLE part

(* Both bindings' state, and the one host on which calls are made.         *)
bindingVars == <<jsVars, pyVars>>

AnyHost == CHOOSE some \in Hosts : some.target = "other"

RuntimeInit == /\ part \in {"backend", "javascript", "python"}
               /\ Init /\ (part # "backend" => host = AnyHost)
               /\ JsInit /\ PyInit

Multiplies == part = "backend" /\ Next /\ UNCHANGED <<part, bindingVars>>
FromJs == part = "javascript" /\ JsNext /\ UNCHANGED <<part, vars>>
FromPython == part = "python" /\ PyNext /\ UNCHANGED <<part, vars>>

RuntimeSpec == /\ RuntimeInit
               /\ [][Multiplies \/ FromJs \/ FromPython]_<<part, vars, bindingVars>>

-----------------------------------------------------------------------------
(* For any number of threads.  The choice cannot change once other threads *)
(* run, so every value about to be written is the one already there, and   *)
(* what a thread read before it tests is what the flag holds.              *)
TypeOK ==
  /\ host \in Hosts /\ pending \subseteq {"addsub", "mul"}
  /\ phase \in {"loading", "main"}
  /\ fp_addsub_use_asm \in {0, 1} /\ fp_mul_use_asm \in {0, 1}
  /\ fp2_lazy_ok \in {-1, 0, 1}
  /\ pc \in [Threads -> {"idle", "load", "evaluate", "write", "test", "eager", "done"}]
  /\ reg \in [Threads -> {-1, 0, 1}]
  /\ ran \in [Threads -> SUBSET {"portable", "adc", "mulx", "umulh"}]

(* What the constructors may have chosen so far.                           *)
Choice ==
  /\ phase = "main" => pending = {}
  /\ "mul" \in pending => fp_mul_use_asm = 0 /\ host.target # "other"
  /\ fp_mul_use_asm = 1 =>
       /\ host.target = "aarch64" \/ Capable
       /\ "ELIPS_NO_ASM" \notin host.env
  /\ fp_addsub_use_asm = 1 =>
       host.target = "x86_64" /\ ("addsub" \in pending \/ host.env = {})
  /\ fp2_lazy_ok = 1 => Mulx

(* Only the loader's thread runs while the library is loaded.              *)
OneAtATime == phase = "loading" => \A h \in Threads : h # Loader => pc[h] = "idle"

(* What a thread that is about to write or test the flag knows of it.      *)
Caching ==
  \A h \in Threads :
    /\ pc[h] = "idle" => ran[h] = {}
    /\ pc[h] = "write" => /\ reg[h] = (IF Mulx THEN 1 ELSE 0)
                          /\ fp2_lazy_ok \in {-1, reg[h]}
    /\ pc[h] = "test" => reg[h] = fp2_lazy_ok /\ fp2_lazy_ok # -1
    /\ pc[h] = "evaluate" => fp2_lazy_ok \in {-1, IF Mulx THEN 1 ELSE 0}

IInv == TypeOK /\ Choice /\ OneAtATime /\ Caching /\ KernelsAreRunnable

(* The parts of a host.                                                    *)
LEMMA HostParts ==
  ASSUME host \in Hosts
  PROVE  /\ host.target \in {"x86_64", "aarch64", "other"}
         /\ host.env \subseteq {"ELIPS_NO_ASM", "ELIPS_NO_ASM_ADDSUB"}
BY DEF Hosts

(* Nothing has run when loading starts.                                    *)
LEMMA InitIInv == Init => IInv
<1>. SUFFICES ASSUME Init PROVE IInv  OBVIOUS
<1>1. TypeOK  BY HostParts DEF Init, TypeOK
<1>2. Choice /\ OneAtATime /\ Caching /\ KernelsAreRunnable
  BY HostParts DEF Init, Choice, OneAtATime, Caching, KernelsAreRunnable, Mulx
<1>. QED  BY <1>1, <1>2 DEF IInv

(* While a constructor runs no call is in progress.                        *)
LEMMA AllIdle ==
  ASSUME IInv, phase = "loading", pc[Loader] = "idle"
  PROVE  \A h \in Threads : pc[h] = "idle" /\ ran[h] = {}
BY DEF IInv, OneAtATime, Caching

(* The two constructors of fp.c.                                           *)
LEMMA ConstructorsKeep ==
  ASSUME IInv, fp_addsub_select_backend \/ fp_mul_select_backend
  PROVE  IInv'
<1>. USE DEF IInv
<1>1. \A h \in Threads : pc[h] = "idle" /\ ran[h] = {}
  BY AllIdle DEF fp_addsub_select_backend, fp_mul_select_backend, Constructing
<1>2. TypeOK'
  BY DEF TypeOK, fp_addsub_select_backend, fp_mul_select_backend, Constructing
<1>3. Choice'
  <2>1. CASE fp_addsub_select_backend
    <3>1. /\ host' = host /\ phase' = "loading" /\ fp2_lazy_ok' = fp2_lazy_ok
          /\ fp_mul_use_asm' = fp_mul_use_asm /\ pending' = pending \ {"addsub"}
          /\ fp_addsub_use_asm' = 1 => host.env = {} /\ fp_addsub_use_asm = 1
      BY <2>1 DEF fp_addsub_select_backend, Constructing
    <3>. QED  BY <3>1 DEF Choice, Mulx, Capable
  <2>2. CASE fp_mul_select_backend
    <3>1. /\ host' = host /\ phase' = "loading" /\ fp2_lazy_ok' = fp2_lazy_ok
          /\ fp_addsub_use_asm' = fp_addsub_use_asm /\ "mul" \in pending
          /\ pending' = pending \ {"mul"}
      BY <2>2 DEF fp_mul_select_backend, Constructing
    <3>2. fp_mul_use_asm = 0 /\ host.target # "other"  BY <3>1 DEF Choice
    <3>3. fp_mul_use_asm' = 1 =>
            asm_available /\ "ELIPS_NO_ASM" \notin host.env
      BY <2>2, <3>2 DEF fp_mul_select_backend
    <3>4. fp2_lazy_ok # 1  BY <3>2 DEF Choice, Mulx
    <3>5. host.target = "aarch64" \/ host.target = "x86_64"
      BY <3>2, HostParts DEF TypeOK
    <3>. QED  BY <3>1, <3>3, <3>4, <3>5 DEF Choice, Mulx, Capable, asm_available
  <2>. QED  BY <2>1, <2>2
<1>4. OneAtATime' /\ Caching' /\ KernelsAreRunnable'
  BY <1>1 DEF OneAtATime, Caching, KernelsAreRunnable, Constructing,
     fp_addsub_select_backend, fp_mul_select_backend
<1>. QED  BY <1>2, <1>3, <1>4

(* The end of loading: what was chosen stays.                              *)
LEMMA LoadedKeeps == IInv /\ Loaded => IInv'
<1>. SUFFICES ASSUME IInv, Loaded PROVE IInv'  OBVIOUS
<1>. USE DEF IInv
<1>1. \A h \in Threads : pc[h] = "idle" /\ ran[h] = {}  BY AllIdle DEF Loaded
<1>2. TypeOK' /\ Choice' /\ OneAtATime'
  BY DEF TypeOK, Choice, OneAtATime, Loaded, flags, Mulx, Capable
<1>3. Caching' /\ KernelsAreRunnable'
  BY <1>1 DEF Caching, KernelsAreRunnable, Loaded, flags
<1>. QED  BY <1>2, <1>3

-----------------------------------------------------------------------------
(* A step of a thread that leaves the flags alone touches its own place,   *)
(* register and kernels: the rest follows from what these are.             *)
OwnStep(h) ==
  /\ Local
  /\ pc' = [pc EXCEPT ![h] = pc'[h]] /\ reg' = [reg EXCEPT ![h] = reg'[h]]
  /\ ran' = [ran EXCEPT ![h] = ran'[h]]

(* Kernels the host can run and the environment has not turned off.        *)
Runnable(kernels) ==
  /\ "mulx" \in kernels => Capable
  /\ "adc" \in kernels => host.target = "x86_64"
  /\ "umulh" \in kernels => host.target = "aarch64"
  /\ phase = "main" /\ "ELIPS_NO_ASM" \in host.env => kernels \subseteq {"portable"}
  /\ phase = "main" /\ host.env # {} => "adc" \notin kernels

(* A step that runs only kernels the host can run.                         *)
LEMMA OwnStepKeeps ==
  ASSUME IInv, NEW h \in Threads, OwnStep(h),
         phase = "loading" => h = Loader,
         pc'[h] \in {"idle", "load", "evaluate", "write", "test", "eager", "done"},
         reg'[h] \in {-1, 0, 1},
         ran'[h] \subseteq {"portable", "adc", "mulx", "umulh"},
         Runnable(ran'[h]),
         pc'[h] = "idle" => ran'[h] = {},
         pc'[h] = "evaluate" => fp2_lazy_ok \in {-1, IF Mulx THEN 1 ELSE 0},
         pc'[h] = "write" => /\ reg'[h] = (IF Mulx THEN 1 ELSE 0)
                             /\ fp2_lazy_ok \in {-1, reg'[h]},
         pc'[h] = "test" => reg'[h] = fp2_lazy_ok /\ fp2_lazy_ok # -1
  PROVE  IInv'
<1>. USE DEF IInv
<1>1. TypeOK'  BY DEF TypeOK, OwnStep, Local, flags
<1>2. Choice'  BY DEF Choice, OwnStep, Local, flags, Mulx, Capable
<1>3. OneAtATime'  BY DEF OneAtATime, TypeOK, OwnStep, Local, flags
<1>4. Caching'
  <2>. SUFFICES ASSUME NEW g \in Threads
                PROVE  /\ pc'[g] = "idle" => ran'[g] = {}
                       /\ pc'[g] = "write" => /\ reg'[g] = (IF Mulx THEN 1 ELSE 0)
                                              /\ fp2_lazy_ok \in {-1, reg'[g]}
                       /\ pc'[g] = "test" => reg'[g] = fp2_lazy_ok /\ fp2_lazy_ok # -1
                       /\ pc'[g] = "evaluate" =>
                            fp2_lazy_ok \in {-1, IF Mulx THEN 1 ELSE 0}
    BY DEF Caching, OwnStep, Local, flags, Mulx
  <2>1. CASE g = h  BY <2>1
  <2>2. CASE g # h
    BY <2>2 DEF Caching, TypeOK, OwnStep
  <2>. QED  BY <2>1, <2>2
<1>5. KernelsAreRunnable'
  <2>. SUFFICES ASSUME NEW g \in Threads PROVE Runnable(ran'[g])
    BY DEF KernelsAreRunnable, Runnable, OwnStep, Local, Capable
  <2>1. CASE g = h  BY <2>1
  <2>2. CASE g # h
    BY <2>2 DEF KernelsAreRunnable, Runnable, TypeOK, OwnStep
  <2>. QED  BY <2>1, <2>2
<1>. QED  BY <1>1, <1>2, <1>3, <1>4, <1>5

(* What the dispatchers of fp.c may execute (fp.c:140, fp.c:300).          *)
LEMMA DispatchIsRunnable ==
  ASSUME IInv
  PROVE  /\ Runnable({AddKernel}) /\ Runnable({MulKernel})
         /\ Mulx => Runnable({"mulx"})
         /\ {AddKernel, MulKernel} \subseteq {"portable", "adc", "mulx", "umulh"}
<1>. USE DEF IInv
<1>1. Runnable({AddKernel})
  BY DEF AddKernel, Runnable, Choice, TypeOK
<1>2. Runnable({MulKernel})
  BY HostParts DEF MulKernel, Runnable, Choice, TypeOK, Capable
<1>3. Mulx => Runnable({"mulx"})
  BY DEF Mulx, Runnable, Choice, TypeOK, Capable
<1>4. {AddKernel, MulKernel} \subseteq {"portable", "adc", "mulx", "umulh"}
  BY DEF AddKernel, MulKernel
<1>. QED  BY <1>1, <1>2, <1>3, <1>4

(* Two sets of kernels that the host can run.                              *)
LEMMA RunnableUnion ==
  ASSUME NEW A, NEW B, Runnable(A), Runnable(B) PROVE Runnable(A \cup B)
BY DEF Runnable

(* What a thread has run is runnable.                                      *)
LEMMA RanIsRunnable ==
  ASSUME IInv, NEW h \in Threads PROVE Runnable(ran[h])
BY DEF IInv, KernelsAreRunnable, Runnable

(* What a step of thread h that is its own has to show (fpx.c:256-264).    *)
Safe(h, place, value, kernels) ==
  /\ place \in {"idle", "load", "evaluate", "write", "test", "eager", "done"}
  /\ value \in {-1, 0, 1}
  /\ kernels \subseteq {"portable", "adc", "mulx", "umulh"} /\ Runnable(kernels)
  /\ place = "idle" => kernels = {}
  /\ place = "evaluate" => fp2_lazy_ok \in {-1, IF Mulx THEN 1 ELSE 0}
  /\ place = "write" => value = (IF Mulx THEN 1 ELSE 0) /\ fp2_lazy_ok \in {-1, value}
  /\ place = "test" => value = fp2_lazy_ok /\ fp2_lazy_ok # -1

(* A step that leaves the flag alone, and knows it where it must.          *)
LEMMA SafeStepKeeps ==
  ASSUME IInv, NEW h \in Threads, NEW place, NEW value, NEW kernels,
         Safe(h, place, value, kernels), Local,
         phase = "loading" => h = Loader,
         pc' = [pc EXCEPT ![h] = place], reg' = [reg EXCEPT ![h] = value],
         ran' = [ran EXCEPT ![h] = kernels]
  PROVE  IInv'
<1>1. pc'[h] = place /\ reg'[h] = value /\ ran'[h] = kernels
  BY DEF IInv, TypeOK
<1>2. OwnStep(h)  BY <1>1 DEF OwnStep
<1>. QED  BY <1>1, <1>2, OwnStepKeeps DEF Safe

(* Every step of a thread but the write of the flag.                       *)
LEMMA LocalStepKeeps ==
  ASSUME IInv, NEW h \in Threads,
         \/ FpAdd(h) \/ FpMul(h) \/ Fp6Mul(h) \/ Fp2Mul(h) \/ LoadFlag(h)
         \/ Evaluate(h) \/ Test(h) \/ Eager(h) \/ Return(h)
  PROVE  IInv'
<1>. TypeOK /\ Choice /\ Caching  BY DEF IInv
<1>1. /\ Runnable(ran[h]) /\ Runnable({AddKernel}) /\ Runnable({MulKernel})
      /\ Mulx => Runnable({"mulx"})
      /\ {AddKernel, MulKernel} \subseteq {"portable", "adc", "mulx", "umulh"}
  BY RanIsRunnable, DispatchIsRunnable
<1>2. reg[h] \in {-1, 0, 1} /\ ran[h] \subseteq {"portable", "adc", "mulx", "umulh"}
  BY DEF TypeOK
<1>3. phase = "loading" => h = Loader
  BY DEF IInv, OneAtATime, MayCall, FpAdd, FpMul, Fp6Mul, Fp2Mul, LoadFlag,
     Evaluate, Test, Eager, Return
<1>4. reg = [reg EXCEPT ![h] = reg[h]] /\ ran = [ran EXCEPT ![h] = ran[h]]
  BY DEF TypeOK
<1>5. CASE FpAdd(h)
  <2>1. Safe(h, "done", reg[h], ran[h] \cup {AddKernel})
    BY <1>1, <1>2, RunnableUnion DEF Safe
  <2>. QED  BY <1>3, <1>4, <1>5, <2>1, SafeStepKeeps DEF FpAdd, Goto, Runs
<1>6. CASE FpMul(h)
  <2>1. Safe(h, "done", reg[h], ran[h] \cup {MulKernel})
    BY <1>1, <1>2, RunnableUnion DEF Safe
  <2>. QED  BY <1>3, <1>4, <1>6, <2>1, SafeStepKeeps DEF FpMul, Goto, Runs
<1>7. CASE Fp6Mul(h)
  <2>1. CASE ELIPS_HAVE_LAZY_FP6 /\ Mulx
    <3>1. Runnable({"mulx"} \cup {AddKernel})  BY <1>1, <2>1, RunnableUnion
    <3>2. {"mulx"} \cup {AddKernel} = {"mulx", AddKernel}  OBVIOUS
    <3>3. Safe(h, "done", reg[h], ran[h] \cup {"mulx", AddKernel})
      BY <1>1, <1>2, <3>1, <3>2, RunnableUnion DEF Safe
    <3>. QED  BY <1>3, <1>4, <1>7, <2>1, <3>3, SafeStepKeeps DEF Fp6Mul, Goto, Runs
  <2>2. CASE ~(ELIPS_HAVE_LAZY_FP6 /\ Mulx)
    <3>. DEFINE place == IF ELIPS_HAVE_LAZY_FP6 THEN "load" ELSE "eager"
    <3>1. Safe(h, place, reg[h], ran[h] \cup {AddKernel})
      BY <1>1, <1>2, RunnableUnion DEF Safe
    <3>. QED  BY <1>3, <1>4, <1>7, <2>2, <3>1, SafeStepKeeps DEF Fp6Mul, Goto, Runs
  <2>. QED  BY <2>1, <2>2
<1>8. CASE Fp2Mul(h)
  <2>. DEFINE place == IF ELIPS_HAVE_LAZY_FP6 THEN "load" ELSE "eager"
  <2>1. Safe(h, place, reg[h], ran[h])  BY <1>1, <1>2 DEF Safe
  <2>. QED  BY <1>3, <1>4, <1>8, <2>1, SafeStepKeeps DEF Fp2Mul, Goto
<1>9. CASE LoadFlag(h)
  <2>. DEFINE place == IF fp2_lazy_ok < 0 THEN "evaluate" ELSE "test"
  <2>1. Safe(h, place, fp2_lazy_ok, ran[h])  BY <1>1, <1>2 DEF Safe, TypeOK
  <2>. QED  BY <1>3, <1>4, <1>9, <2>1, SafeStepKeeps DEF LoadFlag, Goto
<1>10. CASE Evaluate(h)
  <2>. DEFINE value == IF Mulx THEN 1 ELSE 0
  <2>1. Safe(h, "write", value, ran[h])
    BY <1>1, <1>2, <1>10 DEF Safe, Evaluate, Caching
  <2>. QED  BY <1>3, <1>4, <1>10, <2>1, SafeStepKeeps DEF Evaluate, Goto
<1>11. CASE Test(h)
  <2>1. reg[h] = fp2_lazy_ok /\ fp2_lazy_ok # -1  BY <1>11 DEF Test, Caching
  <2>2. CASE fp2_lazy_ok # 0
    <3>1. Mulx  BY <2>1, <2>2 DEF TypeOK, Choice
    <3>2. Safe(h, "done", reg[h], ran[h] \cup {"mulx"})
      BY <1>1, <1>2, <3>1, RunnableUnion DEF Safe
    <3>3. Goto(h, "done") /\ Runs(h, {"mulx"}) /\ Local /\ reg' = reg
      BY <1>11, <2>1, <2>2 DEF Test
    <3>. QED  BY <1>3, <1>4, <3>2, <3>3, SafeStepKeeps DEF Goto, Runs
  <2>3. CASE fp2_lazy_ok = 0
    <3>1. Safe(h, "eager", reg[h], ran[h])  BY <1>1, <1>2 DEF Safe
    <3>2. Goto(h, "eager") /\ ran' = ran /\ Local /\ reg' = reg
      BY <1>11, <2>1, <2>3 DEF Test
    <3>. QED  BY <1>3, <1>4, <3>1, <3>2, SafeStepKeeps DEF Goto
  <2>. QED  BY <2>2, <2>3
<1>12. CASE Eager(h)
  <2>1. Runnable({MulKernel} \cup {AddKernel})  BY <1>1, RunnableUnion
  <2>2. {MulKernel} \cup {AddKernel} = {MulKernel, AddKernel}  OBVIOUS
  <2>3. Safe(h, "done", reg[h], ran[h] \cup {MulKernel, AddKernel})
    BY <1>1, <1>2, <2>1, <2>2, RunnableUnion DEF Safe
  <2>. QED  BY <1>3, <1>4, <1>12, <2>3, SafeStepKeeps DEF Eager, Goto, Runs
<1>13. CASE Return(h)
  <2>1. Safe(h, "idle", reg[h], {})  BY <1>2 DEF Safe, Runnable
  <2>. QED  BY <1>3, <1>4, <1>13, <2>1, SafeStepKeeps DEF Return, Goto
<1>. QED  BY <1>5, <1>6, <1>7, <1>8, <1>9, <1>10, <1>11, <1>12, <1>13

(* What is written is what any thread that got there first wrote.          *)
LEMMA WriteKeeps ==
  ASSUME IInv, NEW h \in Threads, Write(h)
  PROVE  IInv' /\ (fp2_lazy_ok # -1 => fp2_lazy_ok' = fp2_lazy_ok)
<1>. TypeOK /\ Choice /\ Caching  BY DEF IInv
<1>1. /\ fp2_lazy_ok' = (IF Mulx THEN 1 ELSE 0) /\ fp2_lazy_ok' = reg[h]
      /\ fp2_lazy_ok \in {-1, fp2_lazy_ok'}
  BY DEF Write, Stored, Caching
<1>2. /\ UNCHANGED <<host, pending, phase, fp_addsub_use_asm, fp_mul_use_asm, reg, ran>>
      /\ pc' = [pc EXCEPT ![h] = "test"] /\ pc[h] = "write"
  BY DEF Write, Goto
<1>3. TypeOK'  BY <1>1, <1>2 DEF TypeOK
<1>4. Choice'
  <2>1. Mulx' = Mulx /\ Capable' = Capable  BY <1>2 DEF Mulx, Capable
  <2>2. fp2_lazy_ok' = 1 => Mulx  BY <1>1
  <2>. QED  BY <1>2, <2>1, <2>2 DEF Choice
<1>5. OneAtATime'  BY <1>2 DEF IInv, OneAtATime, TypeOK
<1>6. Caching'
  <2>. SUFFICES ASSUME NEW g \in Threads
                PROVE  /\ pc'[g] = "idle" => ran[g] = {}
                       /\ pc'[g] = "write" => /\ reg[g] = (IF Mulx THEN 1 ELSE 0)
                                              /\ fp2_lazy_ok' \in {-1, reg[g]}
                       /\ pc'[g] = "test" => reg[g] = fp2_lazy_ok' /\ fp2_lazy_ok' # -1
                       /\ pc'[g] = "evaluate" =>
                            fp2_lazy_ok' \in {-1, IF Mulx THEN 1 ELSE 0}
    BY <1>2 DEF Caching, Mulx
  <2>1. CASE g = h  BY <2>1, <1>1, <1>2 DEF TypeOK
  <2>2. CASE g # h
    <3>1. pc'[g] = pc[g]  BY <2>2, <1>2 DEF TypeOK
    <3>. QED  BY <3>1, <1>1 DEF Caching
  <2>. QED  BY <2>1, <2>2
<1>7. KernelsAreRunnable'  BY <1>2 DEF IInv, KernelsAreRunnable, Capable
<1>. QED  BY <1>1, <1>3, <1>4, <1>5, <1>6, <1>7 DEF IInv

(* Every step of the library keeps the invariant.                          *)
LEMMA NextIInv == IInv /\ [Next]_vars => IInv'
<1>. SUFFICES ASSUME IInv, [Next]_vars PROVE IInv'  OBVIOUS
<1>1. CASE fp_addsub_select_backend \/ fp_mul_select_backend
  BY <1>1, ConstructorsKeep
<1>2. CASE Loaded  BY <1>2, LoadedKeeps
<1>3. CASE \E h \in Threads : Step(h)
  BY <1>3, LocalStepKeeps, WriteKeeps DEF Step
<1>4. CASE UNCHANGED vars
  BY <1>4 DEF vars, IInv, TypeOK, Choice, OneAtATime, Caching,
     KernelsAreRunnable, Mulx, Capable
<1>. QED  BY <1>1, <1>2, <1>3, <1>4 DEF Next

(* The choice, the cache and every thread agree, at every step (fp.c:124,  *)
(* fp.c:294, fpx.c:256).                                                   *)
THEOREM BackendInductive == Spec => []IInv
BY InitIInv, NextIInv, PTL DEF Spec

(* No thread ever executes an instruction the processor lacks, nor one the *)
(* environment turned off, for any number of threads (fp.c:294).           *)
THEOREM BackendIsRunnable == Spec => []KernelsAreRunnable
<1>1. IInv => KernelsAreRunnable  BY DEF IInv
<1>. QED  BY <1>1, BackendInductive, PTL

(* The racing writes of the cached answer write one value (fpx.c:250).     *)
THEOREM BackendSettles == Spec => FlagSettles
<1>1. IInv /\ [Next]_vars => [fp2_lazy_ok # -1 => fp2_lazy_ok' = fp2_lazy_ok]_vars
  <2>. SUFFICES ASSUME IInv, Next
                PROVE  fp2_lazy_ok # -1 => fp2_lazy_ok' = fp2_lazy_ok
    OBVIOUS
  <2>1. CASE \E h \in Threads : Write(h)  BY <2>1, WriteKeeps
  <2>2. CASE ~\E h \in Threads : Write(h)
    BY <2>2 DEF Next, Step, fp_addsub_select_backend, fp_mul_select_backend,
       Constructing, Loaded, flags, Local, FpAdd, FpMul, Fp6Mul, Fp2Mul, LoadFlag,
       Evaluate, Test, Eager, Return
  <2>. QED  BY <2>1, <2>2
<1>. QED  BY <1>1, BackendInductive, PTL DEF Spec, FlagSettles

-----------------------------------------------------------------------------
(* A list of different names.                                              *)
Names(s, S) == /\ s \in Seq(S) /\ DOMAIN s = 1 .. Len(s) /\ Len(s) \in Nat /\ Range(s) = S
               /\ \A j, k \in DOMAIN s : s[j] = s[k] => j = k

(* The lists of one, two, three, four and six names.                       *)
LEMMA OneName == ASSUME NEW a PROVE Names(<<a>>, {a})
BY DEF Names, Range

LEMMA TwoNames == ASSUME NEW a, NEW b, a # b PROVE Names(<<a, b>>, {a, b})
BY DEF Names, Range

LEMMA ThreeNames ==
  ASSUME NEW a, NEW b, NEW c, a # b, a # c, b # c PROVE Names(<<a, b, c>>, {a, b, c})
BY DEF Names, Range

LEMMA FourNames ==
  ASSUME NEW a, NEW b, NEW c, NEW d, a # b, a # c, a # d, b # c, b # d, c # d
  PROVE Names(<<a, b, c, d>>, {a, b, c, d})
BY DEF Names, Range

LEMMA SixNames ==
  ASSUME NEW a, NEW b, NEW c, NEW d, NEW e, NEW f,
         a # b, a # c, a # d, a # e, a # f, b # c, b # d, b # e, b # f,
         c # d, c # e, c # f, d # e, d # f, e # f
  PROVE  Names(<<a, b, c, d, e, f>>, {a, b, c, d, e, f})
BY DEF Names, Range

(* A new name before the others.                                           *)
LEMMA NameBefore ==
  ASSUME NEW a, NEW s, NEW S, Names(s, S), a \notin S
  PROVE  Names(<<a>> \o s, S \cup {a})
<1> DEFINE h == <<a>>
           w == h \o s
           T == S \cup {a}
           n == Len(s)
<1>1. s \in Seq(T) /\ n \in Nat /\ h \in Seq(T) /\ Len(h) = 1 /\ h[1] = a
  BY DEF Names
<1>2. \A k \in 1 .. n : s[k] \in S  BY DEF Names
<1> HIDE DEF h
<1>3. /\ w \in Seq(T) /\ Len(w) = n + 1
      /\ \A k \in 1 .. n + 1 : w[k] = IF k = 1 THEN a ELSE s[k - 1]
  <2>1. /\ w \in Seq(T) /\ Len(w) = Len(h) + Len(s)
        /\ \A k \in 1 .. Len(h) + Len(s) : w[k] = IF k <= Len(h) THEN h[k] ELSE s[k - Len(h)]
    BY <1>1, ConcatProperties
  <2> HIDE DEF w
  <2>2. 1 + n = n + 1  BY <1>1
  <2>. QED  BY <1>1, <2>1, <2>2
<1> HIDE DEF w, T
<1>4. DOMAIN w = 1 .. n + 1  BY <1>1, <1>3
<1>5. Range(w) = T
  <2>1. ASSUME NEW x \in T PROVE x \in Range(w)
    <3>1. CASE x = a
      <4>1. 1 \in DOMAIN w /\ w[1] = a  BY <1>1, <1>3, <1>4
      <4>. QED  BY <3>1, <4>1 DEF Range
    <3>2. CASE x # a
      <4>1. PICK k \in 1 .. n : x = s[k]  BY <3>2 DEF T, Names, Range
      <4>2. k + 1 \in DOMAIN w /\ w[k + 1] = s[k]  BY <1>1, <1>3, <1>4
      <4>. QED  BY <4>1, <4>2 DEF Range
    <3>. QED  BY <3>1, <3>2
  <2>2. Range(w) \subseteq T  BY <1>3, <1>4 DEF Range
  <2>. QED  BY <2>1, <2>2
<1>6. ASSUME NEW j \in DOMAIN w, NEW k \in DOMAIN w, w[j] = w[k] PROVE j = k
  <2>1. \A x \in 1 .. n + 1 : x # 1 => x - 1 \in 1 .. n  BY <1>1
  <2>2. \A x \in 1 .. n + 1 : x # 1 => w[x] = s[x - 1] /\ w[x] # a  BY <1>2, <1>3, <2>1
  <2>3. w[1] = a  BY <1>1, <1>3
  <2>4. CASE j = 1 \/ k = 1  BY <1>4, <1>6, <2>2, <2>3, <2>4
  <2>5. CASE j # 1 /\ k # 1
    <3>1. s[j - 1] = s[k - 1]  BY <1>4, <1>6, <2>2, <2>5
    <3>2. j - 1 = k - 1  BY <1>4, <2>1, <2>5, <3>1 DEF Names
    <3>. QED  BY <1>1, <1>4, <3>2
  <2>. QED  BY <2>4, <2>5
<1>. QED  BY <1>1, <1>3, <1>4, <1>5, <1>6 DEF Names, w, h, T

(* The names a call checks, as a set.                                      *)
CheckNames(c) ==
  CASE c = "keygen" -> {"ikm"}
    [] c \in {"skToPk", "popProve"} -> {"sk"}
    [] c = "pkValidate" -> {"pk"}
    [] c = "sign" -> {"sk", "msg"}
    [] c = "verify" -> {"pk", "sig", "msg"}
    [] c = "aggregate" -> {"sigs"}
    [] c = "aggregateVerify" -> {"pks", "msg", "msg2", "sig"}
    [] c = "fastAggregateVerify" -> {"pks", "pops", "msg", "sig"}
    [] c = "popVerify" -> {"pk", "proof"}

(* Every call checks its arguments once each.                              *)
LEMMA ChecksAre ==
  ASSUME NEW c \in Calls
  PROVE  Names(Checks(c), CheckNames(c))
<1>1. CASE c = "keygen"  BY <1>1, OneName DEF Checks, CheckNames
<1>2. CASE c \in {"skToPk", "popProve"}  BY <1>2, OneName DEF Checks, CheckNames
<1>3. CASE c = "pkValidate"  BY <1>3, OneName DEF Checks, CheckNames
<1>4. CASE c = "sign"  BY <1>4, TwoNames DEF Checks, CheckNames
<1>5. CASE c = "verify"  BY <1>5, ThreeNames DEF Checks, CheckNames
<1>6. CASE c = "aggregate"  BY <1>6, OneName DEF Checks, CheckNames
<1>7. CASE c = "aggregateVerify"  BY <1>7, FourNames DEF Checks, CheckNames
<1>8. CASE c = "fastAggregateVerify"  BY <1>8, FourNames DEF Checks, CheckNames
<1>9. CASE c = "popVerify"  BY <1>9, TwoNames DEF Checks, CheckNames
<1>. QED  BY <1>1, <1>2, <1>3, <1>4, <1>5, <1>6, <1>7, <1>8, <1>9 DEF Calls

(* The names of the blocks a call allocates, as a set.                     *)
SizeNames(c) ==
  CheckNames(c) \cup (IF c = "aggregateVerify" THEN {"arr", "lens"}
                      ELSE IF c \in Gives THEN {"out"} ELSE {})

(* They have a block each, beside those for the answer and the arrays.     *)
LEMMA SizesAre ==
  ASSUME NEW c \in Calls
  PROVE  Names(Sizes(c), SizeNames(c))
<1>1. CASE c = "verify"
  <2>1. Sizes(c) = <<"pk", "msg", "sig">>  BY <1>1 DEF Sizes, Gives
  <2>2. SizeNames(c) = {"pk", "msg", "sig"}  BY <1>1 DEF SizeNames, CheckNames, Gives
  <2>. QED  BY <2>1, <2>2, ThreeNames
<1>2. CASE c = "aggregateVerify"
  <2>1. Sizes(c) = <<"pks", "sig", "arr", "lens", "msg", "msg2">>  BY <1>2 DEF Sizes, Gives
  <2>2. SizeNames(c) = {"pks", "sig", "arr", "lens", "msg", "msg2"}
    BY <1>2 DEF SizeNames, CheckNames
  <2>. QED  BY <2>1, <2>2, SixNames
<1>3. CASE c \in Gives
  <2>1. Sizes(c) = <<"out">> \o Checks(c)  BY <1>3 DEF Sizes, Gives
  <2>2. SizeNames(c) = CheckNames(c) \cup {"out"}  BY <1>3 DEF SizeNames, Gives
  <2>3. "out" \notin CheckNames(c)  BY DEF CheckNames, Calls
  <2>4. Names(Checks(c), CheckNames(c))  BY ChecksAre
  <2>. QED  BY <2>1, <2>2, <2>3, <2>4, NameBefore
<1>4. CASE c \notin {"verify", "aggregateVerify"} /\ c \notin Gives
  <2>1. Sizes(c) = Checks(c)  BY <1>4 DEF Sizes
  <2>2. SizeNames(c) = CheckNames(c)  BY <1>4 DEF SizeNames
  <2>. QED  BY <2>1, <2>2, ChecksAre
<1>. QED  BY <1>1, <1>2, <1>3, <1>4

-----------------------------------------------------------------------------
(* No argument is a mistake.                                               *)
Fine(forms) == \A a \in DOMAIN forms : forms[a] \notin {"alien", "short"}

(* The first mistake is one, and there is none only if all arguments fit.  *)
LEMMA MistakesAre ==
  ASSUME NEW c \in Calls, NEW forms, DOMAIN forms = Range(Checks(c)), NEW size,
         size # "none"
  PROVE  LET m == FirstMistake(c, forms, size)
         IN  IF Fine(forms) THEN m = "none" ELSE m \in {"TypeError", size}
<1> DEFINE s == Checks(c)
           mistake(k) == Mistake(forms[s[k]], size)
           wrong == {k \in DOMAIN s : mistake(k) # "none"}
           m == IF wrong = {} THEN "none" ELSE mistake(Min(wrong))
<1>1. FirstMistake(c, forms, size) = m  BY DEF FirstMistake
<1>2. DOMAIN s \subseteq 1 .. 4 /\ Range(s) = {s[k] : k \in DOMAIN s}
  <2>1. Len(s) <= 4  BY DEF Checks, Calls
  <2>2. DOMAIN s = 1 .. Len(s) /\ Len(s) \in Nat  BY ChecksAre DEF Names
  <2>. QED  BY <2>1, <2>2 DEF Range
<1> HIDE DEF s
<1>3. \A k : mistake(k) # "none" <=> forms[s[k]] \in {"alien", "short"}
  BY DEF Mistake
<1>4. \A k : mistake(k) # "none" => mistake(k) \in {"TypeError", size}
  BY DEF Mistake
<1> HIDE DEF mistake
<1>5. wrong = {} <=> Fine(forms)
  BY <1>2, <1>3 DEF Fine, s
<1>6. CASE wrong = {}  BY <1>1, <1>5, <1>6
<1>7. CASE wrong # {}
  <2>1. wrong \subseteq 1 .. 4  BY <1>2
  <2> DEFINE w == wrong
  <2>2. w # {} /\ w \subseteq 1 .. 4  BY <1>7, <2>1
  <2> HIDE DEF w
  <2>3. \E x \in w : \A y \in w : x <= y
    <3>1. CASE 1 \in w  BY <2>2, <3>1
    <3>2. CASE 1 \notin w /\ 2 \in w  BY <2>2, <3>2
    <3>3. CASE 1 \notin w /\ 2 \notin w /\ 3 \in w  BY <2>2, <3>3
    <3>4. CASE 1 \notin w /\ 2 \notin w /\ 3 \notin w
      <4>1. \A x \in w : x = 4  BY <2>2, <3>4
      <4>2. PICK x \in w : TRUE  BY <2>2
      <4>3. \A y \in w : x <= y  BY <4>1, <4>2
      <4>. QED  BY <4>3
    <3>. QED  BY <3>1, <3>2, <3>3, <3>4
  <2>4. Min(w) \in w  BY <2>3 DEF Min
  <2>5. mistake(Min(wrong)) # "none"  BY <2>4 DEF w
  <2>. QED  BY <1>1, <1>4, <1>5, <1>7, <2>5
<1>. QED  BY <1>6, <1>7

-----------------------------------------------------------------------------
(* Between the checks and the library: the arguments have been told right, *)
(* save by keygen, and each block has its own place or none.               *)
Preparing ==
  /\ jcall \in Calls /\ threw = "none" /\ jrc = "not run"
  /\ DOMAIN given = Range(Checks(jcall)) /\ \A a \in DOMAIN given : given[a] \in Forms(a)
  /\ jcall # "keygen" => Fine(given)
  /\ blocks \in Seq(Nat) /\ Len(blocks) <= Len(Sizes(jcall))
  /\ \A k \in DOMAIN blocks : blocks[k] \in {0, k}

(* The JavaScript binding's inductive invariant: what it returns is sound  *)
(* because of what holds while it allocates.                               *)
JsIInv ==
  /\ inits = IF modulePromise = "null" THEN 0 ELSE 1
  /\ jpc \in {"idle", "malloc", "ended"}
  /\ jpc = "idle" => blocks = <<>> /\ jrc = "not run" /\ threw = "none"
  /\ jpc # "idle" => modulePromise = "built"
  /\ jpc = "malloc" => Preparing
  /\ JsCallIsSound

(* No call has been made at the start.                                     *)
LEMMA JsInitially == JsInit => JsIInv
BY DEF JsInit, JsIInv, JsCallIsSound

(* A call enters with a mistake told or with none to tell.                 *)
LEMMA JsCalls ==
  ASSUME JsIInv, JsCall PROVE JsIInv'
<1>0. PICK call \in Calls : \E forms \in [Range(Checks(call)) ->
                                      UNION {Forms(a) : a \in Range(Checks(call))}] :
        /\ \A a \in DOMAIN forms : forms[a] \in Forms(a)
        /\ jcall' = call /\ given' = forms
        /\ threw' = IF call = "keygen" THEN "none" ELSE FirstMistake(call, forms, "RangeError")
  BY DEF JsCall
<1>1. PICK forms \in [Range(Checks(call)) -> UNION {Forms(a) : a \in Range(Checks(call))}] :
        /\ \A a \in DOMAIN forms : forms[a] \in Forms(a)
        /\ jcall' = call /\ given' = forms
        /\ threw' = IF call = "keygen" THEN "none" ELSE FirstMistake(call, forms, "RangeError")
  BY <1>0
<1>2. /\ jpc = "idle" /\ modulePromise = "built"
      /\ jpc' = (IF threw' = "none" THEN "malloc" ELSE "ended")
      /\ modulePromise' = modulePromise /\ inits' = inits /\ blocks' = blocks
      /\ read' = read /\ jrc' = jrc
  BY DEF JsCall
<1>3. inits = 1 /\ blocks = <<>> /\ jrc = "not run"  BY <1>2 DEF JsIInv
<1>4. DOMAIN forms = Range(Checks(call))  BY <1>1
<1>5. IF Fine(forms) THEN FirstMistake(call, forms, "RangeError") = "none"
      ELSE FirstMistake(call, forms, "RangeError") \in {"TypeError", "RangeError"}
  BY <1>4, MistakesAre
<1>6. CASE threw' = "none"
  <2>1. jpc' = "malloc"  BY <1>2, <1>6
  <2>2. Preparing'
    <3>1. jcall' \in Calls /\ threw' = "none" /\ jrc' = "not run"  BY <1>1, <1>2, <1>3, <1>6
    <3>2. DOMAIN given' = Range(Checks(jcall')) /\ \A a \in DOMAIN given' : given'[a] \in Forms(a)
      BY <1>1, <1>4
    <3>3. jcall' # "keygen" => Fine(given')  BY <1>1, <1>5, <1>6
    <3>4. /\ blocks' \in Seq(Nat) /\ Len(blocks') = 0 /\ DOMAIN blocks' = {}
      <4>1. <<>> \in Seq(Nat) /\ Len(<<>>) = 0 /\ DOMAIN <<>> = {}  OBVIOUS
      <4>2. blocks' = <<>>  BY <1>2, <1>3
      <4>. QED  BY <4>1, <4>2
    <3>5. Len(Sizes(jcall')) \in Nat  BY <3>1, SizesAre DEF Names
    <3>6. Len(blocks') <= Len(Sizes(jcall')) /\ \A k \in DOMAIN blocks' : blocks'[k] \in {0, k}
      BY <3>4, <3>5
    <3>. QED  BY <3>1, <3>2, <3>3, <3>4, <3>6 DEF Preparing
  <2>3. JsCallIsSound'  BY <2>1 DEF JsCallIsSound
  <2>. QED  BY <1>2, <1>3, <2>1, <2>2, <2>3 DEF JsIInv
<1>7. CASE threw' # "none"
  <2>1. jpc' = "ended" /\ ~Fine(forms) /\ threw' \in {"TypeError", "RangeError"}
    BY <1>1, <1>2, <1>5, <1>7
  <2>2. \E a \in DOMAIN given' : given'[a] \in {"alien", "short"}  BY <1>1, <2>1 DEF Fine
  <2>3. JsCallIsSound'
    BY <1>2, <1>3, <2>1, <2>2 DEF JsCallIsSound
  <2>. QED  BY <1>2, <1>3, <2>1, <2>3 DEF JsIInv
<1>. QED  BY <1>6, <1>7

(* A block at a place of its own, or a null pointer.                       *)
LEMMA JsAllocates ==
  ASSUME JsIInv, Malloc PROVE JsIInv'
<1>1. /\ jpc = "malloc" /\ Len(blocks) < Len(Sizes(jcall))
      /\ blocks' \in {Append(blocks, Len(blocks) + 1), Append(blocks, 0)}
      /\ modulePromise' = modulePromise /\ inits' = inits /\ jpc' = jpc /\ jcall' = jcall
      /\ given' = given /\ jrc' = jrc /\ threw' = threw
  BY DEF Malloc
<1>2. Preparing  BY <1>1 DEF JsIInv
<1>3. blocks \in Seq(Nat) /\ jcall \in Calls  BY <1>2 DEF Preparing
<1>4. Len(blocks) \in Nat /\ Len(Sizes(jcall)) \in Nat  BY <1>3, SizesAre DEF Names
<1>5. PICK x \in {0, Len(blocks) + 1} : blocks' = Append(blocks, x)  BY <1>1
<1>6. /\ blocks' \in Seq(Nat) /\ Len(blocks') = Len(blocks) + 1
      /\ \A k \in 1 .. Len(blocks) + 1 :
           blocks'[k] = IF k = Len(blocks) + 1 THEN x ELSE blocks[k]
  BY <1>3, <1>4, <1>5
<1>7. \A k \in DOMAIN blocks' : blocks'[k] \in {0, k}
  <2>1. ASSUME NEW k \in DOMAIN blocks' PROVE blocks'[k] \in {0, k}
    <3>1. k \in 1 .. Len(blocks) + 1  BY <1>6
    <3>2. k # Len(blocks) + 1 => k \in DOMAIN blocks  BY <1>3, <1>4, <3>1
    <3>. QED  BY <1>2, <1>6, <3>1, <3>2 DEF Preparing
  <2>. QED  BY <2>1
<1>8. Preparing'
  <2>1. Len(blocks') <= Len(Sizes(jcall'))  BY <1>1, <1>4, <1>6
  <2>2. Fine(given)' = Fine(given)  BY <1>1 DEF Fine
  <2>. QED  BY <1>1, <1>2, <1>6, <1>7, <2>1, <2>2 DEF Preparing
<1>9. JsCallIsSound'  BY <1>1 DEF JsCallIsSound
<1>. QED  BY <1>1, <1>8, <1>9 DEF JsIInv

(* An argument's pointer is that of its block.                             *)
LEMMA PointersAre ==
  ASSUME Preparing, Len(blocks) = Len(Sizes(jcall)), NEW k \in DOMAIN Sizes(jcall)
  PROVE  /\ k \in DOMAIN blocks /\ k \in Nat /\ k > 0
         /\ Pointer(Sizes(jcall)[k]) = blocks[k] /\ blocks[k] \in {0, k}
         /\ Sizes(jcall)[k] \in SizeNames(jcall)
<1> DEFINE s == Sizes(jcall)
<1>1. Names(s, SizeNames(jcall)) /\ blocks \in Seq(Nat)  BY SizesAre DEF Preparing
<1> HIDE DEF s
<1>2. DOMAIN s = 1 .. Len(s) /\ Len(s) \in Nat /\ \A j \in DOMAIN s : s[j] = s[k] => j = k
  BY <1>1 DEF Names, s
<1>3. DOMAIN blocks = DOMAIN s  BY <1>1, <1>2 DEF s
<1>4. (CHOOSE j \in DOMAIN blocks : s[j] = s[k]) = k  BY <1>2, <1>3 DEF s
<1>5. Pointer(s[k]) = blocks[k]  BY <1>4 DEF Pointer, s
<1>6. s[k] \in SizeNames(jcall)  BY <1>1 DEF Names, s
<1>7. k \in DOMAIN blocks  BY <1>3 DEF s
<1>8. blocks[k] \in {0, k}  BY <1>7 DEF Preparing
<1>9. k \in Nat /\ k > 0  BY <1>2 DEF s
<1>. QED  BY <1>5, <1>6, <1>7, <1>8, <1>9 DEF s

(* Once the null pointers that bls.c refuses are refused, an argument that *)
(* fits is held at its address, unless two messages lie over one another.  *)
LEMMA ArgumentsAreHeld ==
  ASSUME Preparing, Len(blocks) = Len(Sizes(jcall)), ~NullIsRefused, ~Overlap,
         NEW a \in DOMAIN given, given[a] = "fits"
  PROVE  Held(Pointer(a)) = a
<1> DEFINE s == Sizes(jcall)
           N == SizeNames(jcall)
<1>1. jcall \in Calls /\ Names(s, N) /\ Names(Checks(jcall), CheckNames(jcall))
  BY SizesAre, ChecksAre DEF Preparing
<1>2. a \in CheckNames(jcall) /\ a \in N /\ a # "out"
  <2>1. a \in CheckNames(jcall)  BY <1>1 DEF Preparing, Names
  <2>2. "out" \notin CheckNames(jcall)  BY <1>1 DEF CheckNames, Calls
  <2>. QED  BY <2>1, <2>2 DEF SizeNames
<1>3. PICK k \in DOMAIN s : s[k] = a  BY <1>1, <1>2 DEF Names, Range
<1>4. \A j \in DOMAIN s : /\ j \in DOMAIN blocks /\ j \in Nat /\ j > 0
                          /\ Pointer(s[j]) = blocks[j] /\ blocks[j] \in {0, j}
                          /\ s[j] \in N
  BY PointersAre
<1>5. DOMAIN blocks = DOMAIN s
  <2>1. blocks \in Seq(Nat)  BY DEF Preparing
  <2>. QED  BY <1>1, <2>1 DEF Names
<1> DEFINE here == {j \in DOMAIN blocks : s[j] # "out" /\ blocks[j] = Pointer(a)}
<1>6. Pointer(a) = blocks[k]  BY <1>3, <1>4
<1> HIDE DEF s, N
<1>7. ASSUME NEW j \in here PROVE j = k
  <2>1. j \in DOMAIN s /\ blocks[j] = blocks[k] /\ s[j] # "out"  BY <1>5, <1>6
  <2>2. CASE blocks[k] = k
    <3>1. blocks[j] = j  BY <1>3, <1>4, <2>1, <2>2
    <3>. QED  BY <2>1, <2>2, <3>1
  <2>3. CASE blocks[k] = 0
    <3>1. \A b \in N : Pointer(b) = 0 =>
            \/ b \in Messages /\ given[b] = "empty"
            \/ b \in Messages /\ jcall \in {"aggregateVerify", "fastAggregateVerify"}
            \/ b = "ikm" /\ given[b] = "absent"
      BY <1>1 DEF NullIsRefused, Names, N, s
    <3>2. a \in Messages /\ jcall \in {"aggregateVerify", "fastAggregateVerify"}
      BY <1>2, <1>6, <2>3, <3>1
    <3>3. s[j] \in N /\ Pointer(s[j]) = 0  BY <1>4, <2>1, <2>3
    <3>4. "ikm" \notin N  BY <3>2 DEF N, SizeNames, CheckNames, Gives
    <3>5. s[j] \in Messages  BY <3>1, <3>3, <3>4
    <3>6. CASE s[j] = a  BY <1>1, <1>3, <2>1, <3>6 DEF Names, s
    <3>7. CASE s[j] # a
      <4>1. Pointer("msg") = 0 /\ Pointer("msg2") = 0 /\ "msg2" \in N
        BY <1>2, <1>6, <2>3, <3>2, <3>3, <3>5, <3>7 DEF Messages
      <4>2. jcall = "aggregateVerify"
        BY <3>2, <4>1 DEF N, SizeNames, CheckNames, Gives
      <4>. QED  BY <4>1, <4>2 DEF Overlap
    <3>. QED  BY <3>6, <3>7
  <2>. QED  BY <1>3, <1>4, <2>2, <2>3
<1>8. here = {k}  BY <1>2, <1>3, <1>5, <1>6, <1>7
<1>9. Held(Pointer(a)) = s[Max(here)]
  <2>1. Held(Pointer(a)) = IF here = {} \/ heap # growths THEN "noise" ELSE s[Max(here)]
    BY DEF Held, s
  <2>. QED  BY <1>8, <2>1 DEF heap
<1>10. Max({k}) = k  BY <1>3, <1>4 DEF Max
<1>. QED  BY <1>3, <1>8, <1>9, <1>10

(* What a code of the library becomes.                                     *)
LEMMA CodesAre ==
  ASSUME NEW c \in Calls, NEW form, NEW code \in Codes(c, form)
  PROVE  /\ code \in {"OK", "RANDOM", "INVALID", "BAD_KEY", "BAD_SIG", "VERIFY", "DUP_MESSAGE"}
         /\ code = "RANDOM" => c = "keygen"
BY DEF Codes, Calls

(* What fail() makes of a code is never a mistake's class.                 *)
LEMMA FailsAre ==
  \A code : fail(code) \in {"InvalidSignature", "InvalidKey", "ElipsError"}
BY DEF fail

(* The puts, the library and the answer: what is read at an argument's     *)
(* address is that argument, and a null pointer is told by the code.       *)
LEMMA JsRuns ==
  ASSUME JsIInv, JsRun PROVE JsIInv'
<1>1. /\ jpc = "malloc" /\ Len(blocks) = Len(Sizes(jcall)) /\ jpc' = "ended"
      /\ modulePromise' = modulePromise /\ inits' = inits /\ jcall' = jcall
      /\ given' = given /\ blocks' = blocks /\ growths' = growths
  BY DEF JsRun
<1>2. Preparing /\ modulePromise = "built" /\ inits = 1  BY <1>1 DEF JsIInv
<1> DEFINE mistake == FirstMistake(jcall, given, "RangeError")
<1>3. IF Fine(given) THEN mistake = "none" ELSE mistake \in {"TypeError", "RangeError"}
  BY <1>2, MistakesAre DEF Preparing
<1>4. \A a \in DOMAIN given : given[a] \in {"fits", "alien", "empty", "short", "absent"}
  BY <1>2 DEF Preparing, Forms
<1>5. CASE jcall = "keygen" /\ mistake # "none"
  <2>1. threw' = mistake /\ jrc' = "not run"
    BY <1>2, <1>5 DEF JsRun, Preparing
  <2>2. ~Fine(given)  BY <1>3, <1>5
  <2>3. \E a \in DOMAIN given' : given'[a] \in {"alien", "short"}  BY <1>1, <2>2 DEF Fine
  <2>4. threw' \in {"TypeError", "RangeError"}  BY <1>3, <2>1, <2>2
  <2>5. JsCallIsSound'  BY <1>1, <1>2, <2>1, <2>3, <2>4 DEF JsCallIsSound
  <2>. QED  BY <1>1, <1>2, <2>5 DEF JsIInv
<1>6. CASE ~(jcall = "keygen" /\ mistake # "none")
  <2> DEFINE codes == Codes(jcall, given[Checks(jcall)[1]])
  <2>1. /\ read' = [a \in DOMAIN given |-> Held(Pointer(a))]
        /\ jrc' \in IF NullIsRefused THEN {"INVALID"} \cup (codes \cap {"RANDOM"}) ELSE codes
        /\ threw' = IF jrc' = "OK" THEN "none"
                    ELSE IF jrc' = "DUP_MESSAGE" THEN "RangeError" ELSE fail(jrc')
    BY <1>6 DEF JsRun
  <2>2. Fine(given)  BY <1>2, <1>3, <1>6 DEF Preparing
  <2>3. \A a \in DOMAIN given : given[a] \in {"fits", "empty", "absent"}
    BY <1>4, <2>2 DEF Fine
  <2>4. \A code \in codes :
          /\ code \in {"OK", "RANDOM", "INVALID", "BAD_KEY", "BAD_SIG", "VERIFY", "DUP_MESSAGE"}
          /\ code = "RANDOM" => jcall = "keygen"
    BY <1>2, CodesAre DEF Preparing
  <2> HIDE DEF codes
  <2>5. /\ jrc' \in {"OK", "RANDOM", "INVALID", "BAD_KEY", "BAD_SIG", "VERIFY", "DUP_MESSAGE"}
        /\ NullIsRefused => jrc' \in {"INVALID", "RANDOM"}
    BY <2>1, <2>4
  <2>6. threw' = "none" <=> jrc' = "OK"
    BY <2>1, FailsAre
  <2>7. threw' \in {"TypeError", "RangeError"} <=> jrc' \in {"not run", "DUP_MESSAGE"}
    BY <2>1, <2>5, FailsAre
  <2>8. ASSUME jrc' \notin {"not run", "INVALID"}, ~Overlap,
               NEW a \in DOMAIN given, given[a] = "fits"
        PROVE  read'[a] = a
    <3>1. CASE ~NullIsRefused
      <4>1. Held(Pointer(a)) = a  BY <1>1, <1>2, <2>8, <3>1, ArgumentsAreHeld
      <4>. QED  BY <2>1, <4>1
    <3>2. CASE NullIsRefused
      <4>1. jrc' = "RANDOM"  BY <2>5, <2>8, <3>2
      <4>2. given[Checks(jcall)[1]] = "absent" /\ jcall = "keygen"
        BY <2>1, <3>2, <4>1, <1>2 DEF codes, Codes, Preparing, Calls
      <4>3. DOMAIN given = {"ikm"} /\ Checks(jcall)[1] = "ikm"
        <5>1. Names(Checks(jcall), CheckNames(jcall))  BY <1>2, ChecksAre DEF Preparing
        <5>2. DOMAIN given = CheckNames(jcall)  BY <1>2, <5>1 DEF Preparing, Names
        <5>3. Checks(jcall) = <<"ikm">>  BY <4>2 DEF Checks
        <5>4. CheckNames(jcall) = {"ikm"}  BY <4>2 DEF CheckNames
        <5>5. <<"ikm">>[1] = "ikm"  OBVIOUS
        <5>. QED  BY <5>2, <5>3, <5>4, <5>5
      <4>. QED  BY <2>8, <4>2, <4>3
    <3>. QED  BY <3>1, <3>2
  <2>10. JsCallIsSound'
    <3>1. jrc' # "not run" /\ inits' = 1  BY <1>1, <1>2, <2>5
    <3>3. (threw = "none" <=> jrc = "OK")'  BY <2>6
    <3>4. (threw \in {"TypeError", "RangeError"} <=> jrc \in {"not run", "DUP_MESSAGE"})'
      BY <2>7
    <3>5. (jrc = "not run" => \E a \in DOMAIN given : given[a] \in {"alien", "short"})'
      BY <3>1
    <3>6. (jrc \notin {"not run", "INVALID"} /\ ~Overlap =>
             \A a \in DOMAIN given :
               /\ given[a] \in {"fits", "empty", "absent"}
               /\ given[a] = "fits" => read[a] = a)'
      BY <1>1, <2>3, <2>8 DEF Overlap, Pointer
    <3>. QED  BY Zenon, <3>1, <3>3, <3>4, <3>5, <3>6 DEF JsCallIsSound
  <2>. QED  BY <1>1, <1>2, <2>10 DEF JsIInv
<1>. QED  BY <1>5, <1>6

(* Every step of the JavaScript binding keeps the invariant.               *)
LEMMA JsStep ==
  ASSUME JsIInv, [JsNext]_jsVars PROVE JsIInv'
<1>1. CASE Load
  <2>1. jpc = "idle" /\ inits = 0  BY <1>1 DEF Load, JsIInv
  <2>2. /\ modulePromise' = "pending" /\ inits' = 1 /\ jpc' = jpc /\ blocks' = blocks
        /\ jrc' = jrc /\ threw' = threw
    BY <1>1, <2>1 DEF Load
  <2>3. JsCallIsSound'  BY <2>1, <2>2 DEF JsCallIsSound
  <2>. QED  BY <2>1, <2>2, <2>3 DEF JsIInv
<1>2. CASE Settle
  BY <1>2 DEF Settle, JsIInv, JsCallIsSound
<1>3. CASE JsCall  BY <1>3, JsCalls
<1>4. CASE Malloc  BY <1>4, JsAllocates
<1>5. CASE JsRun  BY <1>5, JsRuns
<1>6. CASE JsReturn
  BY <1>6 DEF JsReturn, JsIInv, JsCallIsSound
<1>7. CASE UNCHANGED jsVars
  BY <1>7 DEF jsVars, JsIInv, JsCallIsSound, Preparing, Overlap, Pointer, Fine
<1>. QED  BY <1>1, <1>2, <1>3, <1>4, <1>5, <1>6, <1>7 DEF JsNext

(* The JavaScript binding alone.                                           *)
JsSpec == JsInit /\ [][JsNext]_jsVars

(* Load, allocate, run and return, in any order of calls and growths: the  *)
(* blocks of a call never overlap but at the null pointer, and a call runs *)
(* only in an instance load() built once (elips.mjs:24, 104).              *)
THEOREM JsInductive == JsSpec => []JsIInv
<1>1. JsIInv /\ [JsNext]_jsVars => JsIInv'  BY JsStep
<1>. QED  BY <1>1, JsInitially, PTL DEF JsSpec

(* A JavaScript caller's verdict is about the bytes it gave, however often *)
(* the memory grew or ran out; its mistakes are told before the library    *)
(* runs, and only the library's yes is a normal return (elips.mjs:24, 104, *)
(* 113).                                                                   *)
THEOREM JsCallsAreSound == JsSpec => []JsCallIsSound
<1>1. JsIInv => JsCallIsSound  BY DEF JsIInv
<1>. QED  BY <1>1, JsInductive, PTL

-----------------------------------------------------------------------------
(* What the copies are of: the arguments so far were of the right type,    *)
(* and of the right size where one is asked for.                           *)
Checked ==
  /\ pcall \in Calls
  /\ \E S : copied \in Seq(S)
  /\ Len(copied) <= Len(PyChecks(pcall))
  /\ \A k \in DOMAIN copied :
       /\ passed[PyChecks(pcall)[k]] # "alien"
       /\ PyChecks(pcall)[k] \in Messages \/ copied[k] # "short"

(* What the library has read so far is what was copied.                    *)
Snapshot == /\ \E S : seen \in Seq(S)
            /\ Len(seen) <= Len(copied) /\ \A k \in DOMAIN seen : seen[k] = copied[k]

(* The Python binding's inductive invariant.                               *)
PyIInv ==
  /\ ppc \in {"idle", "checking", "running", "ended"}
  /\ ppc \in {"idle", "checking"} => seen = <<>> /\ prc = "not run"
  /\ ppc \in {"checking", "running"} => Checked /\ Snapshot
  /\ PyCallIsSound

(* A call has one to four arguments to check.                              *)
LEMMA PyChecksAre ==
  ASSUME NEW c \in Calls
  PROVE  DOMAIN PyChecks(c) = 1 .. Len(PyChecks(c)) /\ Len(PyChecks(c)) \in 1 .. 4
<1>1. CASE c = "aggregateVerify"  BY <1>1 DEF PyChecks
<1>2. CASE c = "fastAggregateVerify"  BY <1>2 DEF PyChecks
<1>3. CASE c \notin {"aggregateVerify", "fastAggregateVerify"}
  <2>1. PyChecks(c) = Checks(c)  BY <1>3 DEF PyChecks
  <2>2. DOMAIN Checks(c) = 1 .. Len(Checks(c))  BY ChecksAre DEF Names
  <2>3. Len(Checks(c)) \in 1 .. 4  BY DEF Checks, Calls
  <2>. QED  BY <2>1, <2>2, <2>3
<1>. QED  BY <1>1, <1>2, <1>3

(* The empty list, as a list of anything.                                  *)
LEMMA EmptyIs ==
  /\ \E S : <<>> \in Seq(S)
  /\ Len(<<>>) = 0 /\ DOMAIN <<>> = {}
<1>1. <<>> \in Seq({}) /\ Len(<<>>) = 0 /\ DOMAIN <<>> = {}  OBVIOUS
<1>. QED  BY <1>1

(* One more at the end of a sequence of any values.                        *)
LEMMA OneMore ==
  ASSUME NEW s, NEW S, s \in Seq(S), NEW x
  PROVE  /\ \E T : Append(s, x) \in Seq(T)
         /\ Len(s) \in Nat /\ DOMAIN s = 1 .. Len(s) /\ Len(Append(s, x)) = Len(s) + 1
         /\ DOMAIN Append(s, x) = 1 .. Len(s) + 1
         /\ \A k \in 1 .. Len(s) + 1 : Append(s, x)[k] = IF k = Len(s) + 1 THEN x ELSE s[k]
<1> DEFINE T == S \cup {x}
<1>1. s \in Seq(T) /\ x \in T  OBVIOUS
<1> HIDE DEF T
<1>2. Append(s, x) \in Seq(T)  BY <1>1
<1>. QED  BY <1>1, <1>2

(* No call has been made at the start.                                     *)
LEMMA PyInitially == PyInit => PyIInv
BY DEF PyInit, PyIInv, PyCallIsSound

(* A call enters with nothing copied.                                      *)
LEMMA PyCalls ==
  ASSUME PyIInv, PyCall PROVE PyIInv'
<1>1. /\ ppc = "idle" /\ ppc' = "checking" /\ copied' = <<>> /\ seen' = seen /\ prc' = prc
  BY DEF PyCall
<1>2. pcall' \in Calls  BY DEF PyCall
<1>3. seen = <<>> /\ prc = "not run"  BY <1>1 DEF PyIInv
<1>4. Len(PyChecks(pcall')) \in Nat /\ 0 <= Len(PyChecks(pcall'))  BY <1>2, PyChecksAre
<1>5. Checked'
  <2>1. Len(copied') = 0 /\ DOMAIN copied' = {}  BY <1>1, EmptyIs
  <2>2. \E S : copied' \in Seq(S)  BY <1>1, EmptyIs
  <2>. QED  BY <1>2, <1>4, <2>1, <2>2 DEF Checked
<1>6. Snapshot'
  <2>1. Len(seen') = 0 /\ DOMAIN seen' = {} /\ Len(copied') = 0  BY <1>1, <1>3, EmptyIs
  <2>2. \E S : seen' \in Seq(S)  BY <1>1, <1>3, EmptyIs
  <2>. QED  BY <2>1, <2>2 DEF Snapshot
<1>7. PyCallIsSound'  BY <1>1 DEF PyCallIsSound
<1>. QED  BY <1>1, <1>3, <1>5, <1>6, <1>7 DEF PyIInv

(* _check copies one argument more, and measures the copy.                 *)
LEMMA PyChecksNext ==
  ASSUME PyIInv, _check PROVE PyIInv'
<1> DEFINE n == Len(copied)
           a == PyChecks(pcall)[n + 1]
           x == IF passed[a] = "absent" THEN "none" ELSE buffer[a]
<1>1. /\ ppc = "checking" /\ n < Len(PyChecks(pcall)) /\ copied' = Append(copied, x)
      /\ raised' = IF passed[a] = "alien" THEN "TypeError"
                   ELSE IF passed[a] # "absent" /\ a \notin Messages /\ buffer[a] = "short"
                   THEN "ValueError" ELSE "none"
      /\ ppc' = (IF raised' = "none" THEN "checking" ELSE "ended")
      /\ pcall' = pcall /\ passed' = passed /\ seen' = seen /\ prc' = prc
  BY DEF _check
<1>2. Checked /\ Snapshot /\ seen = <<>> /\ prc = "not run"  BY <1>1 DEF PyIInv
<1>3. CASE raised' = "none"
  <2>1. ppc' = "checking"  BY <1>1, <1>3
  <2>2. passed[a] # "alien" /\ (a \in Messages \/ x # "short")
    BY <1>1, <1>3
  <2> HIDE DEF x
  <2>3. PICK S : copied \in Seq(S)  BY <1>2 DEF Checked
  <2>4. /\ \E T : copied' \in Seq(T)
        /\ n \in Nat /\ DOMAIN copied = 1 .. n /\ Len(copied') = n + 1
        /\ DOMAIN copied' = 1 .. n + 1
        /\ \A k \in 1 .. n + 1 : copied'[k] = IF k = n + 1 THEN x ELSE copied[k]
    BY <1>1, <2>3, OneMore
  <2>5. Len(PyChecks(pcall)) \in Nat
    <3>1. pcall \in Calls  BY <1>2 DEF Checked
    <3>2. Len(PyChecks(pcall)) \in 1 .. 4  BY <3>1, PyChecksAre
    <3>. QED  BY <3>2
  <2>6. ASSUME NEW k \in DOMAIN copied'
        PROVE  /\ passed[PyChecks(pcall)[k]] # "alien"
               /\ PyChecks(pcall)[k] \in Messages \/ copied'[k] # "short"
    <3>1. CASE k = n + 1  BY <2>2, <2>4, <3>1
    <3>2. CASE k # n + 1
      <4>1. k \in DOMAIN copied /\ copied'[k] = copied[k]  BY <2>4, <3>2
      <4>. QED  BY <1>2, <4>1 DEF Checked
    <3>. QED  BY <3>1, <3>2
  <2>7. Len(copied') <= Len(PyChecks(pcall))  BY <1>1, <2>4, <2>5
  <2>8. Checked'  BY <1>1, <1>2, <2>4, <2>6, <2>7 DEF Checked
  <2>9. Snapshot'
    <3>1. Len(seen') = 0 /\ DOMAIN seen' = {}  BY <1>1, <1>2, EmptyIs
    <3>2. \E T : seen' \in Seq(T)  BY <1>1, <1>2, EmptyIs
    <3>. QED  BY <2>4, <3>1, <3>2 DEF Snapshot
  <2>10. PyCallIsSound'  BY <2>1 DEF PyCallIsSound
  <2>. QED  BY <1>1, <1>2, <2>1, <2>8, <2>9, <2>10 DEF PyIInv
<1>4. CASE raised' # "none"
  <2>1. ppc' = "ended" /\ raised' \in {"TypeError", "ValueError"} /\ prc' = "not run"
    BY <1>1, <1>2, <1>4
  <2>2. PyCallIsSound'  BY <2>1 DEF PyCallIsSound, Family
  <2>. QED  BY <2>1, <2>2 DEF PyIInv
<1>. QED  BY <1>3, <1>4

(* The library reads one argument more, of the copies.                     *)
LEMMA PyReads ==
  ASSUME PyIInv, LibraryReads PROVE PyIInv'
<1> DEFINE n == Len(seen)
<1>1. /\ ppc \in {"checking", "running"} /\ ppc' = "running" /\ n < Len(copied)
      /\ seen' = Append(seen, copied[n + 1]) /\ pcall' = pcall /\ passed' = passed
      /\ copied' = copied /\ prc' = prc
  BY DEF LibraryReads, Passes
<1>2. Checked /\ Snapshot  BY <1>1 DEF PyIInv
<1>3. PICK S : seen \in Seq(S)  BY <1>2 DEF Snapshot
<1> DEFINE x == copied[n + 1]
<1> HIDE DEF x
<1>4. /\ \E T : seen' \in Seq(T)
      /\ n \in Nat /\ DOMAIN seen = 1 .. n /\ Len(seen') = n + 1
      /\ DOMAIN seen' = 1 .. n + 1
      /\ \A k \in 1 .. n + 1 : seen'[k] = IF k = n + 1 THEN x ELSE seen[k]
  <2>1. seen' = Append(seen, x)  BY <1>1 DEF x
  <2>. QED  BY <1>3, <2>1, OneMore
<1>5. \A k \in DOMAIN seen' : seen'[k] = copied[k]
  BY <1>2, <1>4 DEF Snapshot, x
<1>6. Len(copied) \in Nat
  <2>1. PICK T : copied \in Seq(T)  BY <1>2 DEF Checked
  <2>. QED  BY <2>1
<1>7. Snapshot'  BY <1>1, <1>4, <1>5, <1>6 DEF Snapshot
<1>8. Checked'  BY <1>1, <1>2 DEF Checked
<1>9. PyCallIsSound'  BY <1>1 DEF PyCallIsSound
<1>. QED  BY <1>1, <1>7, <1>8, <1>9 DEF PyIInv

(* Its code becomes None, False or an exception.                           *)
LEMMA PyAnswers ==
  ASSUME PyIInv, LibraryAnswers PROVE PyIInv'
<1>1. /\ ppc = "running" /\ ppc' = "ended" /\ Len(seen) = Len(copied)
      /\ prc' \in Codes(pcall, passed[PyChecks(pcall)[1]])
      /\ raised' = (CASE prc' = "OK" -> "none" [] prc' = "RANDOM" -> "OSError"
                      [] prc' = "DUP_MESSAGE" -> "ValueError" [] OTHER -> fail(prc'))
      /\ pcall' = pcall /\ passed' = passed /\ seen' = seen /\ copied' = copied
  BY DEF LibraryAnswers
<1>2. Checked /\ Snapshot  BY <1>1 DEF PyIInv
<1>3. prc' \in {"OK", "RANDOM", "INVALID", "BAD_KEY", "BAD_SIG", "VERIFY", "DUP_MESSAGE"}
  BY <1>1, <1>2, CodesAre DEF Checked
<1>4. raised' = "none" <=> prc' = "OK"  BY <1>1, FailsAre
<1>5. raised' \in Family => prc' \notin {"not run", "RANDOM", "DUP_MESSAGE"}
  BY <1>1, <1>3 DEF Family
<1>6. ASSUME NEW k \in DOMAIN seen
      PROVE  /\ seen[k] = copied[k] /\ passed[PyChecks(pcall)[k]] # "alien"
             /\ PyChecks(pcall)[k] \in Messages \/ seen[k] # "short"
  <2>1. seen[k] = copied[k]  BY <1>2 DEF Snapshot
  <2>2. k \in DOMAIN copied
    <3>1. PICK S : seen \in Seq(S)  BY <1>2 DEF Snapshot
    <3>2. PICK T : copied \in Seq(T)  BY <1>2 DEF Checked
    <3>. QED  BY <1>1, <3>1, <3>2
  <2>. QED  BY <1>2, <2>1, <2>2 DEF Checked
<1>7. PyCallIsSound'
  <2>1. (raised = "none" <=> prc = "OK")'  BY <1>4
  <2>2. (raised \in Family => prc \notin {"not run", "RANDOM", "DUP_MESSAGE"})'
    BY <1>5 DEF Family
  <2>3. (prc # "not run" => \A k \in DOMAIN seen :
           LET a == PyChecks(pcall)[k] IN
             /\ seen[k] = copied[k] /\ passed[a] # "alien"
             /\ a \in Messages \/ seen[k] # "short")'
    BY <1>1, <1>6
  <2>. QED  BY <2>1, <2>2, <2>3 DEF PyCallIsSound
<1>. QED  BY <1>1, <1>7 DEF PyIInv

(* Every step, of the caller's thread and of the others that write.        *)
LEMMA PyStep ==
  ASSUME PyIInv, [PyNext]_pyVars PROVE PyIInv'
<1>1. CASE PyCall  BY <1>1, PyCalls
<1>2. CASE OthersWrite
  <2>1. /\ ppc \in {"checking", "running"} /\ ppc' = ppc /\ pcall' = pcall
        /\ passed' = passed /\ copied' = copied /\ seen' = seen /\ prc' = prc
    BY <1>2 DEF OthersWrite
  <2>2. PyCallIsSound'  BY <2>1 DEF PyCallIsSound
  <2>. QED  BY <2>1, <2>2 DEF PyIInv, Checked, Snapshot
<1>3. CASE _check  BY <1>3, PyChecksNext
<1>4. CASE LibraryReads  BY <1>4, PyReads
<1>5. CASE LibraryAnswers  BY <1>5, PyAnswers
<1>6. CASE PyReturn
  BY <1>6 DEF PyReturn, PyIInv, PyCallIsSound
<1>7. CASE UNCHANGED pyVars
  <2>1. /\ ppc' = ppc /\ pcall' = pcall /\ passed' = passed /\ copied' = copied
        /\ seen' = seen /\ prc' = prc /\ raised' = raised
    BY <1>7 DEF pyVars
  <2>. QED  BY <2>1 DEF PyIInv, Checked, Snapshot, PyCallIsSound
<1>. QED  BY <1>1, <1>2, <1>3, <1>4, <1>5, <1>6, <1>7 DEF PyNext

(* The Python binding alone.                                               *)
PySpec == PyInit /\ [][PyNext]_pyVars

(* Check, read and answer, with other threads writing between any two      *)
(* steps: the copies made are of checked size and type, and the library    *)
(* reads nothing else (__init__.py:100).                                   *)
THEOREM PyInductive == PySpec => []PyIInv
<1>1. PyIInv /\ [PyNext]_pyVars => PyIInv'  BY PyStep
<1>. QED  BY <1>1, PyInitially, PTL DEF PySpec

(* The bytes the library reads through the Python binding are those that   *)
(* were measured, whatever other threads write into the caller's buffers,  *)
(* and None is returned for its yes only (__init__.py:100).                *)
THEOREM PyCallsAreSound == PySpec => []PyCallIsSound
<1>1. PyIInv => PyCallIsSound  BY DEF PyIInv
<1>. QED  BY <1>1, PyInductive, PTL

-----------------------------------------------------------------------------
(* A step of the whole is a step of one part, and a stutter of the others. *)
LEMMA PartsStep ==
  ASSUME [Multiplies \/ FromJs \/ FromPython]_<<part, vars, bindingVars>>
  PROVE  [Next]_vars /\ [JsNext]_jsVars /\ [PyNext]_pyVars
<1>1. CASE Multiplies  BY <1>1 DEF Multiplies, bindingVars
<1>2. CASE FromJs
  <2>1. UNCHANGED pyVars
    BY <1>2 DEF FromJs, JsNext, Load, Settle, JsCall, Malloc, JsRun, JsReturn
  <2>. QED  BY <1>2, <2>1 DEF FromJs
<1>3. CASE FromPython
  <2>1. UNCHANGED jsVars
    BY <1>3 DEF FromPython, PyNext, PyCall, OthersWrite, _check, LibraryReads,
       LibraryAnswers, PyReturn
  <2>. QED  BY <1>3, <2>1 DEF FromPython
<1>4. CASE UNCHANGED <<part, vars, bindingVars>>  BY <1>4 DEF bindingVars
<1>. QED  BY <1>1, <1>2, <1>3, <1>4

(* So what is proved of each part is true of the whole.                    *)
THEOREM RuntimeIsSound ==
  RuntimeSpec =>
    [](KernelsAreRunnable /\ JsCallIsSound /\ PyCallIsSound) /\ FlagSettles
<1>1. RuntimeInit => Init /\ JsInit /\ PyInit  BY DEF RuntimeInit
<1>2. [Multiplies \/ FromJs \/ FromPython]_<<part, vars, bindingVars>>
        => [Next]_vars /\ [JsNext]_jsVars /\ [PyNext]_pyVars
  BY PartsStep
<1>. QED
  BY <1>1, <1>2, BackendIsRunnable, BackendSettles, JsCallsAreSound,
     PyCallsAreSound, PTL DEF RuntimeSpec, Spec, JsSpec, PySpec
=============================================================================
