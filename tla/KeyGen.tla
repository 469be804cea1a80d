-------------------------------- MODULE KeyGen -------------------------------
(***************************************************************************)
(* Secrets from entropy: elips_bls_keygen and elips_bls_keygen_random of   *)
(* bls/bls.c, elips_random_scalar and fp_rand of util/random.c, over the   *)
(* entropy calls of SysRand.  HKDF is a random function of the keying      *)
(* material and the salt, and the salt is the number of times the literal  *)
(* was hashed; which outputs reduce to zero is chosen once, by "vanishes". *)
(* The proofs at the end are about both modules: those of the entropy      *)
(* calls come first, and what is proved of a key rests on them.            *)
(***************************************************************************)
EXTENDS SysRand, TLAPS

CONSTANTS
  Attempts,                \* passes of the keygen loop, 8
  IkmBytes, WideBytes,     \* requests: 32 bytes, a scalar's or an element's
  Lengths                  \* lengths of keying material a caller tries

ASSUME KeyGenAssumption ==
  /\ Attempts \in Nat \ {0} /\ Lengths \subseteq Nat
  /\ IkmBytes \in 1 .. MaxBytes /\ WideBytes \in 1 .. MaxBytes

VARIABLES
  vanishes,                \* the <<ikm, salt>> whose okm is 0 mod r
  call,                    \* "none", "bytes", "keygen", "keygen_random",
                           \* "scalar", "field"
  stage,                   \* "idle", "entropy", "attempt" or "done"
  ikm, salt, attempt,      \* locals of elips_bls_keygen
  residue,                 \* its locals that hold secret bytes
  sk, k, code              \* the caller's two outputs and the return code

keyVars == <<vanishes, call, stage, ikm, salt, attempt, residue, sk, k, code,
             build, at, n, buf, got, rc>>

OK == 0
INVALID == -1
RANDOM == -5

Ikms == {"seed", "random"}  \* the caller's, and keygen_random's
Scalar == {"wide"}          \* what elips_random_scalar and fp_rand reduce
Untouched == <<"caller">>
Nothing == <<"zero">>       \* an array of zero limbs
Key(material, i) == <<"key", material, i>>

KeyInit ==
  /\ RandInit
  /\ vanishes \in SUBSET (Ikms \X (1 .. Attempts + 1) \cup Scalar \X {1})
  /\ call = "none" /\ stage = "idle" /\ ikm = "none" /\ salt = 0
  /\ attempt = 0 /\ residue = {} /\ sk = Untouched /\ k = Untouched
  /\ code = OK

-----------------------------------------------------------------------------
Refused(len) == len < 32 \/ len > 511

(* The part of elips_bls_keygen before its loop.                           *)
Enter(material) ==
  /\ ikm' = material /\ salt' = 1 /\ attempt' = 0
  /\ residue' = {"ikm0"} /\ stage' = "attempt"

Keygen ==
  /\ stage = "idle" /\ call' = "keygen"
  /\ \E null \in BOOLEAN, len \in Lengths :
       IF null \/ Refused(len)
       THEN /\ code' = INVALID /\ stage' = "done"
            /\ UNCHANGED <<ikm, salt, attempt, residue>>
       ELSE Enter("seed") /\ UNCHANGED code
  /\ UNCHANGED <<vanishes, sk, k, randVars>>

(* elips_random_bytes itself, which anyone may call.                       *)
RandomBytes ==
  /\ stage = "idle" /\ call' = "bytes" /\ stage' = "entropy"
  /\ \E bytes \in 0 .. MaxBytes : Request(bytes)
  /\ UNCHANGED <<vanishes, ikm, salt, attempt, residue, sk, k, code>>

KeygenRandom ==
  /\ stage = "idle" /\ call' = "keygen_random" /\ stage' = "entropy"
  /\ Request(IkmBytes)
  /\ UNCHANGED <<vanishes, ikm, salt, attempt, residue, sk, k, code>>

(* elips_random_scalar clears its output before it asks.                   *)
RandomScalar ==
  /\ stage = "idle" /\ call' = "scalar" /\ stage' = "entropy"
  /\ k' = Nothing /\ Request(WideBytes)
  /\ UNCHANGED <<vanishes, ikm, salt, attempt, residue, sk, code>>

(* So does fp_rand, whose modulus is the field's.                          *)
FpRand ==
  /\ stage = "idle" /\ call' = "field" /\ stage' = "entropy"
  /\ k' = Nothing /\ Request(WideBytes)
  /\ UNCHANGED <<vanishes, ikm, salt, attempt, residue, sk, code>>

Uniform == {"scalar", "field"}

Draw == /\ stage = "entropy" /\ RandStep
        /\ UNCHANGED <<vanishes, call, stage, ikm, salt, attempt, residue,
                       sk, k, code>>

EntropyFailed == rc # 0

NoEntropy ==
  /\ stage = "entropy" /\ at = "idle" /\ EntropyFailed
  /\ code' = IF call \in {"bytes"} \cup Uniform THEN -1 ELSE RANDOM
  /\ stage' = "done"
  /\ UNCHANGED <<vanishes, call, ikm, salt, attempt, residue, sk, k, randVars>>

Drawn ==
  /\ stage = "entropy" /\ at = "idle" /\ ~EntropyFailed
  /\ \/ /\ call = "bytes"
        /\ code' = OK /\ stage' = "done"
        /\ UNCHANGED <<ikm, salt, attempt, residue, k>>
     \/ /\ call \in Uniform
        /\ k' = IF <<"wide", 1>> \in vanishes THEN Nothing ELSE Key("wide", 1)
        /\ code' = OK /\ stage' = "done"
        /\ UNCHANGED <<ikm, salt, attempt, residue>>
     \/ call = "keygen_random" /\ Enter("random") /\ UNCHANGED <<k, code>>
  /\ UNCHANGED <<vanishes, call, sk, randVars>>

-----------------------------------------------------------------------------
(* The common exit: prk, okm and ikm0 are wiped whatever the outcome, and  *)
(* keygen_random wipes the bytes it drew, whose answer is then void.       *)
WipesOnSuccess(c) == IF c = OK THEN {} ELSE residue   \* variant
Residue(c) == {}

Exit(c) ==
  /\ code' = c /\ stage' = "done" /\ residue' = Residue(c)
  /\ IF call = "keygen_random"
     THEN buf' = Wiped /\ rc' = NoAnswer
     ELSE UNCHANGED <<buf, rc>>
  /\ UNCHANGED <<vanishes, call, ikm, k, build, at, n, got>>

KeepsTheSalt == salt         \* variant: same salt again
NextSalt == salt + 1

(* One pass: extract and expand (which accepts 48 bytes and 2 of info, so  *)
(* its failure exit is never taken), reduce, and either keep or rehash.    *)
Pass ==
  /\ stage = "attempt" /\ attempt < Attempts
  /\ IF <<ikm, salt>> \notin vanishes
     THEN sk' = Key(ikm, salt) /\ Exit(OK) /\ UNCHANGED <<salt, attempt>>
     ELSE /\ salt' = NextSalt /\ attempt' = attempt + 1
          /\ residue' = residue \cup {"prk", "okm"}
          /\ UNCHANGED <<vanishes, call, stage, ikm, sk, k, code, randVars>>

Exhausted == /\ stage = "attempt" /\ attempt = Attempts
             /\ Exit(INVALID) /\ UNCHANGED <<salt, attempt, sk>>

(* The caller takes the result and starts over with fresh buffers.         *)
Collect ==
  /\ stage = "done" /\ stage' = "idle" /\ call' = "none"
  /\ ikm' = "none" /\ salt' = 0 /\ attempt' = 0 /\ code' = OK
  /\ sk' = Untouched /\ k' = Untouched
  /\ n' = 0 /\ buf' = <<>> /\ got' = 0
  /\ UNCHANGED <<vanishes, residue, build, at, rc>>

KeyNext == \/ Keygen \/ RandomBytes \/ KeygenRandom \/ RandomScalar
           \/ FpRand \/ Draw \/ NoEntropy \/ Drawn \/ Pass \/ Exhausted \/ Collect

KeySpec == KeyInit /\ [][KeyNext]_keyVars /\ RandFairness

-----------------------------------------------------------------------------
Vanishing(material, last) == \A i \in 1 .. last : <<material, i>> \in vanishes

(* KeyGen returns the key the draft defines, that of the first salt whose  *)
(* output is not zero mod r: never zero, and the same key for the same     *)
(* material.  When it fails, after every salt or at once, sk is as the     *)
(* caller left it (bls.c:136-157).                                         *)
KeyIsTheFirstNonzero ==
  stage = "done" /\ call \in {"keygen", "keygen_random"} =>
    IF code = OK
    THEN \E i \in 1 .. Attempts : /\ sk = Key(ikm, i)
                                  /\ Vanishing(ikm, i - 1)
                                  /\ <<ikm, i>> \notin vanishes
    ELSE /\ sk = Untouched
         /\ code = INVALID /\ ikm # "none" => Vanishing(ikm, Attempts)

(* No key and no scalar is made of anything but a full draw: keying        *)
(* material of keygen_random is all entropy when the loop reads it, and a  *)
(* draw that failed leaves sk alone and a zero scalar or element           *)
(* (bls.c:168, random.c:29, random.c:46).                                  *)
SecretsComeFromEntropy ==
  /\ stage = "attempt" /\ call = "keygen_random" =>
       rc = 0 /\ \A x \in 1 .. n : buf[x] \in Sources
  /\ stage = "done" /\ code = RANDOM => sk = Untouched
  /\ stage = "done" /\ call \in Uniform =>
       k # Untouched /\ (code # OK => k = Nothing)

(* No exit of keygen leaves keying material or what was derived from it    *)
(* behind (bls.c:159-161, 170).                                            *)
SecretsAreWiped ==
  stage = "done" /\ call \in {"keygen", "keygen_random"} =>
    residue = {} /\ \A x \in 1 .. n : buf[x] = "zero"

(* From the draw to the wipe, a secret is where it should be and nowhere.  *)
SecretsAreHandled == SecretsComeFromEntropy /\ SecretsAreWiped

-----------------------------------------------------------------------------
(* All or nothing, for every chunk size and every request.  AllOrNothing   *)
(* speaks of answered calls only; to be inductive it needs what holds      *)
(* while the call runs: the bytes counted in got are the kernel's, and     *)
(* there are fewer of them than were asked for.                            *)
Partial ==
  at \in {"asking", "kernel"} =>
    got < n /\ \A x \in 1 .. got : buf[x] = "kernel"

RandIInv == RandTypeOK /\ AllOrNothing /\ Partial

(* The initial state, whatever the build (sysrand.c:50).                   *)
LEMMA InitRandIInv == RandInit => RandIInv
BY SysRandAssumption DEF RandInit, RandIInv, RandTypeOK, AllOrNothing,
   Partial, Places, NoAnswer

(* A new request, of any size within the bound.                            *)
LEMMA RequestKeeps ==
  ASSUME RandIInv, NEW bytes \in 0 .. MaxBytes, Request(bytes)
  PROVE  RandIInv'
<1>1. RandTypeOK'
  BY SysRandAssumption DEF RandIInv, RandTypeOK, Request, Answer, Places,
     Bytes, NoAnswer
<1>2. AllOrNothing'
  BY DEF RandIInv, RandTypeOK, AllOrNothing, Request, Answer
<1>3. Partial'
  BY SysRandAssumption DEF RandIInv, RandTypeOK, Partial, Request, Answer
<1> QED BY <1>1, <1>2, <1>3 DEF RandIInv

(* Wiping and answering -1 is always safe.                                 *)
LEMMA WipeKeeps ==
  ASSUME RandIInv, buf' = Wiped, Answer(-1), UNCHANGED <<build, n>>,
         got' \in 0 .. n
  PROVE  RandIInv'
<1>1. RandTypeOK'
  BY DEF RandIInv, RandTypeOK, Wiped, Answer, Places, Bytes, NoAnswer
<1>2. AllOrNothing'
  BY DEF RandIInv, RandTypeOK, AllOrNothing, Wiped, Answer
<1>3. Partial'
  BY DEF Partial, Answer
<1> QED BY <1>1, <1>2, <1>3 DEF RandIInv

(* Filling the whole buffer from one source and answering 0 is safe.       *)
LEMMA WholeKeeps ==
  ASSUME RandIInv, NEW source \in Sources, buf' = Filled(0, n, source),
         Answer(0), UNCHANGED <<build, n, got>>
  PROVE  RandIInv'
<1>1. RandTypeOK'
  BY DEF RandIInv, RandTypeOK, Filled, Answer, Places, Bytes, NoAnswer
<1>2. AllOrNothing'
  BY DEF RandIInv, RandTypeOK, AllOrNothing, Filled, Answer
<1>3. Partial'
  BY DEF Partial, Answer
<1> QED BY <1>1, <1>2, <1>3 DEF RandIInv

(* So is adding the kernel's next bytes, whether or not they complete the  *)
(* request.                                                                *)
LEMMA MoreKeeps ==
  ASSUME RandIInv, at \in {"asking", "kernel"},
         NEW count \in 1 .. n - got,
         buf' = Filled(got, count, "kernel"), got' = got + count,
         IF got' = n THEN Answer(0) ELSE at' = "asking" /\ UNCHANGED rc,
         UNCHANGED <<build, n>>
  PROVE  RandIInv'
<1>1. /\ n \in Nat /\ got \in Nat /\ got < n
      /\ got' \in 0 .. n /\ n' = n
  BY SysRandAssumption DEF RandIInv, RandTypeOK, Partial
<1>2. \A x \in 1 .. got' : buf'[x] = "kernel"
  BY <1>1 DEF RandIInv, Partial, Filled
<1>3. RandTypeOK'
  BY <1>1 DEF RandIInv, RandTypeOK, Filled, Answer, Places, Bytes, Sources,
     NoAnswer
<1>4. AllOrNothing'
  BY <1>1, <1>2, <1>3 DEF RandTypeOK, AllOrNothing, Answer, Sources
<1>5. Partial'
  BY <1>1, <1>2 DEF Partial, Answer
<1> QED BY <1>3, <1>4, <1>5 DEF RandIInv

(* Every step of the call, and the next request, keep the invariant.       *)
LEMMA StepRandIInv == RandIInv /\ [RandNext]_randVars => RandIInv'
<1> SUFFICES ASSUME RandIInv, [RandNext]_randVars PROVE RandIInv'
  OBVIOUS
<1>1. /\ n \in Nat /\ got \in 0 .. n /\ rc \in {NoAnswer, 0, -1}
  BY SysRandAssumption DEF RandIInv, RandTypeOK
<1>2. ASSUME NEW bytes \in 0 .. MaxBytes, Request(bytes) PROVE RandIInv'
  BY <1>2, RequestKeeps
<1>3. CASE Arc4Random
  BY <1>3, WholeKeeps DEF Arc4Random, Sources
<1>4. CASE GetEntropy
  <2>1. CASE buf' = Wiped /\ Answer(-1) /\ UNCHANGED got
    BY <1>1, <1>4, <2>1, WipeKeeps DEF GetEntropy
  <2>2. CASE /\ buf' = Filled(got, TakeChunk, "kernel")
             /\ got' = got + TakeChunk
             /\ IF got' = n THEN Answer(0) ELSE UNCHANGED <<rc, at>>
    <3>1. TakeChunk \in 1 .. n - got
      BY <1>1, <1>4, SysRandAssumption
      DEF GetEntropy, TakeChunk, RandIInv, Partial
    <3> QED BY <1>4, <2>2, <3>1, MoreKeeps DEF GetEntropy
  <2> QED BY <1>4, <2>1, <2>2 DEF GetEntropy
<1>5. CASE GetRandom
  BY <1>5 DEF GetRandom, RandIInv, RandTypeOK, AllOrNothing, Partial, Places
<1>6. CASE KernelGives
  BY <1>6, MoreKeeps DEF KernelGives
<1>7. CASE KernelInterrupted
  BY <1>7 DEF KernelInterrupted, RandIInv, RandTypeOK, AllOrNothing, Partial,
     Places
<1>8. CASE KernelRefuses
  BY <1>8 DEF KernelRefuses, RandIInv, RandTypeOK, AllOrNothing, Partial,
     Places
<1>9. CASE OpenDevice
  <2>1. CASE buf' = Wiped /\ Answer(-1)
    BY <1>1, <1>9, <2>1, WipeKeeps DEF OpenDevice
  <2>2. CASE at' = "read" /\ UNCHANGED <<buf, rc>>
    BY <1>9, <2>2 DEF OpenDevice, RandIInv, RandTypeOK, AllOrNothing, Partial,
       Places
  <2> QED BY <1>9, <2>1, <2>2 DEF OpenDevice
<1>10. CASE ReadDevice
  <2>1. PICK count \in 0 .. n :
          IF AlreadyRead + count = n
          THEN buf' = Filled(0, count, "device") /\ Answer(0)
          ELSE ShortRead
    BY <1>10 DEF ReadDevice
  <2>2. CASE AlreadyRead + count = n
    BY <1>1, <1>10, <2>1, <2>2, WholeKeeps
    DEF ReadDevice, AlreadyRead, Sources
  <2>3. CASE AlreadyRead + count # n
    BY <1>1, <1>10, <2>1, <2>3, WipeKeeps DEF ReadDevice, ShortRead
  <2> QED BY <2>2, <2>3
<1>11. CASE UNCHANGED randVars
  BY <1>11 DEF randVars, RandIInv, RandTypeOK, AllOrNothing, Partial
<1> QED BY <1>2, <1>3, <1>4, <1>5, <1>6, <1>7, <1>8, <1>9, <1>10, <1>11
        DEF RandNext, RandStep

(* The invariant holds throughout every run of the entropy calls.          *)
THEOREM SysRandInductive == RandSpec => []RandIInv
BY InitRandIInv, StepRandIInv, PTL DEF RandSpec

(* The state keeps its ranges; in particular no source writes past the     *)
(* end of the caller's buffer, for every size and every chunk              *)
(* (sysrand.c:63, 73).                                                     *)
THEOREM SysRandTypeCorrect == RandSpec => []RandTypeOK
<1>1. RandIInv => RandTypeOK
  BY DEF RandIInv
<1> QED BY <1>1, SysRandInductive, PTL

(* A zero return is a buffer full of one source's entropy, any other       *)
(* return a buffer of zeros, for every size and every chunk                *)
(* (sysrand.c:50-90).                                                      *)
THEOREM SysRandAllOrNothing == RandSpec => []AllOrNothing
<1>1. RandIInv => AllOrNothing
  BY DEF RandIInv
<1> QED BY <1>1, SysRandInductive, PTL

-----------------------------------------------------------------------------
(* Keys and secrets, for any bounds, sizes and number of attempts, and     *)
(* whichever outputs vanish.  Beside the entropy call's own invariant it   *)
(* takes what each stage of a call may rely on.                            *)
AtRest ==
  stage = "idle" =>
    at = "idle" /\ n = 0 /\ residue = {} /\ ikm = "none" /\ sk = Untouched

Asking ==
  stage = "entropy" =>
    /\ call \in {"bytes", "keygen_random"} \cup Uniform
    /\ at = "idle" => rc # NoAnswer
    /\ residue = {} /\ ikm = "none" /\ sk = Untouched
    /\ call = "keygen_random" => n = IkmBytes
    /\ call \in Uniform => k = Nothing

Trying ==
  stage = "attempt" =>
    /\ at = "idle" /\ call \in {"keygen", "keygen_random"}
    /\ call = "keygen" => n = 0
    /\ sk = Untouched
    /\ attempt \in 0 .. Attempts /\ salt = attempt + 1
    /\ Vanishing(ikm, attempt)

Finished == stage = "done" => at = "idle" /\ residue = {}

Stages == /\ stage \in {"idle", "entropy", "attempt", "done"}
          /\ AtRest /\ Asking /\ Trying /\ Finished

KeyIInv == RandIInv /\ Stages /\ KeyIsTheFirstNonzero /\ SecretsAreHandled

(* Nothing is asked for and nothing secret exists at the start.            *)
LEMMA InitKeyIInv == KeyInit => KeyIInv
<1> SUFFICES ASSUME KeyInit PROVE KeyIInv
  OBVIOUS
<1>1. RandIInv  BY InitRandIInv DEF KeyInit
<1>2. Stages
  BY DEF KeyInit, RandInit, Stages, AtRest, Asking, Trying, Finished
<1>3. KeyIsTheFirstNonzero /\ SecretsAreHandled
  BY DEF KeyInit, KeyIsTheFirstNonzero, SecretsAreHandled,
     SecretsComeFromEntropy, SecretsAreWiped
<1>. QED  BY <1>1, <1>2, <1>3 DEF KeyIInv

(* A call that starts by asking for entropy: the request is in progress,   *)
(* or answered at once when it is for no bytes.                            *)
LEMMA StartsToDraw ==
  ASSUME KeyIInv, stage = "idle", NEW bytes \in 0 .. MaxBytes, Request(bytes),
         stage' = "entropy", call' \in {"bytes", "keygen_random"} \cup Uniform,
         call' = "keygen_random" => bytes = IkmBytes,
         call' \in Uniform => k' = Nothing,
         UNCHANGED <<ikm, residue, sk>>
  PROVE  KeyIInv'
<1>1. RandIInv'  BY RequestKeeps DEF KeyIInv
<1>2. Stages'
  BY DEF KeyIInv, Stages, AtRest, Asking, Trying, Finished, Request, Answer,
     NoAnswer
<1>3. KeyIsTheFirstNonzero' /\ SecretsAreHandled'
  BY DEF KeyIsTheFirstNonzero, SecretsAreHandled, SecretsComeFromEntropy,
     SecretsAreWiped
<1>. QED  BY <1>1, <1>2, <1>3 DEF KeyIInv

(* elips_bls_keygen: refused, or keying material in hand.                  *)
LEMMA KeygenKeeps ==
  ASSUME KeyIInv, Keygen
  PROVE  KeyIInv'
<1>1. UNCHANGED randVars /\ stage = "idle" /\ call' = "keygen" /\ sk' = sk
  BY DEF Keygen
<1>2. at = "idle" /\ n = 0 /\ residue = {} /\ ikm = "none" /\ sk = Untouched
  BY <1>1 DEF KeyIInv, Stages, AtRest
<1>3. \/ /\ code' = INVALID /\ stage' = "done"
         /\ UNCHANGED <<ikm, salt, attempt, residue>>
      \/ Enter("seed")
  BY DEF Keygen
<1>4. RandIInv'
  BY <1>1 DEF KeyIInv, RandIInv, RandTypeOK, AllOrNothing, Partial, randVars
<1>5. Stages'
  BY <1>1, <1>2, <1>3, KeyGenAssumption
  DEF Stages, AtRest, Asking, Trying, Finished, Enter, Vanishing, randVars
<1>6. KeyIsTheFirstNonzero' /\ SecretsAreHandled'
  BY <1>1, <1>2, <1>3
  DEF KeyIsTheFirstNonzero, SecretsAreHandled, SecretsComeFromEntropy,
      SecretsAreWiped, Enter, INVALID, OK, RANDOM, Uniform, randVars
<1>. QED  BY <1>4, <1>5, <1>6 DEF KeyIInv

(* A step of the draw.                                                     *)
LEMMA DrawKeeps ==
  ASSUME KeyIInv, Draw
  PROVE  KeyIInv'
<1>1. RandIInv'
  BY StepRandIInv DEF KeyIInv, Draw, RandNext
<1>2. /\ at # "idle" /\ n' = n
      /\ at' = "idle" => rc' # NoAnswer
  BY DEF Draw, RandStep, Arc4Random, GetEntropy, GetRandom, KernelGives,
     KernelInterrupted, KernelRefuses, OpenDevice, ReadDevice, ShortRead,
     Answer, NoAnswer
<1>3. Stages'
  BY <1>2 DEF KeyIInv, Stages, AtRest, Asking, Trying, Finished, Draw
<1>4. KeyIsTheFirstNonzero' /\ SecretsAreHandled'
  BY DEF Draw, KeyIsTheFirstNonzero, SecretsAreHandled,
     SecretsComeFromEntropy, SecretsAreWiped
<1>. QED  BY <1>1, <1>3, <1>4 DEF KeyIInv

(* A draw that failed: the code of the caller, and zeros.                  *)
LEMMA NoEntropyKeeps ==
  ASSUME KeyIInv, NoEntropy
  PROVE  KeyIInv'
<1>1. /\ stage = "entropy" /\ at = "idle" /\ rc # 0 /\ stage' = "done"
      /\ code' = IF call \in {"bytes"} \cup Uniform THEN -1 ELSE RANDOM
      /\ UNCHANGED <<vanishes, call, ikm, salt, attempt, residue, sk, k>>
      /\ UNCHANGED <<build, at, n, buf, got, rc>>
  BY DEF NoEntropy, EntropyFailed, randVars
<1>2. /\ call \in {"bytes", "keygen_random"} \cup Uniform
      /\ rc # NoAnswer /\ residue = {} /\ ikm = "none" /\ sk = Untouched
      /\ call \in Uniform => k = Nothing
  BY <1>1 DEF KeyIInv, Stages, Asking
<1>3. \A x \in 1 .. n : buf[x] = "zero"
  BY <1>1, <1>2 DEF KeyIInv, RandIInv, AllOrNothing, RandTypeOK
<1>4. RandIInv'
  BY <1>1 DEF KeyIInv, RandIInv, RandTypeOK, AllOrNothing, Partial
<1>5. Stages'
  BY <1>1, <1>2 DEF Stages, AtRest, Asking, Trying, Finished
<1>6. KeyIsTheFirstNonzero'
  BY <1>1, <1>2 DEF KeyIsTheFirstNonzero, RANDOM, OK, INVALID, Uniform
<1>7. SecretsAreHandled'
  BY <1>1, <1>2, <1>3
  DEF SecretsAreHandled, SecretsComeFromEntropy, SecretsAreWiped, RANDOM, OK,
      Uniform, Nothing, Untouched
<1>. QED  BY <1>4, <1>5, <1>6, <1>7 DEF KeyIInv

(* A draw that was answered: the bytes, a scalar, or keying material.      *)
LEMMA DrawnKeeps ==
  ASSUME KeyIInv, Drawn
  PROVE  KeyIInv'
<1>1. /\ stage = "entropy" /\ at = "idle" /\ rc = 0
      /\ UNCHANGED <<vanishes, call, sk>>
      /\ UNCHANGED <<build, at, n, buf, got, rc>>
  BY DEF Drawn, EntropyFailed, randVars
<1>2. /\ residue = {} /\ ikm = "none" /\ sk = Untouched
      /\ call = "keygen_random" => n = IkmBytes
  BY <1>1 DEF KeyIInv, Stages, Asking
<1>3. RandIInv'
  BY <1>1 DEF KeyIInv, RandIInv, RandTypeOK, AllOrNothing, Partial
<1>4. CASE call = "bytes"
  <2>1. stage' = "done" /\ code' = OK /\ UNCHANGED <<ikm, residue, k>>
    BY <1>4 DEF Drawn, Uniform
  <2>2. Stages'
    BY <1>1, <1>2, <2>1 DEF Stages, AtRest, Asking, Trying, Finished
  <2>3. KeyIsTheFirstNonzero' /\ SecretsAreHandled'
    BY <1>1, <1>4, <2>1
    DEF KeyIsTheFirstNonzero, SecretsAreHandled, SecretsComeFromEntropy,
        SecretsAreWiped, Uniform, OK, RANDOM
  <2>. QED  BY <1>3, <2>2, <2>3 DEF KeyIInv
<1>5. CASE call \in Uniform
  <2>1. /\ stage' = "done" /\ code' = OK /\ UNCHANGED <<ikm, residue>>
        /\ k' = Nothing \/ k' = Key("wide", 1)
    BY <1>5 DEF Drawn, Uniform
  <2>2. Stages'
    BY <1>1, <1>2, <2>1 DEF Stages, AtRest, Asking, Trying, Finished
  <2>3. k' # Untouched
    BY <2>1 DEF Nothing, Key, Untouched
  <2>4. KeyIsTheFirstNonzero' /\ SecretsAreHandled'
    BY <1>1, <1>5, <2>1, <2>3
    DEF KeyIsTheFirstNonzero, SecretsAreHandled, SecretsComeFromEntropy,
        SecretsAreWiped, Uniform, OK, RANDOM
  <2>. QED  BY <1>3, <2>2, <2>4 DEF KeyIInv
<1>6. CASE call = "keygen_random"
  <2>1. Enter("random")
    BY <1>6 DEF Drawn, Uniform
  <2>2. \A x \in 1 .. n : buf[x] \in Sources
    <3>1. n # 0 /\ rc # NoAnswer /\ rc # -1
      BY <1>1, <1>2, <1>6, KeyGenAssumption DEF NoAnswer
    <3>. QED  BY <1>1, <3>1 DEF KeyIInv, RandIInv, AllOrNothing
  <2>3. Stages'
    BY <1>1, <1>2, <1>6, <2>1, KeyGenAssumption
    DEF Stages, AtRest, Asking, Trying, Finished, Enter, Vanishing
  <2>4. KeyIsTheFirstNonzero' /\ SecretsAreHandled'
    BY <1>1, <2>1, <2>2
    DEF KeyIsTheFirstNonzero, SecretsAreHandled, SecretsComeFromEntropy,
        SecretsAreWiped, Enter
  <2>. QED  BY <1>3, <2>3, <2>4 DEF KeyIInv
<1>. QED  BY <1>4, <1>5, <1>6 DEF Drawn

(* The exit of the loop wipes what it held.                                *)
LEMMA ExitKeeps ==
  ASSUME KeyIInv, stage = "attempt", NEW c, Exit(c)
  PROVE  /\ RandIInv' /\ Stages' /\ SecretsAreWiped'
         /\ stage' = "done" /\ code' = c /\ call' = call /\ ikm' = ikm
         /\ vanishes' = vanishes /\ call \in {"keygen", "keygen_random"}
<1>1. at = "idle" /\ call \in {"keygen", "keygen_random"}
      /\ (call = "keygen" => n = 0)
  BY DEF KeyIInv, Stages, Trying
<1>2. /\ code' = c /\ stage' = "done" /\ residue' = {} /\ call' = call
      /\ UNCHANGED <<vanishes, ikm, k, build, at, n, got>>
      /\ call = "keygen_random" => buf' = Wiped /\ rc' = NoAnswer
      /\ call # "keygen_random" => UNCHANGED <<buf, rc>>
  BY DEF Exit, Residue
<1>3. n \in Nat  BY SysRandAssumption DEF KeyIInv, RandIInv, RandTypeOK
<1>4. RandIInv'
  BY <1>1, <1>2, <1>3
  DEF KeyIInv, RandIInv, RandTypeOK, AllOrNothing, Partial, Wiped, Bytes,
      NoAnswer
<1>5. Stages'
  BY <1>1, <1>2 DEF Stages, AtRest, Asking, Trying, Finished
<1>6. SecretsAreWiped'
  BY <1>1, <1>2, <1>3 DEF SecretsAreWiped, Wiped
<1>. QED  BY <1>1, <1>2, <1>4, <1>5, <1>6

(* A pass of the loop keeps the key, or tries the next salt.               *)
LEMMA PassKeeps ==
  ASSUME KeyIInv, Pass
  PROVE  KeyIInv'
<1>1. /\ stage = "attempt" /\ attempt \in 0 .. Attempts /\ attempt < Attempts
      /\ salt = attempt + 1 /\ Vanishing(ikm, attempt) /\ sk = Untouched
      /\ at = "idle" /\ call \in {"keygen", "keygen_random"}
      /\ Attempts \in Nat
  BY KeyGenAssumption DEF KeyIInv, Stages, Trying, Pass
<1>2. CASE <<ikm, salt>> \notin vanishes
  <2>1. Exit(OK) /\ sk' = Key(ikm, salt)  BY <1>2 DEF Pass
  <2>2. /\ RandIInv' /\ Stages' /\ SecretsAreWiped'
        /\ stage' = "done" /\ code' = OK /\ call' = call /\ ikm' = ikm
        /\ vanishes' = vanishes
    BY <1>1, <2>1, ExitKeeps
  <2>3. KeyIsTheFirstNonzero'
    <3>1. salt \in 1 .. Attempts /\ salt - 1 = attempt  BY <1>1
    <3>2. \A i \in 1 .. salt - 1 : <<ikm', i>> \in vanishes'
      BY <1>1, <2>2, <3>1 DEF Vanishing
    <3>3. <<ikm', salt>> \notin vanishes' /\ sk' = Key(ikm', salt)
      BY <1>2, <2>1, <2>2
    <3>. QED
      BY <2>2, <3>1, <3>2, <3>3 DEF KeyIsTheFirstNonzero, Key, Vanishing
  <2>4. SecretsComeFromEntropy'
    BY <1>1, <2>2 DEF SecretsComeFromEntropy, OK, RANDOM, Uniform
  <2>. QED  BY <2>2, <2>3, <2>4 DEF KeyIInv, SecretsAreHandled
<1>3. CASE <<ikm, salt>> \in vanishes
  <2>1. /\ salt' = salt + 1 /\ attempt' = attempt + 1
        /\ UNCHANGED <<vanishes, call, stage, ikm, sk, k, code>>
        /\ UNCHANGED <<build, at, n, buf, got, rc>>
    BY <1>3 DEF Pass, NextSalt, randVars
  <2>2. RandIInv'
    BY <2>1 DEF KeyIInv, RandIInv, RandTypeOK, AllOrNothing, Partial
  <2>3. Vanishing(ikm, attempt)'
    BY <1>1, <1>3, <2>1 DEF Vanishing
  <2>4. Stages'
    BY <1>1, <2>1, <2>3
    DEF KeyIInv, Stages, AtRest, Asking, Trying, Finished
  <2>5. KeyIsTheFirstNonzero' /\ SecretsAreHandled'
    BY <1>1, <2>1
    DEF KeyIInv, KeyIsTheFirstNonzero, SecretsAreHandled,
        SecretsComeFromEntropy, SecretsAreWiped
  <2>. QED  BY <2>2, <2>4, <2>5 DEF KeyIInv
<1>. QED  BY <1>2, <1>3

(* Out of salts.                                                           *)
LEMMA ExhaustedKeeps ==
  ASSUME KeyIInv, Exhausted
  PROVE  KeyIInv'
<1>1. /\ stage = "attempt" /\ attempt = Attempts
      /\ Exit(INVALID) /\ sk' = sk
  BY DEF Exhausted
<1>2. sk = Untouched /\ Vanishing(ikm, attempt)
  BY <1>1 DEF KeyIInv, Stages, Trying
<1>3. /\ RandIInv' /\ Stages' /\ SecretsAreWiped'
      /\ stage' = "done" /\ code' = INVALID /\ call' = call /\ ikm' = ikm
      /\ vanishes' = vanishes /\ call \in {"keygen", "keygen_random"}
  BY <1>1, ExitKeeps
<1>4. KeyIsTheFirstNonzero'
  BY <1>1, <1>2, <1>3 DEF KeyIsTheFirstNonzero, Vanishing, OK, INVALID
<1>5. SecretsComeFromEntropy'
  BY <1>3 DEF SecretsComeFromEntropy, INVALID, RANDOM, Uniform
<1>. QED  BY <1>3, <1>4, <1>5 DEF KeyIInv, SecretsAreHandled

(* The next call starts afresh.                                            *)
LEMMA CollectKeeps ==
  ASSUME KeyIInv, Collect
  PROVE  KeyIInv'
<1>1. /\ stage = "done" /\ stage' = "idle" /\ at = "idle" /\ residue = {}
      /\ n' = 0 /\ buf' = <<>> /\ got' = 0 /\ ikm' = "none" /\ sk' = Untouched
      /\ UNCHANGED <<residue, build, at, rc>>
  BY DEF KeyIInv, Stages, Finished, Collect
<1>2. RandIInv'
  BY <1>1, SysRandAssumption
  DEF KeyIInv, RandIInv, RandTypeOK, AllOrNothing, Partial
<1>3. Stages'
  BY <1>1 DEF Stages, AtRest, Asking, Trying, Finished
<1>4. KeyIsTheFirstNonzero' /\ SecretsAreHandled'
  BY <1>1 DEF KeyIsTheFirstNonzero, SecretsAreHandled,
     SecretsComeFromEntropy, SecretsAreWiped
<1>. QED  BY <1>2, <1>3, <1>4 DEF KeyIInv

(* Every step of every call keeps the invariant.                           *)
LEMMA StepKeyIInv == KeyIInv /\ [KeyNext]_keyVars => KeyIInv'
<1> SUFFICES ASSUME KeyIInv, [KeyNext]_keyVars PROVE KeyIInv'
  OBVIOUS
<1>1. IkmBytes \in 0 .. MaxBytes /\ WideBytes \in 0 .. MaxBytes
  BY KeyGenAssumption, SysRandAssumption
<1>2. CASE Keygen  BY <1>2, KeygenKeeps
<1>3. CASE RandomBytes
  BY <1>3, StartsToDraw DEF RandomBytes, Uniform
<1>4. CASE KeygenRandom
  BY <1>1, <1>4, StartsToDraw DEF KeygenRandom, Uniform
<1>5. CASE RandomScalar
  BY <1>1, <1>5, StartsToDraw DEF RandomScalar, Uniform
<1>6. CASE FpRand
  BY <1>1, <1>6, StartsToDraw DEF FpRand, Uniform
<1>7. CASE Draw  BY <1>7, DrawKeeps
<1>8. CASE NoEntropy  BY <1>8, NoEntropyKeeps
<1>9. CASE Drawn  BY <1>9, DrawnKeeps
<1>10. CASE Pass  BY <1>10, PassKeeps
<1>11. CASE Exhausted  BY <1>11, ExhaustedKeeps
<1>12. CASE Collect  BY <1>12, CollectKeeps
<1>13. CASE UNCHANGED keyVars
  BY <1>13
  DEF keyVars, KeyIInv, RandIInv, RandTypeOK, AllOrNothing, Partial, Stages,
      AtRest, Asking, Trying, Finished, KeyIsTheFirstNonzero, Vanishing,
      SecretsAreHandled, SecretsComeFromEntropy, SecretsAreWiped
<1>. QED  BY <1>2, <1>3, <1>4, <1>5, <1>6, <1>7, <1>8, <1>9, <1>10, <1>11,
             <1>12, <1>13
          DEF KeyNext

(* The invariant holds throughout every run of the calls.                  *)
THEOREM KeyGenInductive == KeySpec => []KeyIInv
<1>. QED  BY InitKeyIInv, StepKeyIInv, PTL DEF KeySpec

(* For any number of attempts and whichever outputs of HKDF reduce to      *)
(* zero: elips_bls_keygen returns the key of the first salt whose output   *)
(* does not, and leaves sk alone when it fails (bls.c:136-157).            *)
THEOREM KeyGenReturnsTheFirst == KeySpec => []KeyIsTheFirstNonzero
<1>1. KeyIInv => KeyIsTheFirstNonzero  BY DEF KeyIInv
<1>. QED  BY <1>1, KeyGenInductive, PTL

(* For requests of any size, in every build and however often the kernel   *)
(* interrupts: a secret is made of a full draw or not at all, and nothing  *)
(* of it is left behind on return (bls.c:159-170, random.c:29-46).         *)
THEOREM KeyGenHandlesSecrets == KeySpec => []SecretsAreHandled
<1>1. KeyIInv => SecretsAreHandled  BY DEF KeyIInv
<1>. QED  BY <1>1, KeyGenInductive, PTL
=============================================================================
