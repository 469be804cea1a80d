------------------------------- MODULE SysRand -------------------------------
(***************************************************************************)
(* elips_random_bytes of util/sysrand.c: fill a buffer from whichever      *)
(* source the build has, ask again when interrupted, start over from the   *)
(* device when the system call gives up, and leave zeros when there is no  *)
(* entropy at all.  A byte is known by where it came from.                 *)
(***************************************************************************)
EXTENDS Integers

CONSTANTS
  Chunk,                   \* most bytes getentropy gives at once, 256
  MaxBytes                 \* bound on a request

ASSUME SysRandAssumption == Chunk \in Nat \ {0} /\ MaxBytes \in Nat

VARIABLES
  build,                   \* which branch of the #if ladder was compiled
  at,                      \* where the call is
  n, buf, got,             \* the request, its buffer, bytes given so far
  rc                       \* 0, -1, or NoAnswer when there is none

randVars == <<build, at, n, buf, got, rc>>

NoAnswer == 1
Builds == {"arc4random", "getentropy", "linux", "device"}
Places == {"idle", "asking", "kernel", "open", "read"}
Sources == {"kernel", "device"}
Bytes == Sources \cup {"caller", "zero"}

RandInit == /\ build \in Builds /\ at = "idle" /\ n = 0 /\ got = 0
            /\ buf = <<>> /\ rc = NoAnswer

Filled(from, count, source) ==   \* count bytes written at offset from
  [x \in 1 .. n |-> IF x \in from + 1 .. from + count THEN source ELSE buf[x]]

Wiped == [x \in 1 .. n |-> "zero"]

Answer(code) == rc' = code /\ at' = "idle"

(* The call.                                                               *)
Request(bytes) ==
  /\ at = "idle"
  /\ n' = bytes /\ got' = 0 /\ buf' = [x \in 1 .. bytes |-> "caller"]
  /\ IF bytes = 0 THEN Answer(0)
     ELSE /\ at' = IF build = "device" THEN "open" ELSE "asking"
          /\ UNCHANGED rc
  /\ UNCHANGED build

(* arc4random_buf cannot fail.                                             *)
Arc4Random ==
  /\ at = "asking" /\ build = "arc4random"
  /\ buf' = Filled(0, n, "kernel") /\ Answer(0)
  /\ UNCHANGED <<build, n, got>>

(* getentropy, a chunk at a time.                                          *)
TakeChunk == IF n - got > Chunk THEN Chunk ELSE n - got

GetEntropy ==
  /\ at = "asking" /\ build = "getentropy"
  /\ \/ /\ buf' = Filled(got, TakeChunk, "kernel")
        /\ got' = got + TakeChunk
        /\ IF got' = n THEN Answer(0) ELSE UNCHANGED <<rc, at>>
     \/ buf' = Wiped /\ Answer(-1) /\ UNCHANGED got
  /\ UNCHANGED <<build, n>>

(* getrandom(2): the call blocks in the kernel, which gives some of the    *)
(* bytes, is interrupted by a signal, or fails for good.                   *)
GetRandom ==
  /\ at = "asking" /\ build = "linux" /\ at' = "kernel"
  /\ UNCHANGED <<build, n, buf, got, rc>>

KernelGives ==
  /\ at = "kernel"
  /\ \E count \in 1 .. n - got :
       /\ buf' = Filled(got, count, "kernel") /\ got' = got + count
       /\ IF got' = n THEN Answer(0)
          ELSE at' = "asking" /\ UNCHANGED rc
  /\ UNCHANGED <<build, n>>

KernelInterrupted ==
  /\ at = "kernel" /\ at' = "asking"
  /\ UNCHANGED <<build, n, buf, got, rc>>

KernelRefuses ==
  /\ at = "kernel" /\ at' = "open"
  /\ UNCHANGED <<build, n, buf, got, rc>>

(* The fallback reads the whole request, over what getrandom gave.         *)
OpenDevice ==
  /\ at = "open"
  /\ \/ at' = "read" /\ UNCHANGED <<buf, rc>>
     \/ buf' = Wiped /\ Answer(-1)
  /\ UNCHANGED <<build, n, got>>

AppendsToPartial == got         \* variant: counts getrandom's bytes too
AlreadyRead == 0

ReadsAgain == at' = "open" /\ UNCHANGED <<buf, rc>>  \* variant: retries
ShortRead == buf' = Wiped /\ Answer(-1)

ReadDevice ==
  /\ at = "read"
  /\ \E count \in 0 .. n :
       IF AlreadyRead + count = n
       THEN buf' = Filled(0, count, "device") /\ Answer(0)
       ELSE ShortRead
  /\ UNCHANGED <<build, n, got>>

RandStep == \/ Arc4Random \/ GetEntropy
            \/ GetRandom \/ KernelGives \/ KernelInterrupted \/ KernelRefuses
            \/ OpenDevice \/ ReadDevice

RandNext == RandStep \/ \E bytes \in 0 .. MaxBytes : Request(bytes)

(* The caller's thread runs on, and signals do not interrupt every single  *)
(* system call: one of infinitely many is answered.                        *)
RandFairness == /\ WF_randVars(RandStep)
                /\ SF_randVars(KernelGives \/ KernelRefuses)

RandSpec == RandInit /\ [][RandNext]_randVars /\ RandFairness

-----------------------------------------------------------------------------
(* Ranges of the state; got never passes the request.                      *)
RandTypeOK ==
  /\ build \in Builds /\ at \in Places /\ n \in 0 .. MaxBytes
  /\ got \in 0 .. n /\ rc \in {NoAnswer, 0, -1}
  /\ DOMAIN buf = 1 .. n /\ \A x \in 1 .. n : buf[x] \in Bytes

(* Zero is returned only over a buffer full of entropy, and of one source: *)
(* a read that falls back keeps nothing of a partial answer.  Any other    *)
(* code leaves zeros, never the caller's bytes nor part of an answer       *)
(* (sysrand.c:74-88).  No byte past the request is ever written            *)
(* (sysrand.c:63).                                                         *)
AllOrNothing ==
  /\ got <= n
  /\ at = "idle" =>
       \/ rc = NoAnswer \/ n = 0
       \/ rc = 0 /\ \E source \in Sources : \A x \in 1 .. n : buf[x] = source
       \/ rc = -1 /\ \A x \in 1 .. n : buf[x] = "zero"

(* Every request is answered, however often signals interrupt it.          *)
RequestsAreAnswered == at # "idle" ~> at = "idle"
=============================================================================
