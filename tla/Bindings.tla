------------------------------ MODULE Bindings ------------------------------
(***************************************************************************)
(* One call of a binding, from the arguments a caller gives to what it     *)
(* gets back.  JavaScript (elips.mjs) copies every argument into memory it *)
(* allocates inside the WebAssembly instance, whose growth detaches the    *)
(* views taken of it; Python (elips/__init__.py) hands the library its own *)
(* copies, while cffi has released the interpreter lock and other threads  *)
(* may write into the caller's buffers.  What the library computes is any  *)
(* of its codes: BlsApi says which.                                        *)
(***************************************************************************)
EXTENDS Naturals, Sequences, FiniteSetsExt, Functions

CONSTANT MaxGrowth        \* times the instance's memory may grow

VARIABLES
  modulePromise, inits,   \* what load() has cached, and how often it started
  growths,                \* of the instance's memory so far
  jpc, jcall, given,      \* the JavaScript call and the form of each argument
  blocks, read, jrc, threw,
  ppc, pcall, passed,     \* the Python call; the kind of each argument,
  buffer, copied, seen,   \* the caller's bytes now, the copies, what is read
  prc, raised

jsVars == <<modulePromise, inits, growths, jpc, jcall, given, blocks, read, jrc, threw>>
pyVars == <<ppc, pcall, passed, buffer, copied, seen, prc, raised>>

(* Each operation's arguments in the order JavaScript checks them; two     *)
(* messages stand for any list of them.  A list of keys, proofs or         *)
(* signatures is one argument, what concat makes of it, and one that is    *)
(* not as long as the list it goes with is short.                          *)
Checks(call) ==
  CASE call = "keygen" -> <<"ikm">>
    [] call \in {"skToPk", "popProve"} -> <<"sk">>
    [] call = "pkValidate" -> <<"pk">>
    [] call = "sign" -> <<"sk", "msg">>
    [] call = "verify" -> <<"pk", "sig", "msg">>
    [] call = "aggregate" -> <<"sigs">>
    [] call = "aggregateVerify" -> <<"pks", "msg", "msg2", "sig">>
    [] call = "fastAggregateVerify" -> <<"pks", "pops", "msg", "sig">>
    [] call = "popVerify" -> <<"pk", "proof">>

Calls == {"keygen", "skToPk", "popProve", "pkValidate", "sign", "verify",
          "aggregate", "aggregateVerify", "fastAggregateVerify", "popVerify"}
Gives == {"keygen", "skToPk", "popProve", "sign", "aggregate"}
Messages == {"msg", "msg2"}             \* any length is right for these

(* The codes each function of bls.h may answer (bls.c:113-420).            *)
Codes(call, argument) ==
  CASE call = "keygen" -> IF argument = "absent" THEN {"OK", "RANDOM"} ELSE {"OK", "INVALID"}
    [] call = "skToPk" -> {"OK", "INVALID", "BAD_KEY"}
    [] call \in {"popProve", "sign"} -> {"OK", "INVALID"}
    [] call = "pkValidate" -> {"OK", "BAD_KEY"}
    [] call = "aggregate" -> {"OK", "BAD_SIG"}
    [] call = "aggregateVerify" -> {"OK", "BAD_KEY", "BAD_SIG", "VERIFY", "INVALID", "DUP_MESSAGE"}
    [] OTHER -> {"OK", "BAD_KEY", "BAD_SIG", "VERIFY", "INVALID"}

(* The class of what fail() and _raise() make of a code.                   *)
fail(code) == IF code \in {"VERIFY", "BAD_SIG"} THEN "InvalidSignature"
              ELSE IF code = "BAD_KEY" THEN "InvalidKey" ELSE "ElipsError"

Family == {"ElipsError", "InvalidSignature", "InvalidKey"}

(* What is thrown for an argument of the wrong type, or the wrong size.    *)
Mistake(form, size) ==
  CASE form = "alien" -> "TypeError" [] form = "short" -> size [] OTHER -> "none"

Forms(a) == {"fits", "alien"} \cup (IF a \in Messages THEN {"empty"} ELSE {"short"})
            \cup (IF a = "ikm" THEN {"absent"} ELSE {})

FirstMistake(call, forms, size) ==
  LET mistake(k) == Mistake(forms[Checks(call)[k]], size)
      wrong == {k \in DOMAIN Checks(call) : mistake(k) # "none"}
  IN IF wrong = {} THEN "none" ELSE mistake(Min(wrong))

-----------------------------------------------------------------------------
(* JavaScript runs one call at a time, each to its end.                    *)
JsInit == /\ modulePromise = "null" /\ inits = 0 /\ growths = 0
          /\ jpc = "idle" /\ jcall = "none" /\ given = <<>> /\ blocks = <<>>
          /\ read = <<>> /\ jrc = "not run" /\ threw = "none"

(* load() again returns the promise it cached, even a rejected one.        *)
Load == /\ modulePromise = "null"
        /\ modulePromise' = "pending" /\ inits' = inits + 1
        /\ UNCHANGED <<growths, jpc, jcall, given, blocks, read, jrc, threw, pyVars>>

Settle == /\ modulePromise = "pending"
          /\ modulePromise' \in {"built", "rejected"}
          /\ UNCHANGED <<inits, growths, jpc, jcall, given, blocks, read, jrc, threw, pyVars>>

(* The sizes withMemory is given, a block each.                            *)
Sizes(call) ==
  CASE call = "verify" -> <<"pk", "msg", "sig">>
    [] call = "aggregateVerify" -> <<"pks", "sig", "arr", "lens", "msg", "msg2">>
    [] call \in Gives -> <<"out">> \o Checks(call)
    [] OTHER -> Checks(call)

(* keygen checks inside withMemory, the others before it.                  *)
JsCall ==
  /\ jpc = "idle" /\ modulePromise = "built"
  /\ \E call \in Calls :
       \E forms \in [Range(Checks(call)) -> UNION {Forms(a) : a \in Range(Checks(call))}] :
         /\ \A a \in DOMAIN forms : forms[a] \in Forms(a)
         /\ jcall' = call /\ given' = forms
         /\ threw' = IF call = "keygen" THEN "none" ELSE FirstMistake(call, forms, "RangeError")
  /\ jpc' = IF threw' = "none" THEN "malloc" ELSE "ended"
  /\ UNCHANGED <<modulePromise, inits, growths, blocks, read, jrc, pyVars>>

(* A block, for which the memory may grow, or the null pointer.            *)
Malloc ==
  /\ jpc = "malloc" /\ Len(blocks) < Len(Sizes(jcall))
  /\ \/ /\ blocks' = Append(blocks, Len(blocks) + 1)
        /\ growths' \in {growths, growths + 1} /\ growths' <= MaxGrowth
     \/ blocks' = Append(blocks, 0) /\ UNCHANGED growths
  /\ UNCHANGED <<modulePromise, inits, jpc, jcall, given, read, jrc, threw, pyVars>>

Pointer(name) == blocks[CHOOSE k \in DOMAIN blocks : Sizes(jcall)[k] = name]

StaleView == 0                           \* variant: the view build(m) was given

heap == growths                          \* m.HEAPU8, as the last growth left it

(* What an address holds after the puts: the last written there, through a *)
(* view of the memory as it is now; a write through a detached one is lost.*)
Held(address) ==
  LET here == {k \in DOMAIN blocks : Sizes(jcall)[k] # "out" /\ blocks[k] = address}
  IN IF here = {} \/ heap # growths THEN "noise" ELSE Sizes(jcall)[Max(here)]

(* bls.c answers INVALID to a null pointer, once it has its entropy, save  *)
(* to one for an empty message or among the messages of a list.            *)
NullIsRefused ==
  \E a \in Range(Sizes(jcall)) :
    /\ Pointer(a) = 0
    /\ ~(a \in Messages /\ given[a] = "empty")
    /\ ~(a \in Messages /\ jcall \in {"aggregateVerify", "fastAggregateVerify"})
    /\ ~(a = "ikm" /\ given[a] = "absent")

(* The puts, the library and what follows, with the blocks freed in the    *)
(* finally; keygen may throw before its put.                               *)
JsRun ==
  /\ jpc = "malloc" /\ Len(blocks) = Len(Sizes(jcall))
  /\ IF jcall = "keygen" /\ FirstMistake(jcall, given, "RangeError") # "none"
     THEN /\ threw' = FirstMistake(jcall, given, "RangeError")
          /\ UNCHANGED <<read, jrc>>
     ELSE /\ read' = [a \in DOMAIN given |-> Held(Pointer(a))]
          /\ LET codes == Codes(jcall, given[Checks(jcall)[1]])
             IN  jrc' \in IF NullIsRefused THEN {"INVALID"} \cup (codes \cap {"RANDOM"})
                                          ELSE codes
          /\ threw' = IF jrc' = "OK" THEN "none"
                      ELSE IF jrc' = "DUP_MESSAGE" THEN "RangeError" ELSE fail(jrc')
  /\ jpc' = "ended"
  /\ UNCHANGED <<modulePromise, inits, growths, jcall, given, blocks, pyVars>>

JsReturn == /\ jpc = "ended" /\ jpc' = "idle"
            /\ jcall' = "none" /\ given' = <<>> /\ blocks' = <<>> /\ read' = <<>>
            /\ jrc' = "not run" /\ threw' = "none"
            /\ UNCHANGED <<modulePromise, inits, growths, pyVars>>

JsNext == Load \/ Settle \/ JsCall \/ Malloc \/ JsRun \/ JsReturn

-----------------------------------------------------------------------------
(* Python: the caller's thread in a call, and others with its buffers.     *)
PyChecks(call) ==                       \* it checks a signature before messages
  CASE call = "aggregateVerify" -> <<"pks", "sig", "msg", "msg2">>
    [] call = "fastAggregateVerify" -> <<"pks", "pops", "sig", "msg">>
    [] OTHER -> Checks(call)

PyInit == /\ ppc = "idle" /\ pcall = "none" /\ passed = <<>> /\ buffer = <<>>
          /\ copied = <<>> /\ seen = <<>> /\ prc = "not run" /\ raised = "none"

(* A bytes object cannot change; a bytearray or a memoryview can.          *)
PyCall ==
  /\ ppc = "idle"
  /\ \E call \in Calls :
       LET names == Range(PyChecks(call)) IN
       \E kinds \in [names -> {"bytes", "mutable", "alien", "absent"}] :
         /\ \A a \in names : kinds[a] = "absent" => a = "ikm"
         /\ pcall' = call /\ passed' = kinds
         /\ buffer' \in [names -> {"whole", "short"}]
  /\ ppc' = "checking" /\ copied' = <<>>
  /\ UNCHANGED <<seen, prc, raised, jsVars>>

OthersWrite ==
  /\ ppc \in {"checking", "running"}
  /\ \E a \in DOMAIN passed : passed[a] = "mutable" /\
       \E bytes \in {"whole", "other", "short"} : buffer' = [buffer EXCEPT ![a] = bytes]
  /\ UNCHANGED <<ppc, pcall, passed, copied, seen, prc, raised, jsVars>>

(* _check and _msg copy first, and measure the copy.                       *)
_check ==
  /\ ppc = "checking" /\ Len(copied) < Len(PyChecks(pcall))
  /\ LET a == PyChecks(pcall)[Len(copied) + 1] IN
       /\ copied' = Append(copied, IF passed[a] = "absent" THEN "none" ELSE buffer[a])
       /\ raised' = IF passed[a] = "alien" THEN "TypeError"
                    ELSE IF passed[a] # "absent" /\ a \notin Messages /\ buffer[a] = "short"
                    THEN "ValueError" ELSE "none"
  /\ ppc' = IF raised' = "none" THEN "checking" ELSE "ended"
  /\ UNCHANGED <<pcall, passed, buffer, seen, prc, jsVars>>

PassesTheBuffer(k) == buffer[PyChecks(pcall)[k]]        \* variant: no copy

Passes(k) == copied[k]

(* The library reads argument after argument, as the others write.         *)
LibraryReads ==
  /\ \/ ppc = "checking" /\ Len(copied) = Len(PyChecks(pcall))
     \/ ppc = "running"
  /\ ppc' = "running"
  /\ Len(seen) < Len(copied) /\ seen' = Append(seen, Passes(Len(seen) + 1))
  /\ UNCHANGED <<pcall, passed, buffer, copied, prc, raised, jsVars>>

LibraryAnswers ==
  /\ ppc = "running" /\ Len(seen) = Len(copied)
  /\ prc' \in Codes(pcall, passed[PyChecks(pcall)[1]])
  /\ raised' = CASE prc' = "OK" -> "none" [] prc' = "RANDOM" -> "OSError"
                 [] prc' = "DUP_MESSAGE" -> "ValueError" [] OTHER -> fail(prc')
  /\ ppc' = "ended"
  /\ UNCHANGED <<pcall, passed, buffer, copied, seen, jsVars>>

PyReturn == /\ ppc = "ended" /\ ppc' = "idle"
            /\ pcall' = "none" /\ passed' = <<>> /\ buffer' = <<>> /\ copied' = <<>>
            /\ seen' = <<>> /\ prc' = "not run" /\ raised' = "none"
            /\ UNCHANGED jsVars

PyNext == PyCall \/ OthersWrite \/ _check \/ LibraryReads \/ LibraryAnswers \/ PyReturn

-----------------------------------------------------------------------------
(* Two messages of one list that both got no memory lie over one another.  *)
Overlap == jcall = "aggregateVerify" /\ Pointer("msg") = 0 /\ Pointer("msg2") = 0

(* A verdict, either way, is about the bytes the caller gave, however the  *)
(* memory grew or ran out; a caller's mistake is told before the library   *)
(* runs and is never an ElipsError; nothing but the library's yes is a     *)
(* normal return (elips.mjs:24, 104, 113).                                 *)
JsCallIsSound ==
  jpc = "ended" =>
    /\ inits = 1
    /\ threw = "none" <=> jrc = "OK"
    /\ threw \in {"TypeError", "RangeError"} <=> jrc \in {"not run", "DUP_MESSAGE"}
    /\ jrc = "not run" => \E a \in DOMAIN given : given[a] \in {"alien", "short"}
    /\ jrc \notin {"not run", "INVALID"} /\ ~Overlap =>
         \A a \in DOMAIN given :
           /\ given[a] \in {"fits", "empty", "absent"}
           /\ given[a] = "fits" => read[a] = a

(* The bytes the library reads are the bytes that were measured, whatever  *)
(* other threads write meanwhile; None is its yes only (__init__.py:100).  *)
PyCallIsSound ==
  ppc = "ended" =>
    /\ raised = "none" <=> prc = "OK"
    /\ raised \in Family => prc \notin {"not run", "RANDOM", "DUP_MESSAGE"}
    /\ prc # "not run" =>
         \A k \in DOMAIN seen :
           LET a == PyChecks(pcall)[k] IN
             /\ seen[k] = copied[k] /\ passed[a] # "alien"
             /\ a \in Messages \/ seen[k] # "short"
=============================================================================
