------------------------------ MODULE BlsService -----------------------------
(***************************************************************************)
(* The abstract specification of the BLS entry points: a call goes in, and *)
(* the promised code, with the promised output bytes, comes out in one     *)
(* step.  What is promised of a call is BlsScheme's to say; BlsApi, which  *)
(* works through bls.c loop by loop, implements this service with it.      *)
(***************************************************************************)
CONSTANTS
  Operations,           \* the entry points
  NoCall,               \* the record of no call
  Untouched,            \* what the caller's buffer holds before a call
  PromisedRc(_),        \* the code promised of a call
  PromisedOut(_)        \* and the bytes

VARIABLES
  phase,                \* "idle", "busy" or "done"
  call,                 \* the call in progress
  rc,                   \* the code returned
  out                   \* the caller's 96-byte output buffer

vars == <<phase, call, rc, out>>

Init == /\ phase = "idle" /\ call = NoCall /\ rc = "OK" /\ out = Untouched

Invoke == /\ phase = "idle" /\ phase' = "busy"
          /\ call'.op \in Operations   \* with any arguments
          /\ UNCHANGED <<rc, out>>

Complete == /\ phase = "busy" /\ phase' = "done"
            /\ rc' = PromisedRc(call)
            /\ out' = PromisedOut(call)
            /\ UNCHANGED call

Collect == /\ phase = "done" /\ phase' = "idle"
           /\ call' = NoCall /\ rc' = "OK" /\ out' = Untouched

Next == Invoke \/ Complete \/ Collect

(* Every call returns.                                                     *)
Returns == phase = "busy" /\ phase' = "done"

Spec == Init /\ [][Next]_vars /\ WF_phase(Returns)
=============================================================================
