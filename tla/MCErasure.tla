----------------------------- MODULE MCErasure -----------------------------
(***************************************************************************)
(* Erasure with two requests or starting processes.  Three turns are one    *)
(* that grants consent, the one that erases and one that was authenticated  *)
(* before the erasure and goes on after it; a sweep may start at any time.  *)
(***************************************************************************)
EXTENDS Erasure

CONSTANTS p1, p2, h1, h2

TwoProcs == {p1, p2}
TwoHosts == [p \in TwoProcs |-> IF p = p1 THEN h1 ELSE h2]
OneHost == [p \in TwoProcs |-> h1]

=============================================================================
