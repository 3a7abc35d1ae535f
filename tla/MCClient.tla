------------------------------ MODULE MCClient ------------------------------
(***************************************************************************)
(* Client with two sessions, so that one is left behind, and keys for a     *)
(* start, two messages and an erase (or a second start); two faults let a   *)
(* lost answer, a busy or failed retry and an expiry meet.                  *)
(***************************************************************************)
EXTENDS Client

CONSTANTS s1, s2

MCSessions == {s1, s2}

=============================================================================
