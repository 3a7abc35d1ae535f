------------------------------ MODULE MCTurns ------------------------------
(***************************************************************************)
(* TurnRuntime with two workers and two customer keys.  Three requests let  *)
(* a key be retried while another turn (or a timer's) runs; one lapse lets  *)
(* two turns run at once; one failure is a crash, a failed turn or a failed *)
(* checkpoint write before the retry.                                       *)
(***************************************************************************)
EXTENDS TurnRuntime

CONSTANTS w1, w2, k1, k2

MCWorkers == {w1, w2}
MCKeys == {k1, k2}

=============================================================================
