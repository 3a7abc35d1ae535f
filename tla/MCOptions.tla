----------------------------- MODULE MCOptions -----------------------------
(***************************************************************************)
(* Options with a plan that is priced, whose limits refuse one of the terms *)
(* asked for, and a plan without a premium; a quote lasts its day.          *)
(***************************************************************************)
EXTENDS Options

CONSTANTS term, rop, std, own, over

MCOffered == [p \in {term, rop} |-> std]

MCBounds == [p \in {term, rop} |-> {std, own}]

=============================================================================
