------------------------------ MODULE MCJourney ------------------------------
(***************************************************************************)
(* Journey with one plan, two needs and three profiles, so that a record    *)
(* can be told to be of an old answer, and every outcome of the engines.    *)
(***************************************************************************)
EXTENDS Journey

CONSTANTS plan, h1, h2, p1, p2, p3

MCUins     == {plan}
MCHashes   == {h1, h2}
MCProfiles == {p1, p2, p3}
MCFactsIn  == {"S3"}

\* p3 leaves the engine one more question to ask.
MCEligibilityOf ==
  [p \in MCProfiles |->
    IF p = p3 THEN [outcome |-> "RE_ASK", uins |-> {}]
    ELSE [outcome |-> "ELIGIBLE", uins |-> {plan}]]

Assessed(h, outcome, sufficient, amber) ==
  [hash |-> h, outcome |-> outcome, sufficient |-> sufficient, amber |-> amber]

\* p1: fit, or fit only after an election and a confirmation.  p2: no gap, or fit but amber.
MCSuitabilityOf ==
  [p \in MCProfiles |-> [h \in MCHashes |->
    IF p = p1 THEN Assessed(h, "FIT", h = h1, h = h2)
    ELSE Assessed(h, IF h = h1 THEN "NO_GAP" ELSE "FIT", TRUE, h = h2)]]
=============================================================================
