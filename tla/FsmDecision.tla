---------------------------- MODULE FsmDecision ----------------------------
(***************************************************************************)
(* One decision of the transition function.  A turn starts from some        *)
(* typical facts; the nodes then set further signals and results one by one *)
(* (at most MaxSignals of them), and the decide node calls                  *)
(* Earned(facts, state).  The facts are not restricted to what a turn can   *)
(* build (Journey does that), so what holds here holds whatever the nodes   *)
(* and the model put into them.                                             *)
(***************************************************************************)
EXTENDS Fsm

CONSTANTS
  TypicalFacts,     \* the facts a turn starts from, a subset of Facts
  Values,           \* for each field of the facts, the values the nodes may give it
  MaxSignals        \* how many fields differ from the typical facts

ASSUME DecisionAssumption ==
  /\ TypicalFacts \subseteq Facts
  /\ DOMAIN Values = DOMAIN NoFacts
  /\ \A x \in DOMAIN Values : \A v \in Values[x] : [NoFacts EXCEPT ![x] = v] \in Facts

VARIABLES state, facts, signals, outcome

decisionVars == <<state, facts, signals, outcome>>

Undecided == [to |-> "none", row |-> "none"]

DecisionInit ==
  /\ state \in FsmState
  /\ facts \in TypicalFacts
  /\ signals = 0
  /\ outcome = Undecided

Signal ==
  /\ outcome = Undecided /\ signals < MaxSignals
  /\ \E x \in DOMAIN Values : \E v \in Values[x] : facts' = [facts EXCEPT ![x] = v]
  /\ signals' = signals + 1
  /\ UNCHANGED <<state, outcome>>

Decide ==
  /\ outcome = Undecided
  /\ outcome' = Earned(facts, state)
  /\ UNCHANGED <<state, facts, signals>>

DecisionNext == Signal \/ Decide

DecisionSpec == DecisionInit /\ [][DecisionNext]_decisionVars

IsDecided == outcome # Undecided

----------------------------------------------------------------------------
DecisionTyped ==
  /\ state \in FsmState
  /\ facts \in Facts
  /\ IsDecided => outcome.to \in FsmState

\* I1 and I2 (fsm/transition.py _invariants), for every row at once, the resumed ones and the
\* earned ones included: an open session is only ever put or kept in a state that needs P1 while
\* the consent is valid, and in S3 while the suitability record matches the confirmed needs.
EntrySafe ==
  IsDecided /\ state \notin Terminal =>
    /\ outcome.to \in NeedsP1 => ValidP1(facts)
    /\ outcome.to = "S3" => SuitabilityCurrent(facts)

\* I5 and V2: whatever else the turn carries (a question, an escalation, an answer that earned a
\* move), a withdrawal or an under-18 signal takes every open session, a paused one too, to erasure.
ErasureFirst ==
  IsDecided /\ state \in Active /\ (facts.withdraw \/ facts.minor) => outcome.to = "DATA_ERASURE"

\* V7: a session is handed off only from S3's own position, that is from S3 or from a pause taken
\* there, on a current suitability record and the full hand-off condition.
HandOffEarned ==
  IsDecided /\ outcome.to = "HANDOFF" /\ state # "HANDOFF" =>
    /\ state = "S3" \/ (state = "PAUSE" /\ facts.paused_from = "S3")
    /\ SuitabilityCurrent(facts)
    /\ CanHandOff(facts)

=============================================================================
