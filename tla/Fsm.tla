-------------------------------- MODULE Fsm --------------------------------
(***************************************************************************)
(* The conversation's transition function (orchestrator package fsm/).      *)
(*                                                                         *)
(* A turn builds a record of Facts and asks for the first row whose scope   *)
(* contains the current state and whose condition holds: cross-cutting rows *)
(* and guards first, then the state's own rows, then STAY.  The function is *)
(* pure, so this module declares no variables; Journey and MCFsm use it.    *)
(*                                                                         *)
(* Data abstraction: escalation reasons and reason codes other than MINOR   *)
(* are left out, a sufficiency score is only "at least the configured        *)
(* minimum or not", a hash is an element of Hashes.                         *)
(***************************************************************************)
EXTENDS Integers

CONSTANTS
  Uins,                      \* products
  Hashes, NoHash,            \* hashes of the confirmed needs slots
  RediscoveryLoopLimit,      \* Settings.rediscovery_loop_limit
  LowConfidenceStreakLimit   \* Settings.low_confidence_streak_limit

ASSUME FsmAssumption ==
  /\ RediscoveryLoopLimit \in Nat
  /\ LowConfidenceStreakLimit \in Nat \ {0}
  /\ NoHash \notin Hashes

----------------------------------------------------------------------------
(* States (fsm/states.py). *)

Engaged  == {"S0", "S1", "QUOTE_ONLY", "S2", "S3"}
Active   == Engaged \union {"PAUSE"}
Terminal == {"HUMAN_ESCALATION", "EXIT", "EXIT_ADVISORY", "DATA_ERASURE", "HANDOFF"}
FsmState == Active \union Terminal

Resumable == Engaged
NeedsP1   == {"S1", "QUOTE_ONLY", "S2", "S3", "HANDOFF"}

----------------------------------------------------------------------------
(* Facts (fsm/facts.py). *)

EligibilityOutcome ==
  {"ELIGIBLE", "NOT_ELIGIBLE", "HUMAN_ESCALATION", "DATA_ERASURE_EXIT", "RE_ASK"}

Eligibility  == [outcome : EligibilityOutcome, uins : SUBSET Uins]
NoEligibility == [outcome |-> "none", uins |-> {}]

Suitability  == [hash : Hashes, outcome : {"FIT", "NO_GAP", "ESCALATE"},
                 sufficient : BOOLEAN, amber : BOOLEAN]
NoSuitability == [hash |-> NoHash, outcome |-> "none", sufficient |-> FALSE, amber |-> FALSE]

Selected   == [uin : Uins, quote_valid : BOOLEAN]
NoSelected == [quote_valid |-> FALSE]

Facts ==
  [ consent : {"none", "refused", "valid", "lapsed"},
    intent : {"none", "new_purchase", "specific_plan", "existing_policy", "general_faq"},
    minor : BOOLEAN,
    eligibility : Eligibility \union {NoEligibility},
    reask_exhausted : BOOLEAN, express_path : BOOLEAN, quote_satisfied : BOOLEAN,
    advisory_opt_in : BOOLEAN, apply_request : BOOLEAN,
    suitability : Suitability \union {NoSuitability},
    needs_hash : Hashes \union {NoHash},
    sufficiency_elected : BOOLEAN, amber_confirmed : BOOLEAN,
    selected : Selected \union {NoSelected},
    acks_valid : BOOLEAN, no_options : BOOLEAN, all_rejected : BOOLEAN,
    rediscovery_loops : Nat,
    need_time : BOOLEAN, explicit_decline : BOOLEAN, end_requested : BOOLEAN,
    correction : {"none", "eligibility", "needs"},
    paused_from : FsmState \union {"none"},
    withdraw : BOOLEAN, human_request : BOOLEAN, frustration : BOOLEAN,
    low_confidence_streak : Nat,
    mandatory_trigger : BOOLEAN,
    inactivity_timeout : BOOLEAN, dependency_down : BOOLEAN,
    faq : BOOLEAN, objection : BOOLEAN ]

\* Facts() with every field at its default.
NoFacts ==
  [ consent |-> "none", intent |-> "none", minor |-> FALSE,
    eligibility |-> NoEligibility, reask_exhausted |-> FALSE, express_path |-> FALSE,
    quote_satisfied |-> FALSE, advisory_opt_in |-> FALSE, apply_request |-> FALSE,
    suitability |-> NoSuitability, needs_hash |-> NoHash,
    sufficiency_elected |-> FALSE, amber_confirmed |-> FALSE,
    selected |-> NoSelected, acks_valid |-> FALSE, no_options |-> FALSE,
    all_rejected |-> FALSE, rediscovery_loops |-> 0,
    need_time |-> FALSE, explicit_decline |-> FALSE, end_requested |-> FALSE,
    correction |-> "none", paused_from |-> "none",
    withdraw |-> FALSE, human_request |-> FALSE, frustration |-> FALSE,
    low_confidence_streak |-> 0, mandatory_trigger |-> FALSE,
    inactivity_timeout |-> FALSE, dependency_down |-> FALSE,
    faq |-> FALSE, objection |-> FALSE ]

ValidP1(f)          == f.consent = "valid"
ConsentGivenEver(f) == f.consent \in {"valid", "lapsed"}
Eligible(f)         == f.eligibility.outcome = "ELIGIBLE"
SuitabilityCurrent(f) ==
  f.suitability # NoSuitability /\ f.suitability.hash = f.needs_hash
CurrentOutcome(f, outcome) == SuitabilityCurrent(f) /\ f.suitability.outcome = outcome

----------------------------------------------------------------------------
(* The rows (fsm/rows.py). *)

EscalationDue(f) ==
  \/ f.mandatory_trigger
  \/ f.human_request
  \/ f.frustration
  \/ f.low_confidence_streak >= LowConfidenceStreakLimit

Suitable(f) ==
  /\ CurrentOutcome(f, "FIT")
  /\ f.suitability.sufficient \/ f.sufficiency_elected
  /\ f.suitability.amber => f.amber_confirmed

CanHandOff(f) ==
  /\ f.selected # NoSelected
  /\ f.selected.quote_valid
  /\ f.acks_valid
  /\ Eligible(f)
  /\ f.selected.uin \in f.eligibility.uins

Row(id, scope, order, to, when) ==
  [id |-> id, scope |-> scope, order |-> order, to |-> to, when |-> when]

CrossCutting(f) ==
  { Row("CC1",  Active,  1, "DATA_ERASURE", f.withdraw),
    Row("CC1b", Active,  2, "DATA_ERASURE", f.minor),
    Row("CC2",  Active,  3, "HUMAN_ESCALATION", EscalationDue(f)),
    Row("CC3",  Engaged, 4, "PAUSE",
        ConsentGivenEver(f) /\ (f.inactivity_timeout \/ f.dependency_down)),
    Row("G1",   {"S1", "QUOTE_ONLY", "S2", "S3"}, 5, "S0", ~ValidP1(f)),
    Row("G2",   {"S2", "S3"}, 6, "S1", f.correction = "eligibility"),
    Row("G3",   {"S3"}, 7, "S2", f.correction = "needs"),
    Row("G4",   {"S3"}, 8, "S2", ~SuitabilityCurrent(f)),
    Row("CC4",  Engaged, 9, "STAY", f.faq),
    Row("CC5",  Engaged, 10, "STAY", f.objection),
    Row("CC3b", {"S1", "QUOTE_ONLY", "S2"}, 11, "PAUSE", ConsentGivenEver(f) /\ f.need_time),
    Row("CC5b", {"S1", "QUOTE_ONLY", "S2", "S3"}, 12, "EXIT", f.end_requested) }

\* A state's own rows come after the cross-cutting ones, whatever their order numbers.
OwnRow(id, state, order, to, when) == Row(id, {state}, 100 + order, to, when)

OwnRows(f) ==
  { OwnRow("S0.1", "S0", 1, "HUMAN_ESCALATION", f.intent = "existing_policy"),
    OwnRow("S0.2", "S0", 2, "EXIT", f.consent = "refused"),
    OwnRow("S0.3", "S0", 3, "QUOTE_ONLY", ValidP1(f) /\ f.intent = "specific_plan"),
    OwnRow("S0.4", "S0", 4, "S1", ValidP1(f) /\ f.intent = "new_purchase"),
    OwnRow("S1.0", "S1", 0, "DATA_ERASURE", f.eligibility.outcome = "DATA_ERASURE_EXIT"),
    OwnRow("S1.1", "S1", 1, "HUMAN_ESCALATION", f.eligibility.outcome = "HUMAN_ESCALATION"),
    OwnRow("S1.1b", "S1", 2, "HUMAN_ESCALATION",
           f.eligibility.outcome = "RE_ASK" /\ f.reask_exhausted),
    OwnRow("S1.2", "S1", 3, "EXIT", f.eligibility.outcome = "NOT_ELIGIBLE"),
    OwnRow("S1.3", "S1", 4, "QUOTE_ONLY", Eligible(f) /\ f.express_path),
    OwnRow("S1.4", "S1", 5, "S2", Eligible(f)),
    OwnRow("QO.1", "QUOTE_ONLY", 1, "STAY", f.apply_request),
    OwnRow("QO.2", "QUOTE_ONLY", 2, "EXIT", f.quote_satisfied),
    OwnRow("QO.3", "QUOTE_ONLY", 3, "S2", f.advisory_opt_in /\ Eligible(f)),
    OwnRow("QO.3b", "QUOTE_ONLY", 4, "S1", f.advisory_opt_in /\ ~Eligible(f)),
    OwnRow("S2.1b", "S2", 1, "HUMAN_ESCALATION", CurrentOutcome(f, "ESCALATE")),
    OwnRow("S2.1", "S2", 2, "EXIT_ADVISORY", CurrentOutcome(f, "NO_GAP")),
    OwnRow("S2.2", "S2", 3, "S3", Suitable(f)),
    OwnRow("S3.0", "S3", 0, "HUMAN_ESCALATION", f.no_options),
    OwnRow("S3.1", "S3", 1, "EXIT", f.explicit_decline /\ f.rediscovery_loops >= 1),
    OwnRow("S3.2", "S3", 2, "PAUSE", f.need_time),
    OwnRow("S3.3", "S3", 3, "S2", f.all_rejected /\ f.rediscovery_loops < RediscoveryLoopLimit),
    OwnRow("S3.3b", "S3", 4, "HUMAN_ESCALATION",
           f.all_rejected /\ f.rediscovery_loops >= RediscoveryLoopLimit),
    OwnRow("S3.4", "S3", 5, "HANDOFF", CanHandOff(f)),
    OwnRow("PAUSE.R", "PAUSE", 1, "RESUME", ~f.inactivity_timeout) }

StayRow == Row("STAY", FsmState, 199, "STAY", TRUE)

Rows(f) == CrossCutting(f) \union OwnRows(f) \union {StayRow}

----------------------------------------------------------------------------
(* transition() (fsm/transition.py). *)

\* Bugs: a pause has no under-18 row; S3 is not guarded.
MatchingEngaged(f, s) ==
  {r \in Rows(f) : s \in r.scope /\ r.when /\ (r.id = "CC1b" => s \in Engaged)}
MatchingUnguarded(f, s) == {r \in Rows(f) : s \in r.scope /\ r.when /\ r.id # "G4"}

Applying(rows, s) == {r \in rows : s \in r.scope /\ r.when}
Matching(f, s) ==
  Applying(CrossCutting(f), s) \union Applying(OwnRows(f), s) \union {StayRow}

IsFirst(r, rows) == r \in rows /\ \A q \in rows : r.order <= q.order

Deciding(f, s) ==
  LET matching == Matching(f, s) IN CHOOSE r \in matching : IsFirst(r, matching)

\* A bug: STAY is taken for a state.
OutcomeRaw(r, s) == [to |-> r.to, row |-> r.id]

\* What a row other than RESUME does in state s.
Outcome(r, s) == [to |-> IF r.to = "STAY" THEN s ELSE r.to, row |-> r.id]

\* PAUSE.R re-enters the paused-from state, which is never PAUSE itself.
ResumeTarget(f) == IF f.paused_from \in Resumable THEN f.paused_from ELSE "S0"

\* A bug: a pause resumes where it was taken without evaluating the guards there.
ResumedBlindly(f) == [to |-> ResumeTarget(f), row |-> "PAUSE.R"]

Resumed(f) ==
  LET inner == Outcome(Deciding(f, ResumeTarget(f)), ResumeTarget(f))
  IN  IF inner.row = "STAY" THEN [inner EXCEPT !.row = "PAUSE.R"] ELSE inner

Transition(f, s) ==
  LET r == Deciding(f, s) IN IF r.to = "RESUME" THEN Resumed(f) ELSE Outcome(r, s)

\* decide (graph/nodes.py): a move the turn's own answer earned is not held back by a side
\* question or an objection.
Earned(f, s) ==
  LET held   == Transition(f, s)
      earned == Transition([f EXCEPT !.faq = FALSE, !.objection = FALSE], s)
  IN  IF held.row \in {"CC4", "CC5"} /\ earned.to # s THEN earned ELSE held

=============================================================================
