------------------------------- MODULE MCFsm -------------------------------
(***************************************************************************)
(* FsmDecision on facts that differ from one of six typical turns in at     *)
(* most two fields: every pair of signals meets in every state.  Two        *)
(* products and two hashes let a choice be ineligible and a record stale.   *)
(***************************************************************************)
EXTENDS FsmDecision

CONSTANTS u1, u2, h1, h2

MCUins == {u1, u2}
MCHashes == {h1, h2}

Consented == [NoFacts EXCEPT !.consent = "valid", !.intent = "new_purchase"]
Screened  == [Consented EXCEPT !.eligibility = [outcome |-> "ELIGIBLE", uins |-> {u1}]]
Suited    == [Screened EXCEPT
                !.suitability = [hash |-> h1, outcome |-> "FIT",
                                 sufficient |-> TRUE, amber |-> FALSE],
                !.needs_hash = h1]
Choosing  == [Suited EXCEPT !.selected = [uin |-> u1, quote_valid |-> TRUE], !.acks_valid = TRUE]
PausedIn  == [Choosing EXCEPT !.paused_from = "S3"]

MCTypicalFacts == {NoFacts, Consented, Screened, Suited, Choosing, PausedIn}

\* The values each field is varied over.
MCValues ==
  [ consent |-> {"none", "refused", "valid", "lapsed"},
    intent |-> {"none", "new_purchase", "specific_plan", "existing_policy"},
    minor |-> BOOLEAN,
    eligibility |-> {NoEligibility} \union
                    [outcome : EligibilityOutcome, uins : {{u2}}],
    reask_exhausted |-> {TRUE}, express_path |-> {TRUE}, quote_satisfied |-> {TRUE},
    advisory_opt_in |-> {TRUE}, apply_request |-> {TRUE},
    suitability |-> {NoSuitability} \union
                    [hash : MCHashes, outcome : {"FIT", "NO_GAP", "ESCALATE"},
                     sufficient : {FALSE}, amber : BOOLEAN],
    needs_hash |-> {h2, NoHash},
    sufficiency_elected |-> {TRUE}, amber_confirmed |-> {TRUE},
    selected |-> {NoSelected, [uin |-> u2, quote_valid |-> TRUE],
                  [uin |-> u1, quote_valid |-> FALSE]},
    acks_valid |-> {FALSE}, no_options |-> {TRUE}, all_rejected |-> {TRUE},
    rediscovery_loops |-> 0..2,
    need_time |-> {TRUE}, explicit_decline |-> {TRUE}, end_requested |-> {TRUE},
    correction |-> {"eligibility", "needs"},
    paused_from |-> Engaged \union {"PAUSE", "EXIT"},
    withdraw |-> {TRUE}, human_request |-> {TRUE}, frustration |-> {TRUE},
    low_confidence_streak |-> 1..2, mandatory_trigger |-> {TRUE},
    inactivity_timeout |-> {TRUE}, dependency_down |-> {TRUE},
    faq |-> {TRUE}, objection |-> {TRUE} ]

=============================================================================
