----------------------------- MODULE StateNodes -----------------------------
(***************************************************************************)
(* What one turn does to a session before and after the transition: the     *)
(* nodes and the enter hooks of the open states (graph/states, the pause    *)
(* handler's resume).  Pure operators; Journey gives them their variables.  *)
(*                                                                         *)
(* Data abstraction: all eligibility answers are one profile and all needs  *)
(* answers one hash, each asked for in one question; the engines are        *)
(* functions of them; the recommendation is one plan; of a reply only the   *)
(* open prompt matters later, and of the prompts those an answer is read    *)
(* against; whether a plan is named in Quote-Only is a choice of each turn. *)
(***************************************************************************)
EXTENDS Fsm, Sequences

CONSTANTS
  Profiles, NoProfile,   \* the eligibility answers
  EligibilityOf,         \* what the Eligibility Service says of a profile
  SuitabilityOf          \* what the Suitability Service says of a profile and needs

ASSUME StateNodesAssumption ==
  /\ NoProfile \notin Profiles
  /\ EligibilityOf \in [Profiles -> Eligibility]
  /\ SuitabilityOf \in [Profiles -> [Hashes -> Suitability]]
  /\ \A p \in Profiles : \A h \in Hashes : SuitabilityOf[p][h].hash = h

Consents == {"none", "valid", "lapsed"}
Status   == {"missing", "said", "confirmed"}

\* conv.slot_value, the newest rows.
Slots == [profile : Profiles \union {NoProfile}, status : Status,
          needs : Hashes \union {NoHash}, needsStatus : Status]

\* A prompt: the state that put it, and which one.
Prompts  == ({"none"} \union Engaged) \X
            {"none", "consent", "age", "ask", "readback", "elect", "amber"}
NoPrompt == <<"none", "none">>

\* The engines' results, with the profile they were asked about.
NotJudged   == [profile |-> NoProfile, result |-> NoEligibility]
NotAssessed == [profile |-> NoProfile, result |-> NoSuitability]
Judgement   == [profile : Profiles, result : Eligibility] \union {NotJudged}
Assessment  == [profile : Profiles, result : Suitability] \union {NotAssessed}

\* The recommendation: what it was ranked from, and whether its plan is chosen and acknowledged.
Offers  == [profile : Profiles, suitability : Assessment, chosen : BOOLEAN, acked : BOOLEAN]
NoOffer == [chosen |-> FALSE, acked |-> FALSE]

\* SessionState; needs is the hash bound to the confirmed needs (needs.slots_sha256).
Session ==
  [state : FsmState, stack : Seq(FsmState), prompt : Prompts, consent : Consents,
   eligibility : Judgement, needs : Hashes \union {NoHash}, suitability : Assessment,
   recommendation : Offers \union {NoOffer}, loops : Nat, reasked : BOOLEAN,
   express : BOOLEAN]

----------------------------------------------------------------------------
(* A turn's input: an action, or a message with at most one statement, yes/no or intent.  A quick *)
(* reply that gives an answer is the message that gives it; yes or no to an offer (an advisor, the *)
(* quote) is the action or the intent it stands for.                                               *)

Said(p, h, yesno, intent) ==
  [act |-> "text", profile |-> p, needs |-> h, said |-> yesno, intent |-> intent]
Act(kind) == [Said(NoProfile, NoHash, "none", "none") EXCEPT !.act = kind]

Yes(in) == in.said = "yes"
No(in)  == in.said = "no"

(* What may go wrong in a turn, m below.  first: the first call the node makes to a service;        *)
(* lookup, engine: a later one; enter: the calls of the state entered; journey: the application    *)
(* journey; limit: the third answer that cannot be used; stale: the notice, product or quote shown *)
(* is no longer in force; empty: no option is ranked; blocked: a release gate or the registry's    *)
(* own check refuses the options; unnamed: no plan is named, or the one named cannot be priced.    *)

\* The turn's scratch: session, slots, signals; filled: an answer was taken; ready: all confirmed.
Scratch(s, sl) == [s |-> s, sl |-> sl, sig |-> {}, filled |-> FALSE, ready |-> FALSE]

With(t, signal)    == [t EXCEPT !.sig = @ \union {signal}]
Prompted(t, which) == [t EXCEPT !.s.prompt = <<t.s.state, which>>]
Replied(t)         == [t EXCEPT !.s.prompt = NoPrompt]
At(t, which)       == t.s.prompt = <<t.s.state, which>>
Valid(t)           == t.s.consent = "valid"

----------------------------------------------------------------------------
(* State-0 (s0.py). *)

S0Intents == {"new_purchase", "specific_plan", "existing_policy"}

\* The Consent Service records it; an outage asks to retry, a notice not in force asks again.
RecordConsent(t, m) ==
  CASE m = "first" -> t
    [] m = "stale" -> Prompted(t, "consent")
    [] OTHER -> With([Replied(t) EXCEPT !.s.consent = "valid"], "recorded")

S0Consent(t, in, m) ==
  CASE in.act = "under18" -> With(t, "minor")
    [] in.act = "refuse" -> With(t, "refused")
    [] in.act = "consent" -> RecordConsent(t, m)
    [] At(t, "age") /\ Yes(in) -> RecordConsent(t, m)
    [] At(t, "age") /\ No(in) -> With(t, "minor")
    [] At(t, "consent") /\ Yes(in) -> Prompted(t, "age")
    [] At(t, "consent") /\ No(in) -> With(t, "refused")
    [] OTHER -> IF m = "first" THEN t ELSE Prompted(t, "consent")

S0Node(t, in, m) ==
  IF in.intent = "minor" THEN With(t, "minor")
  ELSE IF ~Valid(t) THEN S0Consent(t, in, m)
  ELSE IF in.intent \in S0Intents THEN t
  ELSE IF in.intent = "none" /\ in.act = "text" /\ m = "limit" THEN With(t, "new_purchase")
  ELSE Replied(t)

S0Enter(t, m) ==
  IF Valid(t) THEN Replied(t)
  ELSE IF m = "enter" THEN t ELSE Prompted(t, "consent")

----------------------------------------------------------------------------
(* The screen shared by S1 and Quote-Only (s1.py Screen). *)

\* A bug: the engine's result outlives the value it was asked about.
TakeKeepingResult(t, p) ==
  IF p \in {NoProfile, t.sl.profile} THEN [t EXCEPT !.filled = p # NoProfile]
  ELSE [t EXCEPT !.filled = TRUE, !.sl.profile = p, !.sl.status = "said"]

\* take and write: the same value again writes nothing; a new one drops the engine's result (V4).
Take(t, p) ==
  IF p \in {NoProfile, t.sl.profile} THEN [t EXCEPT !.filled = p # NoProfile]
  ELSE [t EXCEPT !.filled = TRUE, !.sl.profile = p, !.sl.status = "said",
                 !.s.eligibility = NotJudged]

\* next: what is missing is asked for, what is not confirmed is read back, once its names are looked
\* up (until then the old prompt stands).
Proceed(t, m) ==
  CASE t.sl.status = "missing" -> Prompted(t, "ask")
    [] t.sl.status = "said" -> IF m = "lookup" THEN t ELSE Prompted(t, "readback")
    [] OTHER -> [t EXCEPT !.ready = TRUE]

\* _invalid: an answer to the open question that could not be used.
Unusable(t, in) ==
  /\ At(t, "ask") /\ in.act = "text" /\ in.intent \in {"none", "minor", "human"}

AskAgain(t, m) == IF m = "limit" THEN Replied(t) ELSE Prompted(t, "ask")

\* respond.
Respond(t, in, m) ==
  LET u == Take(t, in.profile) IN
  IF in.intent = "minor" THEN With(u, "minor")
  ELSE IF in.act = "REASK" THEN Prompted(u, "ask")
  ELSE IF u.filled THEN Proceed(u, m)
  ELSE IF At(u, "readback") /\ Yes(in) THEN Proceed([u EXCEPT !.sl.status = "confirmed"], m)
  ELSE IF At(u, "readback") /\ No(in) THEN Replied(u)
  ELSE IF Unusable(u, in) THEN AskAgain(u, m)
  ELSE Proceed(u, m)

----------------------------------------------------------------------------
(* State-1 (s1.py node, _decide, _evaluate, enter). *)

\* A bug: the result is kept without the answers it is for.
JudgedUnlabelled(t) == [t EXCEPT !.s.eligibility.result = EligibilityOf[t.sl.profile]]

\* The engine's decision on the confirmed values.
Judged(t) ==
  [t EXCEPT !.s.eligibility = [profile |-> t.sl.profile, result |-> EligibilityOf[t.sl.profile]]]

Evaluated(t, m) ==
  LET u == IF t.s.express THEN With(Judged(t), "express") ELSE Judged(t)
  IN  IF m = "engine" THEN t
      ELSE IF u.s.eligibility.result.outcome # "RE_ASK" THEN u
      ELSE IF t.s.reasked THEN With(u, "reask_exhausted")
      ELSE Prompted([u EXCEPT !.s.reasked = TRUE], "ask")

S1Decide(t, m) ==
  LET reask == t.s.eligibility.result.outcome = "RE_ASK" IN
  IF t.s.eligibility = NotJudged \/ (reask /\ t.filled) THEN Evaluated(t, m)
  ELSE IF reask THEN Prompted(t, "ask")
  ELSE t

S1Node(t, in, m) ==
  LET u == Respond([t EXCEPT !.s.express = @ \/ in.intent = "express"], in, m) IN
  IF ~Valid(t) \/ in.act = "overlong" \/ m = "first" THEN t
  ELSE IF u.ready THEN S1Decide(u, m)
  ELSE u

S1Enter(t, m) ==
  LET u == Proceed(t, m) IN
  IF m = "enter" THEN t ELSE IF u.ready THEN Prompted(u, "readback") ELSE u

----------------------------------------------------------------------------
(* Quote-Only (quote_only.py). *)

\* Asks for the plan, or quotes it once all is confirmed.
Quoted(t, m) ==
  IF m = "unnamed" \/ (t.ready /\ m # "engine") THEN Replied(t) ELSE t

QONode(t, in, m) ==
  CASE ~Valid(t) \/ in.act = "overlong" -> t
    [] in.act = "OPT_IN" -> With(t, "opt_in")
    [] in.act = "SATISFIED" -> With(t, "satisfied")
    [] in.intent = "apply" -> With(Replied(t), "apply")
    [] OTHER -> IF m = "first" THEN t ELSE Quoted(Respond(t, in, m), m)

QOEnter(t, m) ==
  LET u == [t EXCEPT !.s.express = FALSE] IN
  IF m = "enter" THEN u ELSE Quoted(Proceed(u, m), m)

----------------------------------------------------------------------------
(* State-2 (s2.py). *)

Dropped(t) == [t EXCEPT !.s.needs = NoHash, !.s.suitability = NotAssessed]

\* A bug: the record outlives the answer it was assessed on.
TakeNeedsKeepingRecord(t, in) ==
  IF in.needs \in {NoHash, t.sl.needs} THEN [t EXCEPT !.filled = in.needs # NoHash]
  ELSE [t EXCEPT !.filled = TRUE, !.sl.needs = in.needs, !.sl.needsStatus = "said"]

\* take, write and notes: a new answer, or difficulty in following, drops the held record.
TakeNeeds(t, in) ==
  LET u == IF in.intent = "confused" THEN Dropped(t) ELSE t IN
  IF in.needs \in {NoHash, t.sl.needs} THEN [u EXCEPT !.filled = in.needs # NoHash]
  ELSE Dropped([u EXCEPT !.filled = TRUE, !.sl.needs = in.needs, !.sl.needsStatus = "said"])

\* recompute: the result a hydration lost, from the confirmed slots; S1's rows again if it changed.
Recomputed(t) ==
  IF t.s.eligibility # NotJudged THEN t
  ELSE IF t.sl.status # "confirmed" THEN With(t, "elig")
  ELSE IF EligibilityOf[t.sl.profile].outcome = "ELIGIBLE" THEN Judged(t)
  ELSE With(Judged(t), "elig")

\* readback: the Suitability Service decides on the needs as they stand; nothing is bound yet.
Summary(t, m) ==
  LET u == Recomputed(t)
      p == u.s.eligibility.profile
  IN  IF m = "engine" THEN With(t, "down")
      ELSE IF "elig" \in u.sig THEN u
      ELSE Prompted([Dropped(u) EXCEPT
             !.s.suitability = [profile |-> p, result |-> SuitabilityOf[p][u.sl.needs]]],
             "readback")

ProceedNeeds(t, m) ==
  IF t.sl.needsStatus = "missing" THEN Prompted(t, "ask") ELSE Summary(t, m)

\* _route, for a bound record.
Bridge(t, elected) ==
  LET r == t.s.suitability.result IN
  IF r.outcome # "FIT" THEN t
  ELSE IF ~r.sufficient /\ ~elected THEN Prompted(t, "elect")
  ELSE IF r.amber THEN Prompted(t, "amber")
  ELSE Replied(t)

\* _bind.
Bound(t) ==
  IF t.s.suitability.result.hash = t.sl.needs
  THEN Bridge([t EXCEPT !.s.needs = t.sl.needs], FALSE)
  ELSE With(Dropped(t), "down")

\* The summary confirmed: bound if the record it showed is still held.
Confirmed(t, m) ==
  LET u == [t EXCEPT !.sl.needsStatus = "confirmed"] IN
  IF u.s.suitability = NotAssessed THEN Summary(u, m) ELSE Bound(u)

\* A bug: the election counts for the amber as well.
ElectedForAll(t) == Bridge(With(With(t, "elected"), "amber"), TRUE)

Elected(t) == Bridge(With(t, "elected"), TRUE)

AmberConfirmed(t) ==
  LET u == Replied(With(t, "amber")) IN
  IF t.s.suitability.result.sufficient THEN u ELSE With(u, "elected")

\* _prompts and respond.
S2Answer(t, in, m) ==
  LET bound == t.s.suitability # NotAssessed /\ t.s.needs # NoHash
      u == TakeNeeds(t, in)
  IN  IF bound /\ At(t, "elect") /\ Yes(in) THEN Elected(t)
      ELSE IF bound /\ At(t, "elect") /\ No(in) THEN Prompted(t, "ask")
      ELSE IF bound /\ At(t, "amber") /\ Yes(in) THEN AmberConfirmed(t)
      ELSE IF bound /\ At(t, "amber") /\ No(in) THEN Replied(t)
      ELSE IF in.act = "REASK" THEN Prompted(t, "ask")
      ELSE IF At(t, "readback") /\ Yes(in) THEN Confirmed(t, m)
      ELSE IF At(t, "readback") /\ No(in) THEN Replied(t)
      ELSE IF ~u.filled /\ Unusable(t, in) THEN AskAgain(u, m)
      ELSE ProceedNeeds(u, m)

\* A bug: the corrected fact is taken, and S1's rows are not sent for.
CorrectedInPlace(t, in) ==
  LET u == [Take(t, in.profile) EXCEPT !.filled = FALSE] IN
  IF in.intent = "minor" THEN With(u, "minor") ELSE u

\* s1.correction: a changed eligibility fact, or an under-18 age.
Corrected(t, in) ==
  LET u == [Take(t, in.profile) EXCEPT !.filled = FALSE] IN
  IF in.intent = "minor" THEN With(u, "minor") ELSE IF u.sl # t.sl THEN With(u, "elig") ELSE u

\* The correction's own outage is the guard's (a degraded reply), a later one pauses.
S2Node(t, in, m) ==
  LET u == Corrected(t, in)
      stated == in.profile # NoProfile \/ in.intent = "minor"
  IN  IF ~Valid(t) \/ (m = "first" /\ stated) THEN t
      ELSE IF u.sig # {} \/ in.act = "overlong" THEN u
      ELSE IF m = "first" THEN With(t, "down")
      ELSE S2Answer(u, in, m)

S2Enter(t, m) == IF m = "enter" THEN t ELSE ProceedNeeds(t, m)

----------------------------------------------------------------------------
(* State-3 (s3.py). *)

\* present and _rank: nothing is shown unless the needs are bound to the record they are ranked for,
\* and only eligible products are ranked.
Present(t, m) ==
  LET u == Recomputed([t EXCEPT !.s.recommendation = NoOffer])
      bound == u.s.needs # NoHash /\ u.s.needs = u.s.suitability.result.hash
      offer == [profile |-> u.s.eligibility.profile, suitability |-> u.s.suitability,
                chosen |-> FALSE, acked |-> FALSE]
  IN  IF m = "engine" THEN With([t EXCEPT !.s.recommendation = NoOffer], "down")
      ELSE IF "elig" \in u.sig THEN u
      ELSE IF ~bound THEN With(u, "down")
      ELSE IF m = "empty" \/ u.s.eligibility.result.uins = {} THEN With(u, "no_options")
      ELSE IF m = "blocked" THEN Replied(u)
      ELSE Replied([u EXCEPT !.s.recommendation = offer])

\* _hand_off: the intake is taken; or kept for a retry, the application journey being down; or not
\* built, the registry failing its check.
HandOff(t, m) == IF m \in {"journey", "blocked"} THEN t ELSE With(t, "handed")

Chosen(t, m) ==
  LET u == [t EXCEPT !.s.recommendation.chosen = TRUE] IN
  IF u.s.recommendation.acked THEN HandOff(u, m) ELSE u

Acknowledged(t, m) ==
  LET u == [t EXCEPT !.s.recommendation.acked = TRUE] IN
  IF m = "blocked" THEN t ELSE IF u.s.recommendation.chosen THEN HandOff(u, m) ELSE u

\* The offer is revalidated first; what is out of date is presented again.
S3Choice(t, in, m) ==
  IF in.act = "LANGUAGE" \/ t.s.recommendation = NoOffer \/ m = "stale" THEN Present(t, m)
  ELSE IF m = "engine" THEN With(t, "down")
  ELSE IF in.act = "APPLY" THEN Chosen(t, m)
  ELSE IF in.act = "DISCLOSURE_ACK" THEN Acknowledged(t, m)
  ELSE t

\* s2.correction from S3: a changed needs fact, unless an eligibility fact was.
NeedsCorrected(t, in) ==
  LET u == [TakeNeeds(t, in) EXCEPT !.filled = FALSE]
  IN  IF "elig" \in t.sig THEN t ELSE IF u.sl = t.sl THEN u ELSE With(u, "needs")

S3Node(t, in, m) ==
  LET u == NeedsCorrected(Corrected(t, in), in) IN
  IF ~Valid(t) \/ m = "first" THEN t
  ELSE IF u.sig # {} \/ in.act = "overlong" \/ in.intent = "decline" THEN u
  ELSE IF in.intent = "need_time" THEN With(u, "need_time")
  ELSE IF in.intent = "reject_all" THEN With(u, "all_rejected")
  ELSE S3Choice(u, in, m)

\* The transition is made when S3 is entered: what the presentation signals is not acted on.
S3Enter(t, m) == Present(t, IF m = "enter" THEN "engine" ELSE m)

----------------------------------------------------------------------------
(* PAUSE (pause.py resume). *)

\* A bug: the consent held is not asked for again.
ResumeUnchecked(t, ledger) == t

\* The consent is asked for again; an offer out of date would be dropped, S3 entered ranks again.
Resume(t, ledger) == [t EXCEPT !.s.consent = IF @ = "none" THEN @ ELSE ledger]
=============================================================================
