------------------------------- MODULE Journey -------------------------------
(***************************************************************************)
(* One session over many turns: the routing of a turn, the decide node      *)
(* (graph/nodes.py) and its handlers, side questions, pauses and resumes,   *)
(* inactivity, a lagging checkpoint, and consent that lapses meanwhile.     *)
(* A turn is one step; TurnRuntime has what happens inside and around it.   *)
(***************************************************************************)
EXTENDS StateNodes

CONSTANTS
  MaxStack,   \* Settings.side_query_max_stack
  FactsIn     \* a bound: the states in which a fact card is asked for

ASSUME JourneyAssumption == MaxStack \in Nat /\ FactsIn \subseteq Active

VARIABLES
  session,    \* the checkpoint's SessionState
  slots,      \* the session's slot rows
  ledger,     \* what the Consent Service says of the session's consent record
  taken       \* how many intakes the application journey has taken

vars == <<session, slots, ledger, taken>>

TypeOK ==
  /\ session \in Session
  /\ slots \in Slots
  /\ ledger \in Consents
  /\ taken \in Nat

\* A session with nothing in it but its state.
Blank(state) ==
  [state |-> state, stack |-> <<>>, prompt |-> NoPrompt, consent |-> "none",
   eligibility |-> NotJudged, needs |-> NoHash, suitability |-> NotAssessed,
   recommendation |-> NoOffer, loops |-> 0, reasked |-> FALSE, express |-> FALSE]

NoSlots == [profile |-> NoProfile, status |-> "missing", needs |-> NoHash, needsStatus |-> "missing"]

Init == session = Blank("S0") /\ slots = NoSlots /\ ledger = "none" /\ taken = 0

----------------------------------------------------------------------------
(* The inputs of a turn, by state. *)

Intents ==
  [S0 |-> S0Intents \union {"none", "faq", "minor", "human", "withdraw"},
   S1 |-> {"none", "express", "faq", "objection", "need_time", "minor", "human", "withdraw"},
   QUOTE_ONLY |-> {"none", "apply", "faq", "need_time", "minor", "human", "withdraw"},
   S2 |-> {"none", "confused", "faq", "objection", "need_time", "minor", "human", "withdraw"},
   S3 |-> {"none", "reject_all", "decline", "faq", "need_time", "minor", "human", "withdraw"},
   PAUSE |-> {"none", "faq", "minor", "withdraw"}]

Acts ==
  [S0 |-> {"consent", "refuse", "under18"}, S1 |-> {"REASK", "END", "overlong"},
   QUOTE_ONLY |-> {"REASK", "OPT_IN", "SATISFIED"}, S2 |-> {"REASK", "overlong"},
   S3 |-> {"APPLY", "DISCLOSURE_ACK", "LANGUAGE"}, PAUSE |-> {}]

\* What may go wrong in the node of each state, and in the hook of each state entered.
MishapsIn ==
  [S0 |-> {"none", "first", "limit", "stale"},
   S1 |-> {"none", "first", "lookup", "engine", "limit"},
   QUOTE_ONLY |-> {"none", "first", "lookup", "engine", "limit", "unnamed"},
   S2 |-> {"none", "first", "engine", "limit"},
   S3 |-> {"none", "first", "engine", "journey", "stale", "empty", "blocked"},
   PAUSE |-> {"none"}]

MishapsEntering ==
  [state \in FsmState |->
    CASE state \in {"S0", "S1", "S2"} -> {"none", "enter"}
      [] state = "QUOTE_ONLY" -> {"none", "enter", "engine", "unnamed"}
      [] state = "S3" -> {"none", "enter", "empty", "blocked"}
      [] OTHER -> {"none"}]

\* A statement comes alone, or with a side question.
Compound == {"none", "faq"}

Inputs(state) ==
  LET said  == IF state \in {"S0", "PAUSE"} THEN {} ELSE Profiles
      needs == IF state \in {"S2", "S3"} THEN Hashes ELSE {}
      with  == Intents[state] \intersect Compound
  IN  {Act(a) : a \in Acts[state]}
      \union {Act("FACT") : s \in FactsIn \intersect {state}}
      \union {Said(NoProfile, NoHash, y, "none") : y \in {"yes", "no"}}
      \union {Said(NoProfile, NoHash, "none", i) : i \in Intents[state]}
      \union {Said(p, NoHash, "none", i) : p \in said, i \in with}
      \union {Said(NoProfile, h, "none", i) : h \in needs, i \in with}

----------------------------------------------------------------------------
(* route: the node a turn is sent to, and the frame of a side question. *)

\* A bug: the stack is not looked at before a frame is pushed.
AskedAsideUnbounded(t, in) == in.intent = "faq" \/ in.act = "FACT"

\* Whether a side question gets a frame: while the stack has room.
AskedAside(t, in) ==
  (in.intent = "faq" \/ in.act = "FACT") /\ Len(t.s.stack) < MaxStack

Node(t, in, m) ==
  CASE t.s.state = "S0" -> S0Node(t, in, m)
    [] t.s.state = "S1" -> S1Node(t, in, m)
    [] t.s.state = "QUOTE_ONLY" -> QONode(t, in, m)
    [] t.s.state = "S2" -> S2Node(t, in, m)
    [] t.s.state = "S3" -> S3Node(t, in, m)
    [] t.s.state = "PAUSE" -> Resume(t, ledger)

\* A deferral outside S3 pauses, the END reply closes, a withdrawal erases: the node is skipped.
Deferred(t, in) == in.intent = "need_time" /\ t.s.state \in {"S1", "QUOTE_ONLY", "S2"}

\* respond pops the side question's frame; the FACT answer leaves it.
Routed(t, in, m) ==
  LET asked == [t EXCEPT !.s.stack = Append(@, t.s.state)]
      after == Node(asked, in, m)
  IN  IF in.intent = "withdraw" THEN t
      ELSE IF in.act = "END" THEN With(t, "end")
      ELSE IF Deferred(t, in) THEN With(t, "need_time")
      ELSE IF ~AskedAside(t, in) THEN Node(t, in, m)
      ELSE IF in.act = "FACT" THEN after
      ELSE [after EXCEPT !.s.stack = t.s.stack]

----------------------------------------------------------------------------
(* decide: the facts (build_facts and the turn's signals), the transition, the frames. *)

\* The plan of an offer: one the ranker took from the eligible products.
Plan(offer) == CHOOSE u \in EligibilityOf[offer.profile].uins : TRUE

\* The intent of a first turn.
IntentOf(t, intent) ==
  IF "new_purchase" \in t.sig THEN "new_purchase"
  ELSE IF intent \in S0Intents THEN intent ELSE "none"

FactsOf(t, intent) ==
  LET said(signal) == signal \in t.sig
      judged == t.s.eligibility.result
  IN  [ consent |-> IF said("refused") THEN "refused" ELSE t.s.consent,
        intent |-> IntentOf(t, intent),
        minor |-> said("minor") \/ judged.outcome = "DATA_ERASURE_EXIT",
        eligibility |-> judged,
        reask_exhausted |-> said("reask_exhausted"),
        express_path |-> said("express") \/ intent = "express",
        quote_satisfied |-> said("satisfied"), advisory_opt_in |-> said("opt_in"),
        apply_request |-> said("apply"),
        suitability |-> t.s.suitability.result, needs_hash |-> t.s.needs,
        sufficiency_elected |-> said("elected"), amber_confirmed |-> said("amber"),
        selected |-> IF said("handed") THEN [uin |-> Plan(t.s.recommendation), quote_valid |-> TRUE]
                    ELSE NoSelected,
        acks_valid |-> said("handed"), no_options |-> said("no_options"),
        all_rejected |-> intent = "reject_all" \/ said("all_rejected"),
        rediscovery_loops |-> t.s.loops,
        need_time |-> intent = "need_time" \/ said("need_time"),
        explicit_decline |-> intent = "decline", end_requested |-> said("end"),
        correction |-> IF said("elig") THEN "eligibility" ELSE IF said("needs") THEN "needs" ELSE "none",
        paused_from |-> IF t.s.state = "PAUSE" /\ t.s.stack # <<>>
                        THEN t.s.stack[Len(t.s.stack)] ELSE "none",
        withdraw |-> intent = "withdraw",
        human_request |-> intent = "human",
        frustration |-> FALSE, low_confidence_streak |-> 0, mandatory_trigger |-> FALSE,
        inactivity_timeout |-> said("timer"), dependency_down |-> said("down"),
        faq |-> intent = "faq", objection |-> intent = "objection"]

\* The frames: a pause keeps where it was taken, leaving it drops that.
Moved(t, move) ==
  [t EXCEPT !.s.state = move.to,
            !.s.loops = IF move.row = "S3.3" THEN @ + 1 ELSE @,
            !.s.stack =
              IF move.to = "PAUSE" /\ t.s.state # "PAUSE" THEN Append(@, t.s.state)
              ELSE IF t.s.state = "PAUSE" /\ move.to # "PAUSE" /\ @ # <<>>
              THEN SubSeq(@, 1, Len(@) - 1) ELSE @]

\* after_decide: the enter hook of the state the transition entered.
Entered(t, m) ==
  CASE t.s.state = "S0" -> S0Enter(t, m)
    [] t.s.state = "S1" -> S1Enter(t, m)
    [] t.s.state = "QUOTE_ONLY" -> QOEnter(t, m)
    [] t.s.state = "S2" -> S2Enter(t, m)
    [] t.s.state = "S3" -> S3Enter(t, m)
    [] OTHER -> t

Decided(t, intent) ==
  LET moved == Moved(t, Earned(FactsOf(t, intent), t.s.state)) IN
  IF moved.s.state = t.s.state THEN {moved}
  ELSE {Entered(moved, m) : m \in MishapsEntering[moved.s.state]}

----------------------------------------------------------------------------
(* The actions. *)

\* A bug: a checkpoint loaded again keeps the options it was shown with.
HydratedKeepingOffer ==
  [session EXCEPT !.consent = IF @ = "none" THEN @ ELSE ledger,
                  !.prompt = NoPrompt, !.eligibility = NotJudged]

\* load: the checkpoint, or, when it lags the rows, what those hold (_hydrate): no engine result,
\* no open prompt, and the consent as the Consent Service has it now.
Hydrated ==
  [session EXCEPT !.consent = IF @ = "none" THEN @ ELSE ledger,
                  !.prompt = NoPrompt, !.eligibility = NotJudged, !.needs = NoHash,
                  !.suitability = NotAssessed, !.recommendation = NoOffer]

Loaded == {Scratch(session, slots), Scratch(Hydrated, slots)}

\* What a later turn may read: nothing once the session is closed, an offer only in S3, which
\* ranks again when it is entered.
Kept(s) ==
  IF s.state \in Terminal THEN Blank(s.state)
  ELSE IF s.state = "S3" THEN s ELSE [s EXCEPT !.recommendation = NoOffer]

\* commit: the rows and the checkpoint.
Committed(t) ==
  /\ session' = Kept(t.s)
  /\ slots' = IF t.s.state \in Terminal THEN NoSlots ELSE t.sl
  /\ ledger' = IF "recorded" \in t.sig THEN "valid" ELSE ledger
  /\ taken' = IF "handed" \in t.sig THEN taken + 1 ELSE taken

\* Where the node of a turn may leave it, with the intent it then decides on.
Outcomes(t) ==
  {[turn |-> Routed(t, x[1], x[2]), intent |-> x[1].intent] :
     x \in Inputs(t.s.state) \X MishapsIn[t.s.state]}

\* A customer's turn.  A resume that cannot ask for the consent fails the turn: nothing changes.
CustomerTurn ==
  /\ session.state \in Active
  /\ \E before \in Loaded : \E o \in Outcomes(before) :
       \E after \in Decided(o.turn, o.intent) : Committed(after)

\* The inactivity timer's turn, after consent: it has no node.
TimerTurn ==
  /\ session.state \in Engaged /\ session.consent # "none"
  /\ \E before \in Loaded : \E after \in Decided(With(before, "timer"), "none") : Committed(after)

\* The consent record lapses: it expires, or is withdrawn elsewhere.
Lapse ==
  /\ session.state \in Active /\ ledger = "valid"
  /\ ledger' = "lapsed" /\ UNCHANGED <<session, slots, taken>>

Next == CustomerTurn \/ TimerTurn \/ Lapse

Spec == Init /\ [][Next]_vars

----------------------------------------------------------------------------
(* What should be true. *)

\* Options are on the table only for needs that were read back, confirmed and then assessed, and
\* for an eligibility profile that was: whatever was corrected, lost or resumed in between.
BoundIsConfirmed ==
  session.state = "S3" =>
    /\ slots.status = "confirmed" /\ slots.needsStatus = "confirmed"
    /\ slots.needs = session.needs /\ slots.needs = session.suitability.result.hash

\* An eligibility result is never held for answers other than those in the slots, nor before
\* they are confirmed (V4: a changed value drops it).
JudgedIsSaid ==
  session.eligibility # NotJudged =>
    session.eligibility.profile = slots.profile /\ slots.status = "confirmed"

\* Nobody is advised (S2, S3) on answers the engine would not call eligible: not after a
\* correction, nor after a turn that lost the result.
AdvisedIsEligible ==
  session.state \in {"S2", "S3"} =>
    slots.status = "confirmed" /\ EligibilityOf[slots.profile].outcome = "ELIGIBLE"

\* All three: what the session holds of the customer is what the customer said last and confirmed.
AdviceIsCurrent == BoundIsConfirmed /\ JudgedIsSaid /\ AdvisedIsEligible

\* An intake the application journey takes is of an offer that was ranked from the answers the
\* customer confirmed last, eligible ones, with the consent held.
HandedAsConfirmed ==
  [][taken' # taken =>
       /\ slots.status = "confirmed" /\ slots.needsStatus = "confirmed"
       /\ session.recommendation.profile = slots.profile
       /\ session.recommendation.suitability.result.hash = slots.needs
       /\ EligibilityOf[slots.profile].outcome = "ELIGIBLE"
       /\ session.consent = "valid"]_vars

\* The intake and the move to HANDOFF are one: with the intake taken the session is closed, so
\* that it cannot be taken again, and no session is closed as handed off without it.
TakenIsClosed ==
  [][taken' <= 1 /\ (taken' = 1 <=> session'.state = "HANDOFF")]_vars

\* The intake is right when it is taken, and it ends the session.
HandOffIsFinal == HandedAsConfirmed /\ TakenIsClosed

\* A resumed session goes on to a state that needs consent only with a consent in force, however
\* long it was paused.
ResumedIsConsented ==
  [][session.state = "PAUSE" /\ session'.state \in NeedsP1 => ledger = "valid"]_vars

\* The customer has answered the question that puts an assessment's amber, or its partial profile.
Agreed(judged) ==
  \/ ~judged.result.amber /\ judged.result.sufficient
  \/ /\ session.suitability = judged
     /\ session.prompt = <<"S2", IF judged.result.amber THEN "amber" ELSE "elect">>

\* The options of an amber or partial assessment are shown only on the answer to the question
\* that puts that, about the same assessment; or to a session that was paused with them.
S3IsAgreed ==
  [][session'.state = "S3" /\ session.state # "S3" =>
       \/ session.state = "PAUSE" /\ session.stack[Len(session.stack)] = "S3"
       \/ Agreed(session'.suitability)]_vars

\* The two ways into a state that shows advice: back from a pause, and over the customer's answer.
EntriesAreEarned == ResumedIsConsented /\ S3IsAgreed

\* A pause always has the frame of the state it was taken in on top, and fact cards, whose frames
\* are left, cannot make the stack grow past its bound.
FramesAreSound ==
  /\ Len(session.stack) <= MaxStack + 1
  /\ session.state = "PAUSE" =>
       session.stack # <<>> /\ session.stack[Len(session.stack)] \in Engaged

\* The types, the stack's bound and its frames included.
TypesAndFrames == TypeOK /\ FramesAreSound

\* Suitability is computed on the profile the customer gave (s2.py:662), and what is assessed
\* before an outage is assessed again on the resume (subsystems.md, State 2).
SuitabilityForProfile ==
  session.state = "S3" => session.suitability.profile = slots.profile
=============================================================================
