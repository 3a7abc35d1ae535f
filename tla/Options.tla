------------------------------ MODULE Options ------------------------------
(***************************************************************************)
(* Buying in S3 (graph/states/s3.py): the options shown, the plan chosen,   *)
(* its disclosures acknowledged, and the intake posted to the application   *)
(* journey (handoff/intake.py), while days pass, the Disclosure Registry    *)
(* publishes new sets and plans leave the market.                           *)
(*                                                                         *)
(* A turn is a walk over its awaits: revalidate the recommendation, act on  *)
(* the choice, check the registry once more, post, commit.  The world may   *)
(* move between any two of them.  A turn that dies leaves the session as it *)
(* was; the quotes it was given and the intake it posted stay.              *)
(*                                                                         *)
(* Data abstraction: a quote is its plan, its terms (cover, term, PPT and   *)
(* riders as one value), its last day and its number; the quotes of one     *)
(* ranking share a number.  A disclosure set is its registry version, the   *)
(* documents shown with it included.                                        *)
(***************************************************************************)
EXTENDS Naturals, FiniteSets

CONSTANTS
  Plans, Terms, None,
  Offered,       \* the terms the ranker sizes a plan to
  Unpriced,      \* plans without a premium: withheld, or the engine cannot rate them
  Bounds,        \* plan -> the terms its limits allow
  ValidFor,      \* quote.validity-days
  MaxDay, MaxMoves, MaxTurns, MaxFaults     \* bounds

ASSUME OptionsAssumption ==
  /\ None \notin Plans \union Terms
  /\ Offered \in [Plans -> Terms] /\ Unpriced \subseteq Plans
  /\ Bounds \in [Plans -> SUBSET Terms]
  /\ \A p \in Plans : Offered[p] \in Bounds[p]      \* QuoteAdapter.size
  /\ {ValidFor, MaxDay, MaxMoves, MaxTurns, MaxFaults} \subseteq Nat

VARIABLES
  day, registry, sale, issued,   \* the domain tier
  taken,                         \* the journey's intakes, by (session, quote)
  rec, status, rows,             \* the session: its recommendation, state, conv.handoff
  pc, turn,                      \* the running turn
  chosen,                        \* ghost: what the customer chose among the options last shown
  turns, moves, faults

vars == <<day, registry, sale, issued, taken, rec, status, rows, pc, turn, chosen,
          turns, moves, faults>>

domain == <<day, registry, sale>>
counters == <<turns, moves, faults>>

Quote == [plan : Plans, terms : Terms, until : Nat, no : Nat]

Recommended(r) ==
  \E ps \in (SUBSET Plans) \ {{}} :
    r \in [offers : [ps -> Quote \union {None}], shown : [ps -> Nat],
           acks : SUBSET [plan : ps, version : Nat], selection : Quote \union {None}]

States == {"S3", "PAUSE", "HE", "HANDOFF"}

Reasons == {"APPLICATION_INTAKE", "INTAKE_PENDING"}

Action ==
  [kind : {"apply"}, plan : Plans \union {None}, terms : Terms \union {None}]
    \union [kind : {"ack"}, plan : Plans, version : Nat]
    \union [kind : {"other", "enter"}]

NoAction == [kind |-> "other"]

\* row: what goes to conv.handoff with the turn; fresh: a recommendation was composed in it.
Turn(a) == [action |-> a, rec |-> rec, status |-> status, row |-> "none", fresh |-> FALSE]

NoTurn == [action |-> NoAction, rec |-> None, status |-> "S3", row |-> "none", fresh |-> FALSE]

----------------------------------------------------------------------------
(* Helpers. *)

QuoteValid(q) == q # None /\ day <= q.until

Expired(q) == q # None /\ ~QuoteValid(q)

NewQuote(p, t) == [plan |-> p, terms |-> t, until |-> day + ValidFor, no |-> issued + 1]

\* A bug: the choice made on the old options survives the new ones.
PresentedKeeping(offers) ==
  [offers |-> offers, shown |-> [p \in DOMAIN offers |-> registry[p]], acks |-> {},
   selection |-> IF turn.rec = None THEN None ELSE turn.rec.selection]

\* present: a new render, which nothing was acknowledged or chosen on.
Presented(offers) ==
  [offers |-> offers, shown |-> [p \in DOMAIN offers |-> registry[p]], acks |-> {},
   selection |-> None]

Ranked == [p \in sale |-> IF p \in Unpriced THEN None ELSE NewQuote(p, Offered[p])]

Requoted(offers) ==
  [p \in DOMAIN offers |->
     IF Expired(offers[p]) THEN NewQuote(p, offers[p].terms) ELSE offers[p]]

OnSale(r) == DOMAIN r.offers \subseteq sale

\* _stale.
Holds(r) == OnSale(r) /\ \A p \in DOMAIN r.offers : ~Expired(r.offers[p])

AcksOf(r, p) == {a \in r.acks : a.plan = p}

\* acks_valid.
AcksValid(r, p) ==
  AcksOf(r, p) # {} /\ \A a \in AcksOf(r, p) : a.version = r.shown[p]

\* check_ack: what was shown, and what the registry holds now.
AckBinds(p, version) == version = turn.rec.shown[p] /\ registry[p] = turn.rec.shown[p]

Working(r) == turn' = [turn EXCEPT !.rec = r]

Replied == pc' = "closing"

\* A bug: a recommendation without an option.
PresentNothing ==
  /\ turn' = [turn EXCEPT !.rec = Presented(Ranked), !.fresh = TRUE]
  /\ issued' = issued + 1
  /\ Replied

\* Ranked again: no option left is S3.0, an escalation.
Present ==
  /\ turn' = IF sale = {} THEN [turn EXCEPT !.rec = None, !.status = "HE"]
             ELSE [turn EXCEPT !.rec = Presented(Ranked), !.fresh = TRUE]
  /\ issued' = issued + 1
  /\ Replied

----------------------------------------------------------------------------
Init ==
  /\ day = 0 /\ registry = [p \in Plans |-> 1] /\ sale = Plans /\ issued = 0
  /\ taken = {} /\ rec = None /\ status = "S3" /\ rows = {}
  /\ pc = "idle" /\ turn = NoTurn /\ chosen = {}
  /\ turns = 0 /\ moves = 0 /\ faults = 0

\* The quick replies of every reply so far, and whatever else the API lets through: an APPLY of
\* any plan with or without terms of the customer's own, an acknowledgment of any set published.
Actions ==
  [kind : {"apply"}, plan : Plans \union {None}, terms : Terms \union {None}]
    \union (UNION {[kind : {"ack"}, plan : {p}, version : 1..registry[p]] : p \in Plans})
    \union {NoAction}

Begin ==
  /\ pc = "idle" /\ status = "S3" /\ turns < MaxTurns
  /\ \E a \in Actions : turn' = Turn(a)
  /\ pc' = "checking"
  /\ turns' = turns + 1
  /\ UNCHANGED <<domain, issued, taken, rec, status, rows, chosen, moves, faults>>

\* _need_time: S3.2 pauses and keeps the options.
Save ==
  /\ pc = "idle" /\ status = "S3" /\ turns < MaxTurns
  /\ turn' = [Turn(NoAction) EXCEPT !.status = "PAUSE"]
  /\ Replied
  /\ turns' = turns + 1
  /\ UNCHANGED <<domain, issued, taken, rec, status, rows, chosen, moves, faults>>

\* The resume enters S3, which presents.
Resume ==
  /\ pc = "idle" /\ status = "PAUSE" /\ turns < MaxTurns
  /\ turn' = [Turn([kind |-> "enter"]) EXCEPT !.status = "S3", !.rec = None]
  /\ pc' = "checking"
  /\ turns' = turns + 1
  /\ UNCHANGED <<domain, issued, taken, rec, status, rows, chosen, moves, faults>>

\* _revalidated: what was shown still holds, or it is shown again and the action is dropped.
Revalidate ==
  /\ pc = "checking"
  /\ LET r == turn.rec IN
     \/ /\ IF r = None THEN TRUE ELSE ~OnSale(r)
        /\ Present
     \/ /\ IF r = None THEN FALSE ELSE OnSale(r) /\ ~Holds(r)
        /\ turn' = [turn EXCEPT !.rec = Presented(Requoted(r.offers)), !.fresh = TRUE]
        /\ issued' = issued + 1
        /\ Replied
     \/ /\ IF r = None THEN FALSE ELSE Holds(r)
        /\ pc' = "acting"
        /\ UNCHANGED <<turn, issued>>
  /\ UNCHANGED <<domain, taken, rec, status, rows, chosen, counters>>

\* The plan chosen, and what for.
PlanOf(a) ==
  IF a.plan = None /\ Cardinality(DOMAIN turn.rec.offers) = 1
  THEN CHOOSE p \in DOMAIN turn.rec.offers : TRUE ELSE a.plan

CanApply(a) ==
  PlanOf(a) \in DOMAIN turn.rec.offers /\ turn.rec.offers[PlanOf(a)] # None

TermsOf(a) == IF a.terms = None THEN turn.rec.offers[PlanOf(a)].terms ELSE a.terms

\* As offered, while the offer's quote lasts.
AsOffered(a) ==
  LET offer == turn.rec.offers[PlanOf(a)] IN
  IF TermsOf(a) = offer.terms /\ QuoteValid(offer) THEN offer ELSE None

Selected(q) ==
  /\ Working([turn.rec EXCEPT !.selection = q])
  /\ chosen' = chosen \union {[plan |-> q.plan, terms |-> q.terms]}
  /\ pc' = IF AcksValid(turn.rec, q.plan) THEN "handing" ELSE "closing"

\* _apply.
Apply ==
  /\ pc = "acting" /\ turn.action.kind = "apply"
  /\ LET a == turn.action IN
     \/ /\ ~CanApply(a)                        \* choose an option, or an advisor
        /\ Replied
        /\ UNCHANGED <<turn, issued, chosen>>
     \/ /\ CanApply(a) /\ AsOffered(a) # None
        /\ Selected(AsOffered(a))
        /\ UNCHANGED issued
     \/ /\ CanApply(a) /\ AsOffered(a) = None  \* priced for exactly that
        /\ PlanOf(a) \in sale
        /\ IF TermsOf(a) \in Bounds[PlanOf(a)]
           THEN Selected(NewQuote(PlanOf(a), TermsOf(a))) /\ issued' = issued + 1
           ELSE Replied /\ UNCHANGED <<turn, issued, chosen>>     \* QUOTE_OUT_OF_BOUNDS
  /\ UNCHANGED <<domain, taken, rec, status, rows, counters>>

\* _ack.
Ack ==
  /\ pc = "acting" /\ turn.action.kind = "ack"
  /\ LET p == turn.action.plan
         known == p \in DOMAIN turn.rec.shown
         acked == [turn.rec EXCEPT !.acks = @ \union {[plan |-> p, version |-> turn.rec.shown[p]]}]
         sel == turn.rec.selection
     IN
     \/ /\ ~known
        /\ Replied
        /\ UNCHANGED <<turn, issued>>
     \/ known /\ ~AckBinds(p, turn.action.version) /\ Present
     \/ /\ known /\ AckBinds(p, turn.action.version)
        /\ \/ /\ IF sel = None THEN TRUE ELSE sel.plan # p
              /\ Working(acked)
              /\ Replied
              /\ UNCHANGED issued
           \/ /\ IF sel = None THEN FALSE ELSE sel.plan = p /\ ~QuoteValid(sel)
              /\ p \in sale
              /\ Working([acked EXCEPT !.selection = NewQuote(p, sel.terms)])
              /\ issued' = issued + 1
              /\ Replied
           \/ /\ IF sel = None THEN FALSE ELSE sel.plan = p /\ QuoteValid(sel)
              /\ Working(acked)
              /\ pc' = "handing"
              /\ UNCHANGED issued
  /\ UNCHANGED <<domain, taken, rec, status, rows, chosen, counters>>

\* CONTINUE, RETRY, REVISE, "make it cheaper", a question: the choices again.
Choices ==
  /\ pc = "acting" /\ turn.action.kind = "other"
  /\ Replied
  /\ UNCHANGED <<domain, issued, taken, rec, status, rows, turn, chosen, counters>>

\* A bug: the acknowledgment of an earlier turn is not checked again.
HandOffUnchecked ==
  /\ pc = "handing"
  /\ pc' = "posting"
  /\ UNCHANGED <<domain, turn, issued, taken, rec, status, rows, chosen, counters>>

\* _hand_off up to the post: the registry moved since the acknowledgment, or the intake is built.
HandOff ==
  /\ pc = "handing"
  /\ LET p == turn.rec.selection.plan IN
     \/ registry[p] # turn.rec.shown[p] /\ Present
     \/ /\ registry[p] = turn.rec.shown[p]
        /\ pc' = "posting"
        /\ UNCHANGED <<turn, issued>>
  /\ UNCHANGED <<domain, taken, rec, status, rows, chosen, counters>>

\* A bug: a timeout counts as taken.
PostTimeoutTaken ==
  /\ pc = "posting"
  /\ \/ taken' = taken \union {turn.rec.selection} /\ UNCHANGED faults
     \/ faults < MaxFaults /\ faults' = faults + 1 /\ UNCHANGED taken
  /\ turn' = [turn EXCEPT !.row = "APPLICATION_INTAKE", !.status = "HANDOFF"]
  /\ Replied
  /\ UNCHANGED <<domain, issued, rec, status, rows, chosen, turns, moves>>

\* intake.post: taken (201), already taken (409), or no answer, which may have been taken as well.
Post ==
  /\ pc = "posting"
  /\ \/ /\ taken' = taken \union {turn.rec.selection}
        /\ turn' = [turn EXCEPT !.row = "APPLICATION_INTAKE", !.status = "HANDOFF"]
        /\ UNCHANGED faults
     \/ /\ faults < MaxFaults
        /\ faults' = faults + 1
        /\ taken' \in {taken, taken \union {turn.rec.selection}}
        /\ turn' = [turn EXCEPT !.row = "INTAKE_PENDING"]
  /\ Replied
  /\ UNCHANGED <<domain, issued, rec, status, rows, chosen, turns, moves>>

\* commit: the recommendation is recorded as released; a blocked release records none.
Commit ==
  /\ pc = "closing"
  /\ \/ rec' = turn.rec /\ UNCHANGED faults
     \/ /\ turn.fresh /\ faults < MaxFaults
        /\ rec' = None
        /\ faults' = faults + 1
  /\ status' = turn.status
  /\ rows' = IF turn.row = "none" THEN rows
             ELSE rows \union {[quote |-> turn.rec.selection, reason |-> turn.row]}
  /\ chosen' = IF turn.fresh THEN {} ELSE chosen
  /\ pc' = "idle" /\ turn' = NoTurn
  /\ UNCHANGED <<domain, issued, taken, turns, moves>>

\* The steps that present again, which drops the recommendation first.
Superseding ==
  LET r == turn.rec IN
  \/ pc = "checking" /\ (IF r = None THEN TRUE ELSE ~Holds(r))
  \/ pc = "acting" /\ turn.action.kind = "ack" /\ turn.action.plan \in DOMAIN r.shown
       /\ ~AckBinds(turn.action.plan, turn.action.version)
  \/ pc = "handing" /\ registry[r.selection.plan] # r.shown[r.selection.plan]

\* _down, _entry_failed, _blocked: the domain tier is unavailable, which pauses, or the registry fails
\* its own integrity check, which shows nothing.
Down ==
  /\ pc \in {"checking", "acting", "handing"} /\ faults < MaxFaults
  /\ \E r \in {turn.rec} \union (IF Superseding THEN {None} ELSE {}) :
       \E s \in {"S3"} \union (IF turn.action.kind = "enter" THEN {} ELSE {"PAUSE"}) :
         turn' = [turn EXCEPT !.rec = r, !.status = s]
  /\ Replied
  /\ faults' = faults + 1
  /\ UNCHANGED <<domain, issued, taken, rec, status, rows, chosen, turns, moves>>

\* A quote asked for a plan that has just been withdrawn: 409, which ends the turn.
CannotQuote ==
  /\ pc = "acting"
  /\ LET a == turn.action IN
     \/ a.kind = "apply" /\ CanApply(a) /\ AsOffered(a) = None /\ PlanOf(a) \notin sale
     \/ /\ a.kind = "ack" /\ a.plan \in DOMAIN turn.rec.shown \ sale
        /\ AckBinds(a.plan, a.version)
        /\ IF turn.rec.selection = None THEN FALSE
           ELSE turn.rec.selection.plan = a.plan /\ ~QuoteValid(turn.rec.selection)

\* The turn ends without a commit.
Die ==
  /\ pc # "idle"
  /\ \/ faults < MaxFaults /\ faults' = faults + 1
     \/ CannotQuote /\ UNCHANGED faults
  /\ pc' = "idle" /\ turn' = NoTurn
  /\ UNCHANGED <<domain, issued, taken, rec, status, rows, chosen, turns, moves>>

----------------------------------------------------------------------------
(* The world. *)

Midnight ==
  /\ day < MaxDay
  /\ day' = day + 1
  /\ UNCHANGED <<registry, sale, issued, taken, rec, status, rows, pc, turn, chosen, counters>>

\* A new registry version in force (DisclosureController: the newest whose members are).
Publish(p) ==
  /\ moves < MaxMoves
  /\ registry' = [registry EXCEPT ![p] = @ + 1]
  /\ moves' = moves + 1
  /\ UNCHANGED <<day, sale, issued, taken, rec, status, rows, pc, turn, chosen, turns, faults>>

\* Withdrawn from the catalog, or the kill switch.
Withdraw(p) ==
  /\ p \in sale /\ moves < MaxMoves
  /\ sale' = sale \ {p}
  /\ moves' = moves + 1
  /\ UNCHANGED <<day, registry, issued, taken, rec, status, rows, pc, turn, chosen, turns, faults>>

Steps == Revalidate \/ Apply \/ Ack \/ Choices \/ HandOff \/ Post \/ Commit

Next ==
  \/ Begin \/ Save \/ Resume \/ Steps \/ Down \/ Die
  \/ Midnight
  \/ \E p \in Plans : Publish(p) \/ Withdraw(p)

Spec == Init /\ [][Next]_vars

----------------------------------------------------------------------------
(* Properties. *)

\* The types; a recommendation has an option, and is shown, acknowledged and chosen by its options.
TypeOK ==
  /\ day \in Nat /\ issued \in Nat
  /\ registry \in [Plans -> Nat] /\ sale \subseteq Plans
  /\ taken \subseteq Quote
  /\ rec # None => Recommended(rec)
  /\ status \in States
  /\ rows \subseteq [quote : Quote, reason : Reasons]
  /\ pc \in {"idle", "checking", "acting", "handing", "posting", "closing"}
  /\ turn.action \in Action
  /\ turn.rec # None => Recommended(turn.rec)
  /\ turn.status \in States /\ turn.row \in Reasons \union {"none"} /\ turn.fresh \in BOOLEAN
  /\ chosen \subseteq [plan : Plans, terms : Terms]

\* V7, across days, registry versions and turns: a plan goes to the hand-off on a quote valid then,
\* and its intake is built on acknowledgments, at least one, of the set in force at that moment.
HandOffIsEarned ==
  [][ /\ pc = "acting" /\ pc' = "handing" => day <= turn'.rec.selection.until
      /\ pc = "handing" /\ pc' = "posting" =>
           LET acks == AcksOf(turn.rec, turn.rec.selection.plan) IN
           acks # {} /\ \A a \in acks : a.version = registry[a.plan] ]_vars

\* What is posted is a plan and terms the customer chose among the options last shown: no choice made
\* on options since replaced, and none the customer did not make.
SentIsChosen ==
  pc = "posting" =>
    /\ [plan |-> turn.rec.selection.plan, terms |-> turn.rec.selection.terms] \in chosen
    /\ turn.rec.selection.plan \in DOMAIN turn.rec.offers
    /\ turn.rec.selection.terms \in Bounds[turn.rec.selection.plan]

\* conv.handoff says APPLICATION_INTAKE only of what the journey took, the session is handed off
\* exactly then, and a lost answer or a retry never makes it say so twice.
RecordMatchesJourney ==
  LET applied == {r \in rows : r.reason = "APPLICATION_INTAKE"} IN
  /\ \A r \in applied : r.quote \in taken
  /\ \A r, q \in applied : r = q
  /\ status = "HANDOFF" <=> applied # {}

\* intake.py, "it is the same intake, so a retried turn is safe": one choice is one application.
OneApplication ==
  \A a, b \in taken : a.plan = b.plan /\ a.terms = b.terms => a = b

=============================================================================
