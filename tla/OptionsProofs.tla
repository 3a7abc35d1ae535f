--------------------------- MODULE OptionsProofs ---------------------------
(***************************************************************************)
(* What S3 posts to the application journey, for any number of plans,       *)
(* terms, days, registry versions, turns and failures: it was chosen among  *)
(* the options last shown, on a quote valid then, on acknowledgments of the *)
(* set in force, and conv.handoff says so truly and once.                   *)
(***************************************************************************)
EXTENDS Options, TLAPS

\* The fields of a recommendation and of a turn.
RecFields(r) ==
  r = [offers |-> r.offers, shown |-> r.shown, acks |-> r.acks, selection |-> r.selection]

TurnFields ==
  turn = [action |-> turn.action, rec |-> turn.rec, status |-> turn.status, row |-> turn.row,
          fresh |-> turn.fresh]

\* Offers are quoted for their own plan within its limits; acknowledgments match what was shown.
Sound(r) ==
  /\ RecFields(r)
  /\ DOMAIN r.shown = DOMAIN r.offers
  /\ \A p \in DOMAIN r.offers :
       /\ p \in Plans
       /\ r.offers[p] # None => r.offers[p].plan = p /\ r.offers[p].terms \in Bounds[p]
  /\ \A a \in r.acks : a.plan \in DOMAIN r.offers /\ a.version = r.shown[a.plan]

\* The selection is a choice made since these options were shown.
Agreed(r) ==
  /\ [plan |-> r.selection.plan, terms |-> r.selection.terms] \in chosen
  /\ r.selection.plan \in DOMAIN r.offers
  /\ r.selection.terms \in Bounds[r.selection.plan]

Good(r) == Sound(r) /\ (r.selection # None => Agreed(r))

\* The recommendation recorded and the one the turn works on.
RecsGood ==
  /\ day \in Nat /\ sale \subseteq Plans
  /\ TurnFields /\ turn.fresh \in BOOLEAN
  /\ rec # None => Good(rec)
  /\ turn.rec # None => Good(turn.rec)
  /\ pc \in {"acting", "handing", "posting"} => Good(turn.rec)

\* Past the choice: what is handed over is agreed and acknowledged.
HandingOver ==
  pc \in {"handing", "posting"} =>
    Agreed(turn.rec) /\ AcksOf(turn.rec, turn.rec.selection.plan) # {}

\* A render of this turn has no selection yet, and the turn ends with it.
FreshIsLast ==
  turn.fresh = TRUE => pc = "closing" /\ Good(turn.rec) /\ turn.rec.selection = None

\* How a turn's row, its state and the journey go together.
RowIsTrue ==
  /\ pc # "idle" => status # "HANDOFF"
  /\ turn.row # "none" => pc = "closing"
  /\ turn.row = "APPLICATION_INTAKE" <=> turn.status = "HANDOFF"
  /\ turn.row = "APPLICATION_INTAKE" => turn.rec.selection \in taken

IInv == RecsGood /\ HandingOver /\ FreshIsLast /\ RowIsTrue /\ RecordMatchesJourney

USE OptionsAssumption

----------------------------------------------------------------------------
(* Lemmas about the helpers. *)

\* A render of offers within the limits is good, and nothing is chosen on it.
LEMMA PresentedIsGood ==
  ASSUME NEW offers,
         \A p \in DOMAIN offers :
           /\ p \in Plans
           /\ offers[p] # None => offers[p].plan = p /\ offers[p].terms \in Bounds[p]
  PROVE  /\ Good(Presented(offers))
         /\ Presented(offers).selection = None
  BY DEF Good, Sound, RecFields, Presented

\* The ranker offers plans within their limits.
LEMMA RankedInBounds ==
  ASSUME sale \subseteq Plans
  PROVE  \A p \in DOMAIN Ranked :
           /\ p \in Plans
           /\ Ranked[p] # None => Ranked[p].plan = p /\ Ranked[p].terms \in Bounds[p]
  BY DEF Ranked, NewQuote

\* So does quoting an expired offer again.
LEMMA RequotedInBounds ==
  ASSUME NEW r, Sound(r)
  PROVE  \A p \in DOMAIN Requoted(r.offers) :
           /\ p \in Plans
           /\ Requoted(r.offers)[p] # None =>
                Requoted(r.offers)[p].plan = p /\ Requoted(r.offers)[p].terms \in Bounds[p]
  BY DEF Requoted, NewQuote, Expired, Sound

\* A selection within the limits, chosen now, keeps a recommendation good.
LEMMA SelectionIsGood ==
  ASSUME NEW r, Sound(r), NEW q,
         q.plan \in DOMAIN r.offers, q.terms \in Bounds[q.plan],
         [plan |-> q.plan, terms |-> q.terms] \in chosen'
  PROVE  LET s == [r EXCEPT !.selection = q] IN
         /\ Good(s)' /\ Agreed(s)'
         /\ s.selection = q /\ s.acks = r.acks /\ s.shown = r.shown
  BY DEF Good, Sound, RecFields, Agreed

----------------------------------------------------------------------------
(* The invariant. *)

LEMMA InitIInv == Init => IInv
  BY DEF Init, IInv, RecsGood, TurnFields, NoTurn, HandingOver, FreshIsLast, RowIsTrue,
         RecordMatchesJourney

\* What was chosen stays chosen while the turn runs.
LEMMA GoodStays ==
  ASSUME chosen \subseteq chosen', NEW r
  PROVE  /\ Agreed(r) => Agreed(r)'
         /\ Good(r) => Good(r)'
  BY DEF Good, Sound, RecFields, Agreed

\* A turn goes on, or ends, with a recommendation that is good: on the hand-off agreed and acknowledged.
LEMMA TurnGoesOn ==
  ASSUME IInv, pc \in {"idle", "checking", "acting", "handing"},
         NEW a, NEW r, NEW s, NEW f \in BOOLEAN,
         turn' = [action |-> a, rec |-> r, status |-> s, row |-> "none", fresh |-> f],
         s # "HANDOFF", status # "HANDOFF",
         r # None => Good(r)',
         f = TRUE => pc' = "closing" /\ Good(r)' /\ r.selection = None,
         pc' \in {"checking", "acting", "handing", "posting", "closing"},
         pc' \in {"acting", "handing", "posting"} => Good(r)',
         pc' \in {"handing", "posting"} =>
           Agreed(r)' /\ AcksOf(r, r.selection.plan) # {},
         chosen \subseteq chosen',
         UNCHANGED <<day, sale, taken, rec, status, rows>>
  PROVE  IInv'
<1>1. /\ turn'.action = a /\ turn'.rec = r /\ turn'.status = s /\ turn'.row = "none"
      /\ turn'.fresh = f
  OBVIOUS
<1>2. rec # None => Good(rec)'
  BY GoodStays DEF IInv, RecsGood
<1>3. f = TRUE => Good(r)'
  OBVIOUS
<1>4. RecsGood'
  <2>1. day' \in Nat /\ sale' \subseteq Plans
    BY DEF IInv, RecsGood
  <2>2. TurnFields' /\ turn'.fresh \in BOOLEAN
    BY <1>1 DEF TurnFields
  <2>3. rec' # None => Good(rec)'
    BY <1>2
  <2>4. turn'.rec # None => Good(turn.rec)'
    BY <1>1
  <2>5. pc' \in {"acting", "handing", "posting"} => Good(turn.rec)'
    BY <1>1
  <2> QED
    BY <2>1, <2>2, <2>3, <2>4, <2>5 DEF RecsGood
<1>5. HandingOver'
  BY <1>1 DEF HandingOver, AcksOf
<1>6. FreshIsLast'
  BY <1>1, <1>3 DEF FreshIsLast
<1>7. RowIsTrue'
  BY <1>1 DEF RowIsTrue
<1>8. RecordMatchesJourney'
  BY DEF IInv, RecordMatchesJourney
<1> QED
  BY <1>4, <1>5, <1>6, <1>7, <1>8 DEF IInv

\* A running turn has not been handed off, has no row yet, and has shown nothing new.
LEMMA Running ==
  ASSUME IInv, pc \in {"checking", "acting", "handing", "posting"}
  PROVE  /\ turn = [action |-> turn.action, rec |-> turn.rec, status |-> turn.status,
                    row |-> "none", fresh |-> FALSE]
         /\ turn.status # "HANDOFF" /\ status # "HANDOFF"
         /\ turn.row = "none" /\ turn.fresh = FALSE
<1>1. turn.row = "none" /\ turn.status # "HANDOFF" /\ status # "HANDOFF"
  BY DEF IInv, RowIsTrue
<1>2. turn.fresh = FALSE
  BY DEF IInv, RecsGood, FreshIsLast
<1> QED
  BY <1>1, <1>2 DEF IInv, RecsGood, TurnFields

\* A turn that presents again ends with what it presents.
LEMMA PresentIsFresh ==
  ASSUME IInv, Present, pc \in {"checking", "acting", "handing"},
         UNCHANGED <<day, sale, taken, rec, status, rows, chosen>>
  PROVE  IInv'
<1>1. PICK new : new = Presented(Ranked)
  OBVIOUS
<1>2. Good(new) /\ new.selection = None
  BY <1>1, PresentedIsGood, RankedInBounds DEF IInv, RecsGood
<1>3. Good(new)'
  BY <1>2, GoodStays
<1>4. pc' = "closing"
  BY DEF Present, Replied
<1>5. CASE sale = {}
  <2>1. turn' = [turn EXCEPT !.rec = None, !.status = "HE"]
    BY <1>5 DEF Present
  <2>2. turn' = [action |-> turn.action, rec |-> None, status |-> "HE", row |-> "none",
                 fresh |-> FALSE]
    BY <2>1, Running
  <2> QED
    BY <1>4, <2>2, Running, TurnGoesOn
<1>6. CASE sale # {}
  <2>1. turn' = [turn EXCEPT !.rec = new, !.fresh = TRUE]
    BY <1>1, <1>6 DEF Present
  <2>2. turn' = [action |-> turn.action, rec |-> new, status |-> turn.status, row |-> "none",
                 fresh |-> TRUE]
    BY <2>1, Running
  <2> QED
    BY <1>2, <1>3, <1>4, <2>2, Running, TurnGoesOn
<1> QED
  BY <1>5, <1>6

LEMMA BeginKeeps == ASSUME IInv, Begin \/ Save \/ Resume PROVE IInv'
<1>1. PICK a, r, s :
        /\ turn' = [action |-> a, rec |-> r, status |-> s, row |-> "none", fresh |-> FALSE]
        /\ r = None \/ r = rec
        /\ s \in {"S3", "PAUSE"}
        /\ pc' \in {"checking", "closing"}
  <2>1. CASE Begin
    <3>1. PICK a : turn' = Turn(a)
      BY <2>1 DEF Begin
    <3>2. turn' = [action |-> a, rec |-> rec, status |-> "S3", row |-> "none", fresh |-> FALSE]
      BY <2>1, <3>1 DEF Begin, Turn
    <3> QED
      BY <2>1, <3>2 DEF Begin
  <2>2. CASE Save
    <3>1. turn' = [action |-> NoAction, rec |-> rec, status |-> "PAUSE", row |-> "none",
                   fresh |-> FALSE]
      BY <2>2 DEF Save, Turn
    <3> QED
      BY <2>2, <3>1 DEF Save, Replied
  <2>3. CASE Resume
    <3>1. turn' = [action |-> [kind |-> "enter"], rec |-> None, status |-> "S3", row |-> "none",
                   fresh |-> FALSE]
      BY <2>3 DEF Resume, Turn
    <3> QED
      BY <2>3, <3>1 DEF Resume
  <2> QED
    BY <2>1, <2>2, <2>3
<1>2. pc = "idle" /\ status # "HANDOFF" /\ UNCHANGED <<day, sale, taken, rec, status, rows, chosen>>
  BY DEF Begin, Save, Resume, domain
<1>3. s # "HANDOFF"
  BY <1>1
<1>4. r # None => Good(r)
  BY <1>1 DEF IInv, RecsGood
<1>5. r # None => Good(r)'
  BY <1>2, <1>4, GoodStays
<1> QED
  BY <1>1, <1>2, <1>3, <1>5, TurnGoesOn

\* The recommendation a turn works on, when it is past its check, and otherwise if it has one.
LEMMA TurnRecStays ==
  ASSUME IInv, chosen \subseteq chosen'
  PROVE  /\ turn.rec # None => Good(turn.rec) /\ (\A r : r = turn.rec => Good(r)')
         /\ pc \in {"acting", "handing", "posting"} =>
              Good(turn.rec) /\ (\A r : r = turn.rec => Good(r)')
<1>1. PICK old : old = turn.rec
  OBVIOUS
<1>2. Good(old) => Good(old)'
  BY GoodStays
<1> QED
  BY <1>1, <1>2 DEF IInv, RecsGood

LEMMA RevalidateKeeps == ASSUME IInv, Revalidate PROVE IInv'
<1>1. pc = "checking" /\ UNCHANGED <<day, sale, taken, rec, status, rows, chosen>>
  BY DEF Revalidate, domain
<1>2. CASE Present
  BY <1>1, <1>2, PresentIsFresh
<1>3. ASSUME turn.rec # None,
             turn' = [turn EXCEPT !.rec = Presented(Requoted(turn.rec.offers)), !.fresh = TRUE],
             Replied
      PROVE  IInv'
  <2>1. PICK new : new = Presented(Requoted(turn.rec.offers))
    OBVIOUS
  <2>2. Sound(turn.rec)
    BY <1>3 DEF IInv, RecsGood, Good
  <2>3. Good(new) /\ new.selection = None
    BY <2>1, <2>2, PresentedIsGood, RequotedInBounds
  <2>4. Good(new)'
    BY <1>1, <2>3, GoodStays
  <2>5. turn' = [turn EXCEPT !.rec = new, !.fresh = TRUE]
    BY <1>3, <2>1
  <2>6. turn' = [action |-> turn.action, rec |-> new, status |-> turn.status, row |-> "none",
                 fresh |-> TRUE]
    BY <1>1, <2>5, Running
  <2> QED
    BY <1>1, <1>3, <2>3, <2>4, <2>6, Running, TurnGoesOn DEF Replied
<1>4. ASSUME turn.rec # None, pc' = "acting", UNCHANGED turn
      PROVE  IInv'
  <2>1. PICK a, r, s : a = turn.action /\ r = turn.rec /\ s = turn.status
    OBVIOUS
  <2>2. Good(r)'
    BY <1>1, <1>4, <2>1, TurnRecStays
  <2>3. turn' = [action |-> a, rec |-> r, status |-> s, row |-> "none", fresh |-> FALSE]
    BY <1>1, <1>4, <2>1, Running
  <2> QED
    BY <1>1, <1>4, <2>1, <2>2, <2>3, Running, TurnGoesOn
<1> QED
  BY <1>2, <1>3, <1>4 DEF Revalidate

\* A turn that only answers ends with the recommendation it has.
LEMMA AnswerKeeps ==
  ASSUME IInv, pc \in {"acting", "handing"}, Replied,
         UNCHANGED <<turn, day, sale, taken, rec, status, rows, chosen>>
  PROVE  IInv'
<1>1. PICK a, r, s : a = turn.action /\ r = turn.rec /\ s = turn.status
  OBVIOUS
<1>2. Good(r)'
  BY <1>1, TurnRecStays
<1>3. turn' = [action |-> a, rec |-> r, status |-> s, row |-> "none", fresh |-> FALSE]
  BY <1>1, Running
<1>4. pc' = "closing"
  BY DEF Replied
<1> QED
  BY <1>1, <1>2, <1>3, <1>4, Running, TurnGoesOn

\* A choice within the limits of an option shown is agreed from now on.
LEMMA SelectedKeeps ==
  ASSUME IInv, pc = "acting", NEW q, Selected(q),
         q.plan \in DOMAIN turn.rec.offers, q.terms \in Bounds[q.plan],
         UNCHANGED <<day, sale, taken, rec, status, rows>>
  PROVE  IInv'
<1>1. PICK old : old = turn.rec
  OBVIOUS
<1>2. PICK new : new = [old EXCEPT !.selection = q]
  OBVIOUS
<1>3. Good(old)
  BY <1>1 DEF IInv, RecsGood
<1>4. Sound(old)
  BY <1>3 DEF Good
<1>5. [plan |-> q.plan, terms |-> q.terms] \in chosen' /\ chosen \subseteq chosen'
  BY DEF Selected
<1>6. /\ Good(new)' /\ Agreed(new)'
      /\ new.selection = q /\ new.acks = old.acks /\ new.shown = old.shown
  BY <1>1, <1>2, <1>4, <1>5, SelectionIsGood
<1>7. turn' = [turn EXCEPT !.rec = new]
  BY <1>1, <1>2 DEF Selected, Working
<1>8. turn' = [action |-> turn.action, rec |-> new, status |-> turn.status, row |-> "none",
               fresh |-> FALSE]
  BY <1>7, Running
<1>9. pc' \in {"handing", "closing"}
  BY DEF Selected
<1>10. pc' = "handing" => AcksOf(new, new.selection.plan) # {}
  BY <1>1, <1>6 DEF Selected, AcksValid, AcksOf
<1> QED
  BY <1>5, <1>6, <1>8, <1>9, <1>10, Running, TurnGoesOn

LEMMA ApplyKeeps == ASSUME IInv, Apply PROVE IInv'
<1>1. pc = "acting" /\ UNCHANGED <<day, sale, taken, rec, status, rows>>
  BY DEF Apply, domain
<1>2. PICK a, p : a = turn.action /\ p = PlanOf(a)
  OBVIOUS
<1>3. Sound(turn.rec)
  BY <1>1 DEF IInv, RecsGood, Good
<1>4. ASSUME Replied, UNCHANGED <<turn, chosen>> PROVE IInv'
  BY <1>1, <1>4, AnswerKeeps
<1>5. ASSUME CanApply(a), AsOffered(a) # None, Selected(AsOffered(a)) PROVE IInv'
  <2>1. p \in DOMAIN turn.rec.offers /\ turn.rec.offers[p] # None
    BY <1>2, <1>5 DEF CanApply
  <2>2. PICK q : q = turn.rec.offers[p]
    OBVIOUS
  <2>3. AsOffered(a) = q
    BY <1>2, <1>5, <2>2 DEF AsOffered
  <2>4. q.plan \in DOMAIN turn.rec.offers /\ q.terms \in Bounds[q.plan]
    BY <1>3, <2>1, <2>2 DEF Sound
  <2>5. Selected(q)
    BY <1>5, <2>3
  <2> QED
    BY <1>1, <2>4, <2>5, SelectedKeeps
<1>6. ASSUME CanApply(a), TermsOf(a) \in Bounds[PlanOf(a)],
             Selected(NewQuote(PlanOf(a), TermsOf(a)))
      PROVE  IInv'
  <2>1. PICK q : q = NewQuote(PlanOf(a), TermsOf(a))
    OBVIOUS
  <2>2. q.plan \in DOMAIN turn.rec.offers /\ q.terms \in Bounds[q.plan]
    BY <1>6, <2>1 DEF CanApply, NewQuote
  <2>3. Selected(q)
    BY <1>6, <2>1
  <2> QED
    BY <1>1, <2>2, <2>3, SelectedKeeps
<1>7. \/ Replied /\ UNCHANGED <<turn, chosen>>
      \/ CanApply(a) /\ AsOffered(a) # None /\ Selected(AsOffered(a))
      \/ /\ CanApply(a) /\ TermsOf(a) \in Bounds[PlanOf(a)]
         /\ Selected(NewQuote(PlanOf(a), TermsOf(a)))
  BY <1>2 DEF Apply
<1> QED
  BY <1>4, <1>5, <1>6, <1>7

\* An acknowledgment of the set shown, and an agreed selection priced again, keep it good.
LEMMA AckedIsGood ==
  ASSUME NEW r, Good(r), NEW p \in DOMAIN r.shown,
         NEW x, x = [r EXCEPT !.acks = @ \union {[plan |-> p, version |-> r.shown[p]]}]
  PROVE  /\ Good(x) /\ AcksOf(x, p) # {} /\ x.selection = r.selection
         /\ x.offers = r.offers
         /\ r.selection # None => Agreed(x)
         /\ \A y : /\ r.selection # None /\ r.selection.plan = p
                   /\ y = [x EXCEPT !.selection = NewQuote(p, r.selection.terms)]
                   => Good(y)
<1>1. /\ x = [offers |-> r.offers, shown |-> r.shown, selection |-> r.selection,
              acks |-> r.acks \union {[plan |-> p, version |-> r.shown[p]]}]
  BY DEF Good, Sound, RecFields
<1>2. x.offers = r.offers /\ x.shown = r.shown /\ x.selection = r.selection
  BY <1>1
<1>3. x.acks = r.acks \union {[plan |-> p, version |-> r.shown[p]]}
  BY <1>1
<1>4. Sound(x)
  <2>1. RecFields(x)
    BY <1>1 DEF RecFields
  <2>2. \A a \in x.acks : a.plan \in DOMAIN x.offers /\ a.version = x.shown[a.plan]
    BY <1>2, <1>3 DEF Good, Sound
  <2> QED
    BY <1>2, <2>1, <2>2 DEF Good, Sound
<1>5. r.selection # None => Agreed(x)
  BY <1>2 DEF Good, Agreed
<1>6. AcksOf(x, p) # {}
  <2>1. [plan |-> p, version |-> r.shown[p]] \in AcksOf(x, p)
    BY <1>3 DEF AcksOf
  <2> QED
    BY <2>1
<1>7. ASSUME r.selection # None, r.selection.plan = p,
             NEW y, y = [x EXCEPT !.selection = NewQuote(p, r.selection.terms)]
      PROVE  Good(y)
  <2>1. /\ y = [offers |-> x.offers, shown |-> x.shown, acks |-> x.acks,
                selection |-> NewQuote(p, r.selection.terms)]
    BY <1>4, <1>7 DEF Sound, RecFields
  <2>2. y.offers = x.offers /\ y.shown = x.shown /\ y.acks = x.acks
    BY <2>1
  <2>3. y.selection.plan = r.selection.plan /\ y.selection.terms = r.selection.terms
    BY <1>7, <2>1 DEF NewQuote
  <2>4. RecFields(y)
    BY <2>1 DEF RecFields
  <2>5. Sound(y)
    BY <1>4, <2>2, <2>4 DEF Sound
  <2>6. Agreed(y)
    BY <1>2, <1>5, <1>7, <2>2, <2>3 DEF Agreed
  <2> QED
    BY <2>5, <2>6 DEF Good
<1> QED
  BY <1>2, <1>4, <1>5, <1>6, <1>7 DEF Good

LEMMA AckKeeps == ASSUME IInv, Ack PROVE IInv'
<1>1. pc = "acting" /\ UNCHANGED <<day, sale, taken, rec, status, rows, chosen>>
  BY DEF Ack, domain
<1>2. PICK old, p : old = turn.rec /\ p = turn.action.plan
  OBVIOUS
<1>3. PICK acked : acked = [old EXCEPT !.acks = @ \union {[plan |-> p, version |-> old.shown[p]]}]
  OBVIOUS
<1>4. PICK again : again = [acked EXCEPT !.selection = NewQuote(p, old.selection.terms)]
  OBVIOUS
<1>5. Good(old)
  BY <1>1, <1>2 DEF IInv, RecsGood
<1>6. CASE Replied /\ UNCHANGED turn
  BY <1>1, <1>6, AnswerKeeps
<1>7. CASE Present
  BY <1>1, <1>7, PresentIsFresh
<1>8. ASSUME p \in DOMAIN old.shown, Working(acked), Replied PROVE IInv'
  <2>1. Good(acked)
    BY <1>3, <1>5, <1>8, AckedIsGood
  <2>2. Good(acked)'
    BY <1>1, <2>1, GoodStays
  <2>3. turn' = [action |-> turn.action, rec |-> acked, status |-> turn.status, row |-> "none",
                 fresh |-> FALSE]
    BY <1>1, <1>8, Running DEF Working
  <2> QED
    BY <1>1, <1>8, <2>2, <2>3, Running, TurnGoesOn DEF Replied
<1>9. ASSUME p \in DOMAIN old.shown, old.selection # None, old.selection.plan = p,
             Working(again), Replied
      PROVE  IInv'
  <2>1. Good(again)
    BY <1>3, <1>4, <1>5, <1>9, AckedIsGood
  <2>2. Good(again)'
    BY <1>1, <2>1, GoodStays
  <2>3. turn' = [action |-> turn.action, rec |-> again, status |-> turn.status, row |-> "none",
                 fresh |-> FALSE]
    BY <1>1, <1>9, Running DEF Working
  <2> QED
    BY <1>1, <1>9, <2>2, <2>3, Running, TurnGoesOn DEF Replied
<1>10. ASSUME p \in DOMAIN old.shown, old.selection # None, old.selection.plan = p,
              Working(acked), pc' = "handing"
       PROVE  IInv'
  <2>1. Good(acked) /\ Agreed(acked) /\ AcksOf(acked, acked.selection.plan) # {}
    BY <1>3, <1>5, <1>10, AckedIsGood
  <2>2. Good(acked)' /\ Agreed(acked)'
    BY <1>1, <2>1, GoodStays
  <2>3. turn' = [action |-> turn.action, rec |-> acked, status |-> turn.status, row |-> "none",
                 fresh |-> FALSE]
    BY <1>1, <1>10, Running DEF Working
  <2> QED
    BY <1>1, <1>10, <2>1, <2>2, <2>3, Running, TurnGoesOn
<1>11. \/ Replied /\ UNCHANGED turn
       \/ Present
       \/ p \in DOMAIN old.shown /\ Working(acked) /\ Replied
       \/ /\ p \in DOMAIN old.shown /\ old.selection # None /\ old.selection.plan = p
          /\ Working(again) /\ Replied
       \/ /\ p \in DOMAIN old.shown /\ old.selection # None /\ old.selection.plan = p
          /\ Working(acked) /\ pc' = "handing"
  BY <1>2, <1>3, <1>4 DEF Ack
<1> QED
  BY <1>6, <1>7, <1>8, <1>9, <1>10, <1>11

LEMMA ChoicesKeeps == ASSUME IInv, Choices PROVE IInv'
<1>1. /\ pc = "acting" /\ Replied
      /\ UNCHANGED <<turn, day, sale, taken, rec, status, rows, chosen>>
  BY DEF Choices, domain
<1> QED
  BY <1>1, AnswerKeeps

LEMMA HandOffKeeps == ASSUME IInv, HandOff PROVE IInv'
<1>1. pc = "handing" /\ UNCHANGED <<day, sale, taken, rec, status, rows, chosen>>
  BY DEF HandOff, domain
<1>2. CASE Present
  BY <1>1, <1>2, PresentIsFresh
<1>3. CASE pc' = "posting" /\ UNCHANGED turn
  <2>1. PICK a, r, s : a = turn.action /\ r = turn.rec /\ s = turn.status
    OBVIOUS
  <2>2. Good(r) /\ Agreed(r) /\ AcksOf(r, r.selection.plan) # {}
    BY <1>1, <2>1 DEF IInv, RecsGood, HandingOver
  <2>3. Good(r)' /\ Agreed(r)'
    BY <1>1, <2>2, GoodStays
  <2>4. turn' = [action |-> a, rec |-> r, status |-> s, row |-> "none", fresh |-> FALSE]
    BY <1>1, <1>3, <2>1, Running
  <2> QED
    BY <1>1, <1>3, <2>1, <2>2, <2>3, <2>4, Running, TurnGoesOn
<1> QED
  BY <1>2, <1>3 DEF HandOff

LEMMA DownKeeps == ASSUME IInv, Down PROVE IInv'
<1>1. /\ pc \in {"checking", "acting", "handing"}
      /\ UNCHANGED <<day, sale, taken, rec, status, rows, chosen>>
  BY DEF Down, domain
<1>2. PICK r, s : /\ r = turn.rec \/ r = None
                  /\ s \in {"S3", "PAUSE"}
                  /\ turn' = [turn EXCEPT !.rec = r, !.status = s]
  BY DEF Down
<1>3. turn' = [action |-> turn.action, rec |-> r, status |-> s, row |-> "none", fresh |-> FALSE]
  BY <1>1, <1>2, Running
<1>4. r # None => Good(r)
  BY <1>2 DEF IInv, RecsGood
<1>5. r # None => Good(r)'
  BY <1>1, <1>4, GoodStays
<1>6. pc' = "closing"
  BY DEF Down, Replied
<1> QED
  BY <1>1, <1>2, <1>3, <1>5, <1>6, Running, TurnGoesOn

\* The journey's answer, and the row the turn will write of it.
LEMMA PostKeeps == ASSUME IInv, Post PROVE IInv'
<1>1. /\ pc = "posting" /\ pc' = "closing" /\ taken \subseteq taken'
      /\ UNCHANGED <<day, sale, rec, status, rows, chosen>>
  BY DEF Post, Replied, domain
<1>2. PICK a, r, t, row :
        /\ turn' = [action |-> a, rec |-> r, status |-> t, row |-> row, fresh |-> FALSE]
        /\ r = turn.rec
        /\ \/ row = "APPLICATION_INTAKE" /\ t = "HANDOFF" /\ r.selection \in taken'
           \/ row = "INTAKE_PENDING" /\ t # "HANDOFF"
  <2>1. CASE /\ taken' = taken \union {turn.rec.selection}
             /\ turn' = [turn EXCEPT !.row = "APPLICATION_INTAKE", !.status = "HANDOFF"]
    <3>1. turn' = [action |-> turn.action, rec |-> turn.rec, status |-> "HANDOFF",
                   row |-> "APPLICATION_INTAKE", fresh |-> FALSE]
      BY <1>1, <2>1, Running
    <3> QED
      BY <2>1, <3>1
  <2>2. CASE turn' = [turn EXCEPT !.row = "INTAKE_PENDING"]
    <3>1. turn' = [action |-> turn.action, rec |-> turn.rec, status |-> turn.status,
                   row |-> "INTAKE_PENDING", fresh |-> FALSE]
      BY <1>1, <2>2, Running
    <3> QED
      BY <1>1, <3>1, Running
  <2> QED
    BY <2>1, <2>2 DEF Post
<1>3. Good(r)'
  BY <1>1, <1>2, TurnRecStays
<1>4. rec # None => Good(rec)'
  BY <1>1, GoodStays DEF IInv, RecsGood
<1>5. RecsGood'
  BY <1>1, <1>2, <1>3, <1>4 DEF IInv, RecsGood, TurnFields
<1>6. HandingOver' /\ FreshIsLast'
  BY <1>1, <1>2 DEF HandingOver, FreshIsLast
<1>7. RowIsTrue'
  BY <1>1, <1>2, Running DEF RowIsTrue
<1>8. RecordMatchesJourney'
  BY <1>1 DEF IInv, RecordMatchesJourney
<1> QED
  BY <1>5, <1>6, <1>7, <1>8 DEF IInv

LEMMA CommitKeeps == ASSUME IInv, Commit PROVE IInv'
<1>1. /\ pc = "closing" /\ pc' = "idle" /\ turn' = NoTurn
      /\ UNCHANGED <<day, sale, taken>>
      /\ rec' = turn.rec \/ rec' = None
      /\ status' = turn.status
      /\ chosen' = IF turn.fresh THEN {} ELSE chosen
      /\ rows' = IF turn.row = "none" THEN rows
                 ELSE rows \union {[quote |-> turn.rec.selection, reason |-> turn.row]}
  BY DEF Commit, domain
<1>2. rec' # None => Good(rec)'
  <2>1. CASE turn.fresh = TRUE
    <3>1. PICK r : r = turn.rec
      OBVIOUS
    <3>2. Sound(r) /\ r.selection = None
      BY <2>1, <3>1 DEF IInv, FreshIsLast, Good
    <3>3. Sound(r)'
      BY <3>2 DEF Sound, RecFields
    <3>4. Good(r)'
      BY <3>2, <3>3 DEF Good
    <3> QED
      BY <1>1, <3>1, <3>4
  <2>2. CASE turn.fresh = FALSE
    <3>1. chosen' = chosen
      BY <1>1, <2>2
    <3>2. PICK r : r = turn.rec
      OBVIOUS
    <3>3. r # None => Good(r)'
      BY <3>1, <3>2, TurnRecStays
    <3> QED
      BY <1>1, <3>2, <3>3
  <2> QED
    BY <2>1, <2>2 DEF IInv, RecsGood
<1>3. RecsGood'
  BY <1>1, <1>2 DEF IInv, RecsGood, TurnFields, NoTurn
<1>4. HandingOver' /\ FreshIsLast' /\ RowIsTrue'
  BY <1>1 DEF HandingOver, FreshIsLast, RowIsTrue, NoTurn
<1>5. RecordMatchesJourney'
  <2>1. status # "HANDOFF"
    BY <1>1 DEF IInv, RowIsTrue
  <2>2. \A r \in rows : r.reason # "APPLICATION_INTAKE"
    BY <2>1 DEF IInv, RecordMatchesJourney
  <2>3. CASE turn.row = "none"
    BY <1>1, <2>2, <2>3 DEF RecordMatchesJourney, IInv, RowIsTrue
  <2>4. CASE turn.row # "none"
    <3>1. PICK new : new = [quote |-> turn.rec.selection, reason |-> turn.row]
      OBVIOUS
    <3>2. rows' = rows \union {new} /\ new.reason = turn.row /\ new.quote = turn.rec.selection
      BY <1>1, <2>4, <3>1
    <3>3. new.reason = "APPLICATION_INTAKE" <=> status' = "HANDOFF"
      BY <1>1, <3>2 DEF IInv, RowIsTrue
    <3>4. new.reason = "APPLICATION_INTAKE" => new.quote \in taken'
      BY <1>1, <3>2 DEF IInv, RowIsTrue
    <3> QED
      BY <2>2, <3>2, <3>3, <3>4 DEF RecordMatchesJourney
  <2> QED
    BY <2>3, <2>4
<1> QED
  BY <1>3, <1>4, <1>5 DEF IInv

LEMMA DieKeeps == ASSUME IInv, Die PROVE IInv'
<1>1. /\ pc # "idle" /\ pc' = "idle" /\ turn' = NoTurn
      /\ UNCHANGED <<day, sale, taken, rec, status, rows, chosen>>
  BY DEF Die, domain
<1>2. rec # None => Good(rec)'
  BY <1>1, GoodStays DEF IInv, RecsGood
<1>3. RecsGood'
  BY <1>1, <1>2 DEF IInv, RecsGood, TurnFields, NoTurn
<1>4. HandingOver' /\ FreshIsLast' /\ RowIsTrue'
  BY <1>1 DEF HandingOver, FreshIsLast, RowIsTrue, NoTurn
<1>5. RecordMatchesJourney'
  BY <1>1 DEF IInv, RecordMatchesJourney
<1> QED
  BY <1>3, <1>4, <1>5 DEF IInv

\* A stutter, a new day, a publication or a withdrawal disturbs nothing the session relies on.
LEMMA WorldKeeps ==
  ASSUME IInv, UNCHANGED <<taken, rec, status, rows, pc, turn, chosen>>,
         day' \in Nat, sale' \subseteq Plans
  PROVE  IInv'
<1>1. /\ rec # None => Good(rec)'
      /\ turn.rec # None => Good(turn.rec)'
      /\ pc \in {"acting", "handing", "posting"} => Good(turn.rec)'
  <2>1. PICK r, t : r = rec /\ t = turn.rec
    OBVIOUS
  <2>2. (Good(r) => Good(r)') /\ (Good(t) => Good(t)')
    BY GoodStays
  <2> QED
    BY <2>1, <2>2 DEF IInv, RecsGood
<1>2. RecsGood'
  BY <1>1 DEF IInv, RecsGood, TurnFields
<1>3. HandingOver'
  BY DEF IInv, HandingOver, Agreed, AcksOf
<1>4. FreshIsLast'
  BY <1>1 DEF IInv, FreshIsLast, Good, Sound, RecFields, Agreed
<1>5. RowIsTrue' /\ RecordMatchesJourney'
  BY DEF IInv, RowIsTrue, RecordMatchesJourney
<1> QED
  BY <1>2, <1>3, <1>4, <1>5 DEF IInv

LEMMA NextKeeps == ASSUME IInv, [Next]_vars PROVE IInv'
<1>1. day \in Nat /\ sale \subseteq Plans
  BY DEF IInv, RecsGood
<1>2. CASE UNCHANGED vars
  <2>1. UNCHANGED <<taken, rec, status, rows, pc, turn, chosen>> /\ day' = day /\ sale' = sale
    BY <1>2 DEF vars
  <2> QED
    BY <1>1, <2>1, WorldKeeps
<1>3. CASE Midnight
  <2>1. UNCHANGED <<taken, rec, status, rows, pc, turn, chosen>> /\ day' = day + 1 /\ sale' = sale
    BY <1>3 DEF Midnight
  <2> QED
    BY <1>1, <2>1, WorldKeeps
<1>4. ASSUME NEW p \in Plans, Publish(p) PROVE IInv'
  <2>1. UNCHANGED <<taken, rec, status, rows, pc, turn, chosen>> /\ day' = day /\ sale' = sale
    BY <1>4 DEF Publish
  <2> QED
    BY <1>1, <2>1, WorldKeeps
<1>5. ASSUME NEW p \in Plans, Withdraw(p) PROVE IInv'
  <2>1. /\ UNCHANGED <<taken, rec, status, rows, pc, turn, chosen>> /\ day' = day
        /\ sale' = sale \ {p}
    BY <1>5 DEF Withdraw
  <2> QED
    BY <1>1, <2>1, WorldKeeps
<1> QED
  BY <1>2, <1>3, <1>4, <1>5, BeginKeeps, RevalidateKeeps, ApplyKeeps, AckKeeps, ChoicesKeeps,
     HandOffKeeps, PostKeeps, CommitKeeps, DownKeeps, DieKeeps DEF Next, Steps

\* The inductive invariant: recommendations are sound, what is handed over is agreed and acknowledged,
\* and the session's rows and state match what the journey took.
THEOREM OptionsInvariant == Spec => []IInv
<1>1. Init => IInv
  BY InitIInv
<1>2. IInv /\ [Next]_vars => IInv'
  BY NextKeeps
<1> QED
  BY <1>1, <1>2, PTL DEF Spec

----------------------------------------------------------------------------
(* The properties. *)

\* What is posted was chosen among the options last shown, within the plan's limits (s3.py: _apply,
\* _ack, _hand_off).
THEOREM PostsWhatWasChosen == Spec => []SentIsChosen
<1>1. IInv => SentIsChosen
  BY DEF IInv, HandingOver, Agreed, SentIsChosen
<1> QED
  BY <1>1, OptionsInvariant, PTL

\* conv.handoff and the session's state match what the journey took, whatever answers were lost.
THEOREM RecordsMatch == Spec => []RecordMatchesJourney
<1>1. IInv => RecordMatchesJourney
  BY DEF IInv
<1> QED
  BY <1>1, OptionsInvariant, PTL

\* What a turn hands over is quoted for today at least.
LEMMA HandsOverOnAValidQuote ==
  ASSUME IInv, Next, pc = "acting", pc' = "handing"
  PROVE  day <= turn'.rec.selection.until
<1>1. Apply \/ Ack
  BY DEF Next, Steps, Begin, Save, Resume, Revalidate, Choices, HandOff, Post, Commit, Down, Die,
         Midnight, Publish, Withdraw, Present, Replied
<1>2. Good(turn.rec) /\ day \in Nat
  BY DEF IInv, RecsGood
<1>3. ASSUME NEW q, Selected(q), day <= q.until PROVE day <= turn'.rec.selection.until
  <2>1. turn' = [turn EXCEPT !.rec = [turn.rec EXCEPT !.selection = q]]
    BY <1>3 DEF Selected, Working
  <2>2. [turn.rec EXCEPT !.selection = q].selection = q
    BY <1>2 DEF Good, Sound, RecFields
  <2>3. turn'.rec = [turn.rec EXCEPT !.selection = q]
    BY <2>1, Running
  <2> QED
    BY <1>3, <2>2, <2>3
<1>4. CASE Apply
  <2>1. PICK a : a = turn.action
    OBVIOUS
  <2>2. \/ AsOffered(a) # None /\ Selected(AsOffered(a))
        \/ Selected(NewQuote(PlanOf(a), TermsOf(a)))
    BY <1>4, <2>1 DEF Apply, Replied
  <2>3. PICK q, n : q = AsOffered(a) /\ n = NewQuote(PlanOf(a), TermsOf(a))
    OBVIOUS
  <2>4. q # None => day <= q.until
    BY <2>3 DEF AsOffered, QuoteValid
  <2>5. day <= n.until
    <3>1. n.until = day + ValidFor /\ ValidFor \in Nat
      BY <2>3 DEF NewQuote
    <3> QED
      BY <1>2, <3>1
  <2>6. (q # None /\ Selected(q)) \/ Selected(n)
    BY <2>2, <2>3
  <2> QED
    BY <1>3, <2>4, <2>5, <2>6
<1>5. CASE Ack
  <2>1. PICK old, sel : old = turn.rec /\ sel = old.selection
    OBVIOUS
  <2>2. PICK p, acks : /\ turn' = [turn EXCEPT !.rec = [old EXCEPT !.acks = acks]]
                       /\ QuoteValid(sel) /\ p = sel.plan
    <3>1. PICK p, acked : /\ p = turn.action.plan
                          /\ acked = [old EXCEPT !.acks =
                                        @ \union {[plan |-> p, version |-> old.shown[p]]}]
      OBVIOUS
    <3>2. Working(acked) /\ sel # None /\ sel.plan = p /\ QuoteValid(sel)
      BY <1>5, <2>1, <3>1 DEF Ack, Replied, Present
    <3>3. PICK acks : acks = old.acks \union {[plan |-> p, version |-> old.shown[p]]}
      OBVIOUS
    <3>4. acked = [old EXCEPT !.acks = acks]
      BY <3>1, <3>3
    <3> QED
      BY <3>2, <3>4 DEF Working
  <2>3. turn'.rec = [old EXCEPT !.acks = acks]
    BY <2>2, Running
  <2>4. turn'.rec.selection = sel
    BY <1>2, <2>1, <2>3 DEF Good, Sound, RecFields
  <2> QED
    BY <2>2, <2>4 DEF QuoteValid
<1> QED
  BY <1>1, <1>4, <1>5

\* What a turn posts is acknowledged, on the set the registry holds.
LEMMA PostsOnCurrentAcks ==
  ASSUME IInv, Next, pc = "handing", pc' = "posting"
  PROVE  LET acks == AcksOf(turn.rec, turn.rec.selection.plan) IN
         acks # {} /\ \A a \in acks : a.version = registry[a.plan]
<1>1. HandOff
  BY DEF Next, Steps, Begin, Save, Resume, Revalidate, Apply, Selected, Ack, Choices, Post, Commit, Down,
         Die, Midnight, Publish, Withdraw, Present, Replied
<1>2. PICK p : p = turn.rec.selection.plan
  OBVIOUS
<1>3. registry[p] = turn.rec.shown[p]
  BY <1>1, <1>2 DEF HandOff, Present, Replied
<1>4. \A a \in AcksOf(turn.rec, p) : a.version = turn.rec.shown[a.plan] /\ a.plan = p
  BY DEF IInv, RecsGood, Good, Sound, AcksOf
<1>5. AcksOf(turn.rec, p) # {}
  BY <1>2 DEF IInv, HandingOver
<1> QED
  BY <1>2, <1>3, <1>4, <1>5

\* V7 across days, registry versions and turns (s3.py: acks_valid, _ack, _hand_off): the quote is valid
\* when the turn hands over, and the acknowledgments are of the set in force when it builds the intake.
THEOREM HandOffsAreEarned == Spec => HandOffIsEarned
<1> DEFINE Earned ==
      /\ pc = "acting" /\ pc' = "handing" => day <= turn'.rec.selection.until
      /\ pc = "handing" /\ pc' = "posting" =>
           LET acks == AcksOf(turn.rec, turn.rec.selection.plan) IN
           acks # {} /\ \A a \in acks : a.version = registry[a.plan]
<1>1. IInv /\ Next => Earned
  BY HandsOverOnAValidQuote, PostsOnCurrentAcks
<1>2. IInv /\ [Next]_vars => [Earned]_vars
  BY <1>1
<1>3. Spec => [][Earned]_vars
  BY <1>2, OptionsInvariant, PTL DEF Spec
<1> QED
  BY <1>3 DEF HandOffIsEarned

----------------------------------------------------------------------------
(* The types.  They are an invariant of their own: the record kinds of an    *)
(* action and the quotes under way say nothing about what was chosen.        *)

\* What is being handed over, and what a row will say, is a quote.
QuoteHeld ==
  /\ pc \in {"acting", "handing", "posting"} => Recommended(turn.rec)
  /\ pc \in {"handing", "posting"} \/ turn.row # "none" => turn.rec.selection \in Quote

TInv == TypeOK /\ TurnFields /\ QuoteHeld

\* The parts of a recommendation.
LEMMA RecommendedParts ==
  ASSUME NEW r, Recommended(r)
  PROVE  /\ RecFields(r)
         /\ DOMAIN r.offers \in (SUBSET Plans) \ {{}}
         /\ r.offers \in [DOMAIN r.offers -> Quote \union {None}]
         /\ r.shown \in [DOMAIN r.offers -> Nat] /\ DOMAIN r.shown = DOMAIN r.offers
         /\ r.acks \in SUBSET [plan : DOMAIN r.offers, version : Nat]
         /\ r.selection \in Quote \union {None}
<1>1. PICK ps \in (SUBSET Plans) \ {{}} :
        r \in [offers : [ps -> Quote \union {None}], shown : [ps -> Nat],
               acks : SUBSET [plan : ps, version : Nat], selection : Quote \union {None}]
  BY DEF Recommended
<1>2. DOMAIN r.offers = ps /\ DOMAIN r.shown = ps
  BY <1>1
<1> QED
  BY <1>1, <1>2 DEF RecFields

\* And a recommendation from its parts.
LEMMA RecommendedWhole ==
  ASSUME NEW ps \in (SUBSET Plans) \ {{}}, NEW o \in [ps -> Quote \union {None}],
         NEW n \in [ps -> Nat], NEW k \in SUBSET [plan : ps, version : Nat],
         NEW q \in Quote \union {None}
  PROVE  Recommended([offers |-> o, shown |-> n, acks |-> k, selection |-> q])
BY DEF Recommended

\* A quote drawn today.
LEMMA NewQuoteTyped ==
  ASSUME TypeOK, NEW p \in Plans, NEW t \in Terms
  PROVE  NewQuote(p, t) \in Quote
<1>1. day + ValidFor \in Nat /\ issued + 1 \in Nat
  BY DEF TypeOK
<1> QED
  BY <1>1 DEF NewQuote, Quote

\* Options shown anew are a recommendation.
LEMMA PresentedTyped ==
  ASSUME TypeOK, NEW ps \in (SUBSET Plans) \ {{}}, NEW o \in [ps -> Quote \union {None}]
  PROVE  Recommended(Presented(o))
<1>1. DOMAIN o = ps /\ [p \in ps |-> registry[p]] \in [ps -> Nat]
  BY DEF TypeOK
<1>2. Presented(o) = [offers |-> o, shown |-> [p \in ps |-> registry[p]], acks |-> {},
                      selection |-> None]
  BY <1>1 DEF Presented
<1> QED
  BY <1>1, <1>2, RecommendedWhole

\* A choice, or an acknowledgment, leaves one.
LEMMA SelectionTyped ==
  ASSUME NEW r, Recommended(r), NEW q \in Quote
  PROVE  LET x == [r EXCEPT !.selection = q] IN Recommended(x) /\ x.selection = q
<1> DEFINE x == [r EXCEPT !.selection = q]
           y == [offers |-> r.offers, shown |-> r.shown, acks |-> r.acks, selection |-> q]
<1>0. RecFields(r)
  BY RecommendedParts
<1>1. x = y
  BY <1>0 DEF RecFields
<1>2. Recommended(y)
  BY RecommendedParts, RecommendedWhole
<1>3. y.selection = q
  OBVIOUS
<1> HIDE DEF x, y
<1>4. Recommended(x) /\ x.selection = q
  BY <1>1, <1>2, <1>3
<1> QED
  BY <1>4 DEF x

LEMMA AcksTyped ==
  ASSUME NEW r, Recommended(r), NEW p \in DOMAIN r.shown
  PROVE  LET x == [r EXCEPT !.acks = @ \union {[plan |-> p, version |-> r.shown[p]]}] IN
         Recommended(x) /\ x.selection = r.selection
<1> DEFINE k == r.acks \union {[plan |-> p, version |-> r.shown[p]]}
           x == [r EXCEPT !.acks = @ \union {[plan |-> p, version |-> r.shown[p]]}]
           y == [offers |-> r.offers, shown |-> r.shown, acks |-> k, selection |-> r.selection]
<1>0. RecFields(r)
  BY RecommendedParts
<1>1. x = y
  <2>1. x = [r EXCEPT !.acks = k]
    OBVIOUS
  <2> HIDE DEF k, x
  <2> QED
    BY <1>0, <2>1 DEF RecFields
<1>2. k \in SUBSET [plan : DOMAIN r.offers, version : Nat]
  <2>1. DOMAIN r.shown = DOMAIN r.offers /\ r.shown \in [DOMAIN r.offers -> Nat]
        /\ r.acks \in SUBSET [plan : DOMAIN r.offers, version : Nat]
    BY RecommendedParts
  <2>2. [plan |-> p, version |-> r.shown[p]] \in [plan : DOMAIN r.offers, version : Nat]
    BY <2>1
  <2> QED
    BY <2>1, <2>2
<1>3. Recommended(y)
  <2> HIDE DEF k
  <2> QED
    BY <1>2, RecommendedParts, RecommendedWhole
<1>4. y.selection = r.selection
  OBVIOUS
<1> HIDE DEF x, y
<1>5. Recommended(x) /\ x.selection = r.selection
  BY <1>1, <1>3, <1>4
<1> QED
  BY <1>5 DEF x

\* A turn that goes on, or ends, with parts of their types.
LEMMA TurnTyped ==
  ASSUME TInv,
         NEW a \in Action, NEW r, NEW s \in States, NEW w \in Reasons \union {"none"},
         NEW f \in BOOLEAN,
         turn' = [action |-> a, rec |-> r, status |-> s, row |-> w, fresh |-> f],
         r # None => Recommended(r),
         pc' \in {"checking", "acting", "handing", "posting", "closing"},
         pc' \in {"acting", "handing", "posting"} => Recommended(r),
         pc' \in {"handing", "posting"} \/ w # "none" => r.selection \in Quote,
         issued' \in Nat, taken' \subseteq Quote, chosen' \subseteq [plan : Plans, terms : Terms],
         UNCHANGED <<day, registry, sale, rec, status, rows>>
  PROVE  TInv'
<1>1. /\ turn'.action = a /\ turn'.rec = r /\ turn'.status = s /\ turn'.row = w
      /\ turn'.fresh = f
  OBVIOUS
<1>2. TypeOK'
  <2>1. /\ day' \in Nat /\ registry' \in [Plans -> Nat] /\ sale' \subseteq Plans
        /\ (rec' # None => Recommended(rec')) /\ status' \in States
        /\ rows' \subseteq [quote : Quote, reason : Reasons]
    BY DEF TInv, TypeOK
  <2> QED
    BY <1>1, <2>1 DEF TypeOK
<1>3. TurnFields'
  BY <1>1 DEF TurnFields
<1>4. QuoteHeld'
  BY <1>1 DEF QuoteHeld
<1> QED
  BY <1>2, <1>3, <1>4 DEF TInv

\* A turn that presents again.
LEMMA PresentTyped ==
  ASSUME TInv, Present, turn.row = "none",
         UNCHANGED <<day, registry, sale, taken, rec, status, rows, chosen>>
  PROVE  TInv'
<1>1. PICK a, s, f, new : a = turn.action /\ s = turn.status /\ f = turn.fresh
                          /\ new = Presented(Ranked)
  OBVIOUS
<1>2. a \in Action /\ s \in States /\ f \in BOOLEAN /\ issued' \in Nat /\ pc' = "closing"
      /\ taken' \subseteq Quote /\ chosen' \subseteq [plan : Plans, terms : Terms]
  BY <1>1 DEF TInv, TypeOK, Present, Replied
<1>3. CASE sale = {}
  <2>1. turn' = [action |-> a, rec |-> None, status |-> "HE", row |-> "none", fresh |-> f]
    BY <1>1, <1>3 DEF Present, TInv, TurnFields
  <2>2. "HE" \in States
    BY DEF States
  <2> QED
    BY <1>2, <2>1, <2>2, TurnTyped
<1>4. CASE sale # {}
  <2>1. turn' = [action |-> a, rec |-> new, status |-> s, row |-> "none", fresh |-> TRUE]
    BY <1>1, <1>4 DEF Present, TInv, TurnFields
  <2>2. sale \in (SUBSET Plans) \ {{}}
    BY <1>4 DEF TInv, TypeOK
  <2>3. Ranked \in [sale -> Quote \union {None}]
    <3>1. \A p \in sale : NewQuote(p, Offered[p]) \in Quote
      BY <2>2, NewQuoteTyped DEF TInv
    <3> QED
      BY <3>1 DEF Ranked
  <2>4. Recommended(new)
    BY <1>1, <2>2, <2>3, PresentedTyped DEF TInv
  <2> QED
    BY <1>2, <2>1, <2>4, TurnTyped
<1> QED
  BY <1>3, <1>4

LEMMA BeginTyped == ASSUME TInv, Begin \/ Save \/ Resume PROVE TInv'
<1>1. PICK a, r, s :
        /\ turn' = [action |-> a, rec |-> r, status |-> s, row |-> "none", fresh |-> FALSE]
        /\ a \in Action /\ (r = None \/ r = rec) /\ s \in States
        /\ pc' \in {"checking", "closing"}
  <2>1. CASE Begin
    <3>1. PICK a \in Actions : turn' = Turn(a)
      BY <2>1 DEF Begin
    <3>2. a \in Action
      <4>1. \A p \in Plans : 1..registry[p] \subseteq Nat
        BY DEF TInv, TypeOK
      <4>2. \A p \in Plans : [kind : {"ack"}, plan : {p}, version : 1..registry[p]]
                               \subseteq [kind : {"ack"}, plan : Plans, version : Nat]
        BY <4>1
      <4>3. CASE a \in UNION {[kind : {"ack"}, plan : {p}, version : 1..registry[p]] : p \in Plans}
        BY <4>2, <4>3 DEF Action
      <4>4. CASE a \in [kind : {"apply"}, plan : Plans \union {None}, terms : Terms \union {None}]
        BY <4>4 DEF Action
      <4>5. CASE a = NoAction
        BY <4>5 DEF Action, NoAction
      <4> QED
        BY <3>1, <4>3, <4>4, <4>5, Zenon DEF Actions
    <3> QED
      BY <2>1, <3>1, <3>2 DEF Begin, Turn, TInv, TypeOK
  <2>2. CASE Save
    <3>1. turn' = [action |-> NoAction, rec |-> rec, status |-> "PAUSE", row |-> "none",
                   fresh |-> FALSE]
      BY <2>2 DEF Save, Turn
    <3>2. NoAction \in Action /\ "PAUSE" \in States
      BY DEF NoAction, Action, States
    <3> QED
      BY <2>2, <3>1, <3>2 DEF Save, Replied
  <2>3. CASE Resume
    <3>1. turn' = [action |-> [kind |-> "enter"], rec |-> None, status |-> "S3", row |-> "none",
                   fresh |-> FALSE]
      BY <2>3 DEF Resume, Turn
    <3>2. [kind |-> "enter"] \in Action /\ "S3" \in States
      BY DEF Action, States
    <3> QED
      BY <2>3, <3>1, <3>2 DEF Resume
  <2> QED
    BY <2>1, <2>2, <2>3
<1>2. UNCHANGED <<day, registry, sale, issued, taken, rec, status, rows, chosen>>
  BY DEF Begin, Save, Resume, domain
<1>3. /\ r # None => Recommended(r)
      /\ issued' \in Nat /\ taken' \subseteq Quote
      /\ chosen' \subseteq [plan : Plans, terms : Terms]
  BY <1>1, <1>2 DEF TInv, TypeOK
<1> QED
  BY <1>1, <1>2, <1>3, TurnTyped

\* A turn that goes on, or ends, on a recommendation of its own.
LEMMA WorkingTyped ==
  ASSUME IInv, TInv, pc \in {"checking", "acting", "handing"},
         NEW r, Working(r), Recommended(r),
         pc' \in {"acting", "handing", "posting", "closing"},
         pc' \in {"handing", "posting"} => r.selection \in Quote,
         issued' \in Nat, chosen' \subseteq [plan : Plans, terms : Terms],
         UNCHANGED <<day, registry, sale, taken, rec, status, rows>>
  PROVE  TInv'
<1>1. PICK a, s : a = turn.action /\ s = turn.status
  OBVIOUS
<1>2. turn' = [action |-> a, rec |-> r, status |-> s, row |-> "none", fresh |-> FALSE]
  BY <1>1, Running DEF Working
<1>3. a \in Action /\ s \in States /\ taken' \subseteq Quote
  BY <1>1 DEF TInv, TypeOK
<1> QED
  BY <1>2, <1>3, TurnTyped

\* Or on the one it has.
LEMMA GoesOnTyped ==
  ASSUME IInv, TInv, pc \in {"checking", "acting", "handing"}, Recommended(turn.rec),
         UNCHANGED <<turn, day, registry, sale, issued, taken, rec, status, rows, chosen>>,
         pc' \in {"acting", "handing", "posting", "closing"},
         pc' \in {"handing", "posting"} => turn.rec.selection \in Quote
  PROVE  TInv'
<1>1. PICK r : r = turn.rec
  OBVIOUS
<1>2. Working(r)
  BY <1>1 DEF Working, TInv, TurnFields
<1>3. issued' \in Nat /\ chosen' \subseteq [plan : Plans, terms : Terms]
  BY DEF TInv, TypeOK
<1> QED
  BY <1>1, <1>2, <1>3, WorkingTyped

LEMMA RevalidateTyped == ASSUME IInv, TInv, Revalidate PROVE TInv'
<1>1. pc = "checking" /\ UNCHANGED <<day, registry, sale, taken, rec, status, rows, chosen>>
  BY DEF Revalidate, domain
<1>2. CASE Present
  BY <1>1, <1>2, Running, PresentTyped
<1>3. ASSUME turn.rec # None, issued' = issued + 1,
             turn' = [turn EXCEPT !.rec = Presented(Requoted(turn.rec.offers)), !.fresh = TRUE],
             Replied
      PROVE  TInv'
  <2>1. PICK a, s, new, old : a = turn.action /\ s = turn.status /\ old = turn.rec
                              /\ new = Presented(Requoted(turn.rec.offers))
    OBVIOUS
  <2>2. Recommended(old)
    BY <1>3, <2>1 DEF TInv, TypeOK
  <2>3. Requoted(old.offers) \in [DOMAIN old.offers -> Quote \union {None}]
    <3>1. \A p \in DOMAIN old.offers : old.offers[p] \in Quote \union {None} /\ p \in Plans
      BY <2>2, RecommendedParts
    <3>2. \A p \in DOMAIN old.offers : Expired(old.offers[p]) =>
                                         NewQuote(p, old.offers[p].terms) \in Quote
      <4>1. SUFFICES ASSUME NEW p \in DOMAIN old.offers, Expired(old.offers[p])
                     PROVE  NewQuote(p, old.offers[p].terms) \in Quote
        OBVIOUS
      <4>2. old.offers[p].terms \in Terms
        BY <3>1, <4>1 DEF Expired, Quote
      <4> QED
        BY <3>1, <4>1, <4>2, NewQuoteTyped DEF TInv
    <3> QED
      BY <3>1, <3>2 DEF Requoted
  <2>4. Recommended(new)
    BY <2>1, <2>2, <2>3, PresentedTyped, RecommendedParts DEF TInv
  <2>5. turn' = [turn EXCEPT !.rec = new, !.fresh = TRUE]
    BY <1>3, <2>1
  <2>6. turn' = [action |-> a, rec |-> new, status |-> s, row |-> "none", fresh |-> TRUE]
    BY <1>1, <2>1, <2>5, Running
  <2>7. /\ a \in Action /\ s \in States /\ taken' \subseteq Quote /\ issued' \in Nat
        /\ chosen' \subseteq [plan : Plans, terms : Terms] /\ pc' = "closing"
    BY <1>1, <1>3, <2>1 DEF TInv, TypeOK, Replied
  <2> QED
    BY <1>1, <2>4, <2>6, <2>7, TurnTyped
<1>4. ASSUME turn.rec # None, pc' = "acting", UNCHANGED <<turn, issued>>
      PROVE  TInv'
  <2>1. Recommended(turn.rec)
    BY <1>4 DEF TInv, TypeOK
  <2> QED
    BY <1>1, <1>4, <2>1, GoesOnTyped
<1> QED
  BY <1>2, <1>3, <1>4 DEF Revalidate

\* A choice of a quote.
LEMMA SelectedTyped ==
  ASSUME IInv, TInv, pc = "acting", NEW q \in Quote, Selected(q), issued' \in Nat,
         UNCHANGED <<day, registry, sale, taken, rec, status, rows>>
  PROVE  TInv'
<1>1. PICK old : old = turn.rec
  OBVIOUS
<1>2. PICK new : new = [old EXCEPT !.selection = q]
  OBVIOUS
<1>3. Recommended(new) /\ new.selection = q
  BY <1>1, <1>2, SelectionTyped DEF TInv, QuoteHeld
<1>4. Working(new) /\ pc' \in {"handing", "closing"}
  BY <1>1, <1>2 DEF Selected
<1>5. chosen' \subseteq [plan : Plans, terms : Terms]
  BY DEF Selected, TInv, TypeOK, Quote
<1> QED
  BY <1>3, <1>4, <1>5, WorkingTyped

LEMMA ApplyTyped == ASSUME IInv, TInv, Apply PROVE TInv'
<1> DEFINE a == turn.action
<1>1. pc = "acting" /\ UNCHANGED <<day, registry, sale, taken, rec, status, rows>>
  BY DEF Apply, domain
<1>2. Recommended(turn.rec) /\ issued \in Nat
  BY <1>1 DEF TInv, QuoteHeld, TypeOK
<1>3. ASSUME Replied, UNCHANGED <<turn, issued, chosen>>
      PROVE  TInv'
  BY <1>1, <1>2, <1>3, GoesOnTyped DEF Replied
<1>4. ASSUME CanApply(a), AsOffered(a) # None, Selected(AsOffered(a)), UNCHANGED issued
      PROVE  TInv'
  <2>1. PICK q : q = AsOffered(a)
    OBVIOUS
  <2>2. q \in Quote
    <3>1. turn.rec.offers[PlanOf(a)] \in Quote \union {None}
      BY <1>2, <1>4, RecommendedParts DEF CanApply
    <3> QED
      BY <1>4, <2>1, <3>1 DEF AsOffered
  <2> QED
    BY <1>1, <1>2, <1>4, <2>1, <2>2, SelectedTyped
<1>5. ASSUME CanApply(a), TermsOf(a) \in Bounds[PlanOf(a)],
             Selected(NewQuote(PlanOf(a), TermsOf(a))), issued' = issued + 1
      PROVE  TInv'
  <2>1. PICK q : q = NewQuote(PlanOf(a), TermsOf(a))
    OBVIOUS
  <2>2. PlanOf(a) \in Plans
    BY <1>2, <1>5, RecommendedParts DEF CanApply
  <2>3. TermsOf(a) \in Terms
    BY <1>5, <2>2
  <2>4. q \in Quote
    BY <2>1, <2>2, <2>3, NewQuoteTyped DEF TInv
  <2> QED
    BY <1>1, <1>2, <1>5, <2>1, <2>4, SelectedTyped
<1> QED
  BY <1>3, <1>4, <1>5 DEF Apply

LEMMA AckTyped == ASSUME IInv, TInv, Ack PROVE TInv'
<1>0. PICK p, sel, old : p = turn.action.plan /\ sel = turn.rec.selection /\ old = turn.rec
  OBVIOUS
<1>1. PICK acked :
        acked = [old EXCEPT !.acks = @ \union {[plan |-> p, version |-> old.shown[p]]}]
  OBVIOUS
<1>2. pc = "acting" /\ UNCHANGED <<day, registry, sale, taken, rec, status, rows, chosen>>
  BY DEF Ack, domain
<1>3. Recommended(old) /\ issued \in Nat /\ chosen' \subseteq [plan : Plans, terms : Terms]
      /\ sel \in Quote \union {None}
  BY <1>0, <1>2, RecommendedParts DEF TInv, QuoteHeld, TypeOK
<1>4. p \in DOMAIN old.shown => Recommended(acked) /\ acked.selection = sel
  BY <1>0, <1>1, <1>3, AcksTyped
<1>5. ASSUME Replied, UNCHANGED <<turn, issued>>
      PROVE  TInv'
  BY <1>0, <1>2, <1>3, <1>5, GoesOnTyped DEF Replied
<1>6. CASE Present
  BY <1>2, <1>6, Running, PresentTyped
<1>7. ASSUME p \in DOMAIN old.shown, Working(acked), Replied, UNCHANGED issued
      PROVE  TInv'
  BY <1>2, <1>3, <1>4, <1>7, WorkingTyped DEF Replied
<1>8. ASSUME p \in DOMAIN old.shown, sel # None, sel.plan = p,
             Working([acked EXCEPT !.selection = NewQuote(p, sel.terms)]),
             issued' = issued + 1, Replied
      PROVE  TInv'
  <2>1. PICK new, q : q = NewQuote(p, sel.terms) /\ new = [acked EXCEPT !.selection = q]
    OBVIOUS
  <2>2. p \in Plans /\ sel.terms \in Terms
    BY <1>3, <1>8 DEF Quote
  <2>3. q \in Quote
    BY <2>1, <2>2, NewQuoteTyped DEF TInv
  <2>4. Recommended(new)
    BY <1>4, <1>8, <2>1, <2>3, SelectionTyped
  <2> QED
    BY <1>2, <1>3, <1>8, <2>1, <2>4, WorkingTyped DEF Replied
<1>9. ASSUME p \in DOMAIN old.shown, sel # None, Working(acked), pc' = "handing",
             UNCHANGED issued
      PROVE  TInv'
  BY <1>2, <1>3, <1>4, <1>9, WorkingTyped
<1> QED
  BY <1>0, <1>1, <1>5, <1>6, <1>7, <1>8, <1>9 DEF Ack

LEMMA ChoicesTyped == ASSUME IInv, TInv, Choices PROVE TInv'
<1>1. pc = "acting" /\ pc' = "closing" /\ Recommended(turn.rec)
      /\ UNCHANGED <<turn, day, registry, sale, issued, taken, rec, status, rows, chosen>>
  BY DEF Choices, Replied, domain, TInv, QuoteHeld
<1> QED
  BY <1>1, GoesOnTyped

LEMMA HandOffTyped == ASSUME IInv, TInv, HandOff PROVE TInv'
<1>1. pc = "handing" /\ Recommended(turn.rec) /\ turn.rec.selection \in Quote
      /\ UNCHANGED <<day, registry, sale, taken, rec, status, rows, chosen>>
  BY DEF HandOff, domain, TInv, QuoteHeld
<1>2. CASE Present
  BY <1>1, <1>2, Running, PresentTyped
<1>3. CASE pc' = "posting" /\ UNCHANGED <<turn, issued>>
  BY <1>1, <1>3, GoesOnTyped
<1> QED
  BY <1>2, <1>3 DEF HandOff

LEMMA PostTyped == ASSUME IInv, TInv, Post PROVE TInv'
<1>1. PICK a, r, f : a = turn.action /\ r = turn.rec /\ f \in {"APPLICATION_INTAKE", "INTAKE_PENDING"}
                     /\ turn'.row = f
                     /\ \/ turn' = [turn EXCEPT !.row = f, !.status = "HANDOFF"]
                        \/ turn' = [turn EXCEPT !.row = f]
  <2>1. CASE turn' = [turn EXCEPT !.row = "APPLICATION_INTAKE", !.status = "HANDOFF"]
    BY <2>1 DEF TInv, TurnFields
  <2>2. CASE turn' = [turn EXCEPT !.row = "INTAKE_PENDING"]
    BY <2>2 DEF TInv, TurnFields
  <2> QED
    BY <2>1, <2>2 DEF Post
<1>2. pc = "posting" /\ pc' = "closing" /\ r.selection \in Quote /\ Recommended(r)
      /\ UNCHANGED <<day, registry, sale, issued, rec, status, rows, chosen>>
  BY <1>1 DEF Post, Replied, domain, TInv, QuoteHeld
<1>3. taken' \subseteq Quote
  BY <1>1, <1>2 DEF Post, TInv, TypeOK
<1>4. \E s \in States :
        turn' = [action |-> a, rec |-> r, status |-> s, row |-> f, fresh |-> FALSE]
  <2>1. turn.status \in States /\ "HANDOFF" \in States
    BY DEF TInv, TypeOK, States
  <2> QED
    BY <1>1, <1>2, <2>1, Running
<1>5. a \in Action /\ f \in Reasons \union {"none"} /\ issued' \in Nat
      /\ chosen' \subseteq [plan : Plans, terms : Terms]
  BY <1>1, <1>2 DEF TInv, TypeOK, Reasons
<1> QED
  BY <1>2, <1>3, <1>4, <1>5, TurnTyped

\* Between turns.
LEMMA IdleTyped ==
  ASSUME TInv, pc' = "idle", turn' = NoTurn,
         rec' # None => Recommended(rec'), status' \in States,
         rows' \subseteq [quote : Quote, reason : Reasons],
         chosen' \subseteq [plan : Plans, terms : Terms],
         UNCHANGED <<day, registry, sale, issued, taken>>
  PROVE  TInv'
<1>1. /\ turn'.action \in Action /\ turn'.rec = None /\ turn'.status \in States
      /\ turn'.row = "none" /\ turn'.fresh \in BOOLEAN /\ TurnFields'
  BY DEF NoTurn, NoAction, Action, States, TurnFields
<1>2. TypeOK'
  BY <1>1 DEF TInv, TypeOK
<1>3. QuoteHeld'
  BY <1>1 DEF QuoteHeld
<1> QED
  BY <1>1, <1>2, <1>3 DEF TInv

LEMMA CommitTyped == ASSUME TInv, Commit PROVE TInv'
<1>1. pc' = "idle" /\ turn' = NoTurn /\ status' = turn.status
      /\ UNCHANGED <<day, registry, sale, issued, taken>>
  BY DEF Commit, domain
<1>2. rec' \in {turn.rec, None}
  BY DEF Commit
<1>3. rec' # None => Recommended(rec')
  BY <1>2 DEF TInv, TypeOK
<1>4. rows' \subseteq [quote : Quote, reason : Reasons]
  <2>1. CASE turn.row = "none"
    BY <2>1 DEF Commit, TInv, TypeOK
  <2>2. CASE turn.row # "none"
    <3>1. turn.rec.selection \in Quote /\ turn.row \in Reasons
      BY <2>2 DEF TInv, QuoteHeld, TypeOK
    <3>2. rows' = rows \union {[quote |-> turn.rec.selection, reason |-> turn.row]}
      BY <2>2 DEF Commit
    <3> QED
      BY <3>1, <3>2 DEF TInv, TypeOK
  <2> QED
    BY <2>1, <2>2
<1>5. chosen' \subseteq [plan : Plans, terms : Terms] /\ status' \in States
  BY <1>1 DEF Commit, TInv, TypeOK
<1> QED
  BY <1>1, <1>3, <1>4, <1>5, IdleTyped

LEMMA DownTyped == ASSUME IInv, TInv, Down PROVE TInv'
<1>1. PICK r \in {turn.rec, None}, s \in {"S3", "PAUSE"} :
        turn' = [turn EXCEPT !.rec = r, !.status = s]
  BY DEF Down
<1>2. PICK a : a = turn.action
  OBVIOUS
<1>3. pc \in {"checking", "acting", "handing"} /\ pc' = "closing"
      /\ UNCHANGED <<day, registry, sale, issued, taken, rec, status, rows, chosen>>
  BY DEF Down, Replied, domain
<1>4. turn' = [action |-> a, rec |-> r, status |-> s, row |-> "none", fresh |-> FALSE]
  BY <1>1, <1>2, <1>3, Running
<1>5. /\ a \in Action /\ s \in States /\ taken' \subseteq Quote /\ issued' \in Nat
      /\ (r # None => Recommended(r)) /\ chosen' \subseteq [plan : Plans, terms : Terms]
  BY <1>1, <1>2, <1>3 DEF TInv, TypeOK, States
<1> QED
  BY <1>3, <1>4, <1>5, TurnTyped

LEMMA DieTyped == ASSUME TInv, Die PROVE TInv'
<1>1. pc' = "idle" /\ turn' = NoTurn
      /\ UNCHANGED <<day, registry, sale, issued, taken, rec, status, rows, chosen>>
  BY DEF Die, domain
<1>2. (rec' # None => Recommended(rec')) /\ status' \in States
      /\ rows' \subseteq [quote : Quote, reason : Reasons]
      /\ chosen' \subseteq [plan : Plans, terms : Terms]
  BY <1>1 DEF TInv, TypeOK
<1> QED
  BY <1>1, <1>2, IdleTyped

\* The world moves while a turn runs.
LEMMA WorldTyped ==
  ASSUME TInv, Midnight \/ \E p \in Plans : Publish(p) \/ Withdraw(p)
  PROVE  TInv'
<1>1. UNCHANGED <<issued, taken, rec, status, rows, pc, turn, chosen>>
  BY DEF Midnight, Publish, Withdraw
<1>2. day' \in Nat /\ registry' \in [Plans -> Nat] /\ sale' \subseteq Plans
  BY DEF Midnight, Publish, Withdraw, TInv, TypeOK
<1>3. TypeOK'
  BY <1>1, <1>2 DEF TInv, TypeOK
<1> QED
  BY <1>1, <1>3 DEF TInv, TurnFields, QuoteHeld

LEMMA InitTyped == Init => TInv
<1>1. Init => TypeOK
  <2>1. NoTurn.action \in Action /\ "S3" \in States /\ [p \in Plans |-> 1] \in [Plans -> Nat]
    BY DEF NoTurn, NoAction, Action, States
  <2> QED
    BY <2>1 DEF Init, TypeOK, NoTurn
<1> QED
  BY <1>1 DEF Init, TInv, TurnFields, QuoteHeld, NoTurn

\* The types: whatever the registry publishes, the market withdraws and the turns lose, what the
\* session, the turn, conv.handoff and the journey hold are a recommendation with an option, quotes
\* of a plan and terms, and the actions the API lets through.
THEOREM OptionsTyped == Spec => []TypeOK
<1>1. IInv /\ TInv /\ [Next]_vars => TInv'
  <2>1. SUFFICES ASSUME IInv, TInv, [Next]_vars PROVE TInv'
    OBVIOUS
  <2>2. CASE Begin \/ Save \/ Resume
    BY <2>1, <2>2, BeginTyped
  <2>3. CASE Revalidate
    BY <2>1, <2>3, RevalidateTyped
  <2>4. CASE Apply
    BY <2>1, <2>4, ApplyTyped
  <2>5. CASE Ack
    BY <2>1, <2>5, AckTyped
  <2>6. CASE Choices
    BY <2>1, <2>6, ChoicesTyped
  <2>7. CASE HandOff
    BY <2>1, <2>7, HandOffTyped
  <2>8. CASE Post
    BY <2>1, <2>8, PostTyped
  <2>9. CASE Commit
    BY <2>1, <2>9, CommitTyped
  <2>10. CASE Down
    BY <2>1, <2>10, DownTyped
  <2>11. CASE Die
    BY <2>1, <2>11, DieTyped
  <2>12. CASE Midnight \/ \E p \in Plans : Publish(p) \/ Withdraw(p)
    BY <2>1, <2>12, WorldTyped
  <2>13. CASE UNCHANGED vars
    <3>1. UNCHANGED <<day, registry, sale, issued, taken, rec, status, rows, pc, turn, chosen>>
      BY <2>13 DEF vars
    <3>2. TypeOK'
      BY <2>1, <3>1 DEF TInv, TypeOK
    <3> QED
      BY <2>1, <3>1, <3>2 DEF TInv, TurnFields, QuoteHeld
  <2> QED
    BY <2>1, <2>2, <2>3, <2>4, <2>5, <2>6, <2>7, <2>8, <2>9, <2>10, <2>11, <2>12, <2>13
       DEF Next, Steps
<1>2. TInv => TypeOK
  BY DEF TInv
<1> QED
  BY <1>1, <1>2, InitTyped, OptionsInvariant, PTL DEF Spec

=============================================================================
