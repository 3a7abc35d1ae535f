---------------------------- MODULE ReplyProofs -----------------------------
(***************************************************************************)
(* What leaves is vetted and the chain's verdicts say so, for every set of  *)
(* texts, evidence and options, whatever fails, is written again or changes *)
(* under way.  The turn's facts are followed through its steps: what the    *)
(* reply was made from, what the model was shown, which attempts were       *)
(* judged and how.                                                          *)
(***************************************************************************)
EXTENDS Reply, TLAPS

Overs == {None, "crisis", "overlong", "identity"}

Replies ==
  [by : {"template", "approved", "side", "options", "phrase"}, ranking : Rankings \union {NoRanking},
   found : Handles, handles : Handles, saw : Handles, all : BOOLEAN, reads : BOOLEAN, over : Overs]

Actions == {"pass", "regenerate", "fallback", "skipped", "not_sampled", "block"}
Verdicts == [rail : {"lexicon", "grounding", "nli", "disclosure", "guard", "leak", "dummy"},
             action : Actions]

Before == {"idle", "analyse", "retrieve", "generate", "compose"}
After == {"render", "guard", "commit"}

Typed ==
  /\ TypeOK
  /\ reply \in Replies /\ audited \in Seq(Verdicts)
  /\ at = "analyse" => message \in Messages
  /\ offered \in Recommendations \union {None}

----------------------------------------------------------------------------
(* The recommendation, and what the reply is made from. *)

\* A recommendation held is the one last offered, with its disclosures.
Held(s) ==
  s.rec # None => s.rec = offered /\ s.rec.options # {} /\ s.rec.options \subseteq s.rec.sets

\* A turn works on the session, less the recommendation it may have dropped.
Works ==
  /\ Held(session) /\ Held(work)
  /\ at \in {"idle", "analyse"} => work = session

\* The model writes outside S0 only.
Drafting ==
  /\ at \in {"retrieve", "generate"} \/ draft # None => work.state # "S0"
  /\ at \in Before \ {"compose"} => draft = None

\* Products among a reply's facts are those of the options it shows or of the recommendation held.
Stocked(h) ==
  work.state = "S3" =>
    h.facts \intersect Products \subseteq
      IF reply.ranking # NoRanking THEN reply.ranking.options
      ELSE IF work.rec = None THEN {} ELSE work.rec.options

MadeFrom ==
  /\ Stocked(reply.found) /\ Stocked(reply.handles)
  /\ at = "retrieve" => reply.handles = NoHandles

\* While the model has written something, it was shown the handles issued.
Shown == draft # None => reply.saw = reply.handles

----------------------------------------------------------------------------
(* The attempts and their verdicts. *)

Vetted(t) == Lexicon(t, reply.handles) /\ Grounding(t, reply.handles)

Clean(i) == \A j \in (3 * i - 2)..(3 * i) : audited[j].action \notin Bad

\* The first of two attempts: sent back, and not held.
SentBack ==
  /\ \E j \in 1..3 : audited[j].action = "regenerate"
  /\ \A j \in 1..3 : audited[j].action # "fallback"

\* The last attempt judged passed, or ended with a fallback.
PassedWith(n) ==
  /\ n = attempt /\ Clean(n) /\ chosen = draft /\ Vetted(chosen)
  /\ Due => audited[3 * n] = Verdict("nli", "pass")

FailedWith(n) ==
  \/ n = attempt - 1
  \/ /\ n = attempt /\ ~Clean(n)
     /\ \A j \in (3 * n - 2)..(3 * n) : audited[j].action # "regenerate"

Concluded(n) == IF chosen = None THEN FailedWith(n) ELSE PassedWith(n)

Extra == IF at = "commit" THEN 4 ELSE 0

Tried ==
  /\ at \in Before => attempt = 1 /\ audited = <<>> /\ chosen = None
  /\ at \in {"check", "judge", "regenerate"} => chosen = None
  /\ at = "check" => Len(audited) = 3 * (attempt - 1)
  /\ at = "judge" =>
       /\ draft # None /\ Vetted(draft)
       /\ Len(audited) = 3 * attempt - 1
       /\ \A j \in (3 * attempt - 2)..(3 * attempt - 1) : audited[j].action = "pass"
  /\ at = "regenerate" => attempt = 1 /\ Len(audited) = 3 /\ draft # None
  /\ at = "regenerate" \/ attempt = 2 => Len(audited) >= 3 /\ SentBack
  /\ at \in After => \E n \in 0..2 : Len(audited) = 3 * n + Extra /\ Concluded(n)

\* Rail 8 has spoken on what leaks and on what was not disclosed.
Guarded ==
  at = "commit" =>
    /\ chosen # None /\ chosen.echoes => Blocked
    /\ ~(reply.ranking.options \subseteq reply.ranking.sets) => Blocked

IInv ==
  /\ Typed
  /\ Works /\ Drafting /\ MadeFrom /\ Shown
  /\ Tried /\ Guarded
  /\ ReleaseIsSound

----------------------------------------------------------------------------
(* The trail grows at its end. *)

LEMMA Longer ==
  ASSUME NEW s \in Seq(Verdicts), NEW v \in Verdicts
  PROVE  /\ Append(s, v) \in Seq(Verdicts) /\ Len(Append(s, v)) = Len(s) + 1
         /\ \A i \in 1..Len(s) : Append(s, v)[i] = s[i]
         /\ Append(s, v)[Len(s) + 1] = v
OBVIOUS

LEMMA TwoMore ==
  ASSUME NEW s \in Seq(Verdicts), NEW v \in Verdicts, NEW w \in Verdicts
  PROVE  /\ s \o <<v, w>> \in Seq(Verdicts) /\ Len(s \o <<v, w>>) = Len(s) + 2
         /\ \A i \in 1..Len(s) : (s \o <<v, w>>)[i] = s[i]
         /\ (s \o <<v, w>>)[Len(s) + 1] = v /\ (s \o <<v, w>>)[Len(s) + 2] = w
OBVIOUS

LEMMA FourMore ==
  ASSUME NEW s \in Seq(Verdicts), NEW a \in Verdicts, NEW b \in Verdicts, NEW c \in Verdicts,
         NEW d \in Verdicts, NEW t, t = s \o <<a, b, c, d>>
  PROVE  /\ t \in Seq(Verdicts) /\ Len(t) = Len(s) + 4
         /\ \A i \in 1..Len(s) : t[i] = s[i]
         /\ t[Len(s) + 1] = a /\ t[Len(s) + 2] = b /\ t[Len(s) + 3] = c /\ t[Len(s) + 4] = d
OBVIOUS

LEMMA VerdictTyped ==
  ASSUME NEW rail \in {"lexicon", "grounding", "nli", "disclosure", "guard", "leak", "dummy"},
         NEW action \in Actions
  PROVE  /\ Verdict(rail, action) \in Verdicts
         /\ Verdict(rail, action).rail = rail /\ Verdict(rail, action).action = action
BY DEF Verdict, Verdicts

\* What was released stays as it was judged while no other reply is.
LEMMA StaysSound ==
  ASSUME ReleaseIsSound, UNCHANGED <<out, offered>> PROVE ReleaseIsSound'
BY Zenon DEF ReleaseIsSound, VettedText, AuditTellsTheReply

LEMMA NothingTyped ==
  /\ Nothing \in Replies /\ NoHandles \in Handles
  /\ Nothing.handles = NoHandles /\ Nothing.found = NoHandles /\ Nothing.saw = NoHandles
  /\ Nothing.ranking = NoRanking
BY DEF Nothing, Replies, Handles, NoHandles, Overs

LEMMA Empty == NoHandles.facts = {} /\ Stocked(NoHandles) /\ Stocked(NoHandles)'
BY DEF NoHandles, Stocked

LEMMA RankingShowsOptions ==
  \A r \in Rankings : r # NoRanking /\ r.options # {} /\ r.options \subseteq Products
                     /\ r.sets \subseteq Products
BY ReplyAssumption DEF NoRanking

LEMMA InitHolds == Init => IInv
<1> SUFFICES ASSUME Init PROVE IInv
  OBVIOUS
<1>1. session \in Sessions /\ session.rec = None
  <2>1. PICK s \in States : session = [Fresh EXCEPT !.state = s]
    BY DEF Init
  <2>2. session = [state |-> s, rec |-> None, value |-> None, open |-> FALSE, asked |-> 0]
    BY <2>1 DEF Fresh
  <2>3. 0 \in 0..(OfferAfter - 1)
    BY ReplyAssumption
  <2> QED BY <2>2, <2>3 DEF Sessions
<1>2. Typed
  BY <1>1, NothingTyped DEF Init, Typed, TypeOK, Replies
<1>3. Works /\ Drafting /\ MadeFrom /\ Shown
  BY <1>1, NothingTyped, Empty DEF Init, Works, Held, Drafting, MadeFrom, Shown, Before
<1>4. Tried /\ Guarded /\ ReleaseIsSound
  BY DEF Init, Tried, Guarded, Before, After, ReleaseIsSound, VettedText, AuditTellsTheReply
<1> QED BY <1>2, <1>3, <1>4 DEF IInv

----------------------------------------------------------------------------
(* A step that ends the turn without a reply, and the next message. *)

\* Nothing of the turn is left when it has ended.
LEMMA Ended ==
  ASSUME Cleared, Held(session)', session' \in Sessions, work' = session',
         offered' \in Recommendations \union {None}, ReleaseIsSound'
  PROVE  IInv'
<1>1. Typed'
  BY NothingTyped DEF Cleared, Typed, TypeOK, Replies
<1>2. (Works /\ Drafting /\ MadeFrom /\ Shown)'
  BY NothingTyped, Empty DEF Cleared, Works, Held, Drafting, MadeFrom, Shown, Before
<1>3. (Tried /\ Guarded)'
  BY DEF Cleared, Tried, Guarded, Before, After
<1> QED BY <1>1, <1>2, <1>3 DEF IInv

LEMMA FailsKeeps == IInv /\ Fails => IInv'
<1> SUFFICES ASSUME IInv, Fails PROVE IInv'
  OBVIOUS
<1>1. Held(session)' /\ session' \in Sessions /\ offered' \in Recommendations \union {None}
  BY DEF IInv, Fails, stored, Works, Held, Typed, TypeOK
<1>2. ReleaseIsSound'
  BY StaysSound DEF IInv, Fails, stored
<1> QED BY <1>1, <1>2, Ended DEF Fails, stored

LEMMA ReceiveKeeps ==
  ASSUME IInv, NEW m \in Messages, Receive(m) PROVE IInv'
<1>1. Typed'
  BY DEF IInv, Receive, Typed, TypeOK
<1>2. (Works /\ Drafting /\ MadeFrom /\ Shown)'
  BY DEF IInv, Receive, Works, Held, Drafting, MadeFrom, Stocked, Shown, Before
<1>3. (Tried /\ Guarded)'
  BY DEF IInv, Receive, Tried, Guarded, Before, After
<1>4. ReleaseIsSound'
  BY DEF Receive, ReleaseIsSound, VettedText, AuditTellsTheReply
<1> QED BY <1>1, <1>2, <1>3, <1>4 DEF IInv

----------------------------------------------------------------------------
(* The message is taken: the turn's copy changes, what is recommended at most drops. *)

LEMMA TookTyped ==
  ASSUME NEW s \in Sessions, NEW said, NEW lookup \in BOOLEAN
  PROVE  Took(s, said, lookup) \in Sessions /\ Took(s, said, lookup).rec = s.rec
<1>1. CASE said = "yes" /\ s.open
  BY <1>1 DEF Took, Sessions
<1>2. CASE ~(said = "yes" /\ s.open)
  <2> DEFINE value == IF said \in Values THEN said ELSE s.value
             open == s.open \/ (value # None /\ lookup)
  <2>1. value \in Values \union {None} /\ open \in BOOLEAN
    BY DEF Sessions
  <2>2. Took(s, said, lookup) = [s EXCEPT !.value = value, !.open = open]
    BY <1>2 DEF Took
  <2> HIDE DEF value, open
  <2> QED BY <2>1, <2>2 DEF Sessions
<1> QED BY <1>1, <1>2

LEMMA CountedTyped ==
  ASSUME NEW n \in 0..(OfferAfter - 1) PROVE Counted(n) \in 0..(OfferAfter - 1)
BY ReplyAssumption DEF Counted

LEMMA AnalyseKeeps ==
  ASSUME IInv, NEW guard, NEW nlu \in BOOLEAN, NEW parsed \in BOOLEAN, NEW lookup \in BOOLEAN,
         NEW next \in States, NEW stale \in BOOLEAN, Analyse(guard, nlu, parsed, lookup, next, stale)
  PROVE  IInv'
<1> DEFINE over == IF Crisis(guard, nlu) THEN "crisis" ELSE message.over
           from == session.state
           said == IF from \in {"S1", "S2"} THEN Heard(guard, nlu, parsed) ELSE None
           runs == over \notin {"overlong", "crisis"}
           s == IF runs /\ from \in {"S1", "S2"} THEN Took(session, said, lookup) ELSE session
           asks == message.side /\ ~Injected(guard) /\ ~Unsafe(guard)
                     /\ (nlu \/ from \in {"S0", "S3"})
           presents == next = "S3" /\ (from = "S3" => over = None /\ (s.rec = None \/ stale))
           answers == asks /\ over = None /\ ~presents
           searches == answers /\ from # "S0"
           rec == IF presents THEN None ELSE s.rec
           asked == IF answers THEN Counted(s.asked) ELSE IF asks THEN s.asked ELSE 0
           by == IF presents THEN "options"
                 ELSE IF searches THEN "side" ELSE IF answers THEN "approved" ELSE "template"
           reads == /\ s.open /\ runs /\ lookup
                    /\ answers => Counted(session.asked) # 0
<1>1. /\ work' = [s EXCEPT !.state = next, !.rec = rec, !.asked = asked]
      /\ reply' = [Nothing EXCEPT !.by = by, !.reads = reads, !.over = over]
      /\ at' = IF presents \/ searches THEN "retrieve" ELSE "compose"
  BY Zenon DEF Analyse
<1>2. /\ at = "analyse" /\ message' = None /\ UNCHANGED stored
      /\ draft' = draft /\ attempt' = attempt /\ chosen' = chosen /\ audited' = audited
  BY Zenon DEF Analyse
<1>3. presents \/ searches <=> at' = "retrieve"
  <2> HIDE DEF presents, searches
  <2> QED BY <1>1
<1>4. at' \in {"retrieve", "compose"}
  <2> HIDE DEF presents, searches
  <2> QED BY <1>1
<1>5. s \in Sessions /\ s.rec = session.rec
  BY TookTyped DEF IInv, Typed, TypeOK
<1>6. over \in Overs /\ by \in {"template", "approved", "side", "options", "phrase"}
      /\ reads \in BOOLEAN
  <2>1. message.over \in {None, "overlong", "identity"}
    BY <1>2 DEF IInv, Typed, Messages
  <2>2. over \in Overs
    BY <2>1 DEF Overs
  <2> HIDE DEF presents, searches, answers, over, s, runs
  <2>3. by \in {"template", "approved", "side", "options", "phrase"}
    OBVIOUS
  <2>4. reads \in BOOLEAN
    OBVIOUS
  <2> QED BY <2>2, <2>3, <2>4
<1>7. asked \in 0..(OfferAfter - 1) /\ rec \in {None, s.rec}
  BY <1>5, CountedTyped, ReplyAssumption DEF Sessions
<1>8. presents \/ searches => next # "S0"
  <2>1. next # from => ~asks
    BY Zenon DEF Analyse
  <2> HIDE DEF asks, over, s
  <2>2. presents => next = "S3"
    BY Zenon
  <2>3. searches => asks /\ from # "S0"
    BY Zenon
  <2> QED BY <2>1, <2>2, <2>3
<1> HIDE DEF s, over, by, reads, asked, rec, presents, searches
<1>9. work' \in Sessions /\ work'.rec \in {None, session.rec} /\ work'.state = next
  BY <1>1, <1>5, <1>7 DEF Sessions
<1>10. reply' \in Replies /\ reply'.handles = NoHandles /\ reply'.found = NoHandles
      /\ reply'.saw = NoHandles /\ reply'.ranking = NoRanking
  BY <1>1, <1>6, NothingTyped DEF Replies
<1>11. Typed'
  BY <1>2, <1>4, <1>9, <1>10 DEF IInv, Typed, TypeOK, stored, Replies
<1>12. (Works /\ Drafting /\ MadeFrom /\ Shown)'
  <2>1. Works'
    BY <1>2, <1>4, <1>9 DEF IInv, Works, Held, stored
  <2>2. (Drafting /\ Shown)'
    BY <1>2, <1>3, <1>4, <1>8, <1>9 DEF IInv, Drafting, Shown, Before
  <2>3. MadeFrom'
    BY <1>10, Empty DEF MadeFrom, Stocked, NoHandles
  <2> QED BY <2>1, <2>2, <2>3
<1>13. (Tried /\ Guarded)'
  BY <1>2, <1>4 DEF IInv, Tried, Guarded, Before, After
<1>14. ReleaseIsSound'
  BY <1>2, StaysSound DEF IInv, stored
<1> QED BY <1>11, <1>12, <1>13, <1>14 DEF IInv

----------------------------------------------------------------------------
(* The draft: what is retrieved, shown and written. *)

LEMMA RetrieveKeeps ==
  ASSUME IInv, NEW found \in (SUBSET Chunks) \union {None}, NEW ranking \in Rankings,
         Retrieve(found, ranking)
  PROVE  IInv'
<1> DEFINE ranked == IF reply.by = "options" THEN ranking.options
                     ELSE IF work.state = "S3" /\ work.rec # None THEN work.rec.options ELSE {}
           chunks == IF found = None THEN {} ELSE found
           stock == [chunks |-> chunks, facts |-> EngineFacts(ranked)]
           shows == IF reply.by = "options" THEN ranking ELSE NoRanking
           refused == reply.by = "side" /\ found = None
           all == reply.by = "side"
<1>1. /\ at = "retrieve" /\ UNCHANGED <<stored, message, work, draft, attempt, chosen, audited>>
      /\ refused => reply' = [reply EXCEPT !.by = "approved"] /\ at' = "compose"
      /\ ~refused => /\ reply' = [reply EXCEPT !.found = stock, !.all = all, !.ranking = shows]
                     /\ at' = "generate"
  BY Zenon DEF Retrieve
<1>2. ranked \subseteq Products /\ chunks \subseteq Chunks /\ all \in BOOLEAN
  BY RankingShowsOptions DEF IInv, Typed, TypeOK, Sessions, Recommendations
<1>3. stock \in Handles /\ stock.facts \intersect Products \subseteq ranked
      /\ shows \in Rankings \union {NoRanking}
  BY <1>2, ReplyAssumption DEF Handles, EngineFacts, Facts
<1>4. IF shows # NoRanking THEN ranked = shows.options
      ELSE work.state = "S3" => ranked = IF work.rec = None THEN {} ELSE work.rec.options
  BY RankingShowsOptions
<1>5. reply \in Replies /\ work \in Sessions /\ Handles # {} /\ reply.handles = NoHandles
  BY <1>1 DEF IInv, Typed, TypeOK, MadeFrom
<1> HIDE DEF stock, shows, all, ranked, chunks
<1>6. CASE refused
  <2>1. /\ reply' \in Replies /\ reply'.ranking = reply.ranking /\ reply'.found = reply.found
        /\ reply'.handles = reply.handles /\ reply'.saw = reply.saw
    BY <1>1, <1>5, <1>6 DEF Replies
  <2>2. Typed'
    BY <1>1, <1>6, <2>1 DEF IInv, Typed, TypeOK, stored, Replies
  <2>3. (Works /\ Drafting /\ Shown)'
    BY <1>1, <1>6, <2>1 DEF IInv, Works, Held, Drafting, Shown, stored, Before
  <2>4. MadeFrom'
    BY <1>1, <1>6, <2>1 DEF IInv, MadeFrom, Stocked
  <2>5. (Tried /\ Guarded)'
    BY <1>1, <1>6 DEF IInv, Tried, Guarded, Before, After
  <2> QED BY <1>1, <2>2, <2>3, <2>4, <2>5, StaysSound DEF IInv, stored
<1>7. CASE ~refused
  <2>1. /\ reply' \in Replies /\ reply'.ranking = shows /\ reply'.found = stock
        /\ reply'.handles = reply.handles /\ reply'.saw = reply.saw
    BY <1>1, <1>3, <1>5, <1>7, <1>2 DEF Replies
  <2>2. Typed'
    BY <1>1, <1>7, <2>1 DEF IInv, Typed, TypeOK, stored, Replies
  <2>3. (Works /\ Drafting /\ Shown)'
    BY <1>1, <1>7, <2>1 DEF IInv, Works, Held, Drafting, Shown, stored, Before
  <2>4. MadeFrom'
    <3>1. Stocked(reply.found)'
      BY <1>1, <1>3, <1>4, <2>1 DEF Stocked
    <3>2. Stocked(reply.handles)'
      BY <1>5, <2>1, Empty DEF Stocked
    <3> QED BY <1>1, <1>7, <3>1, <3>2 DEF MadeFrom
  <2>5. (Tried /\ Guarded)'
    BY <1>1, <1>7 DEF IInv, Tried, Guarded, Before, After
  <2> QED BY <1>1, <2>2, <2>3, <2>4, <2>5, StaysSound DEF IInv, stored
<1> QED BY <1>6, <1>7

\* A step that leaves the session, the message taken and the rails alone.
DraftingOnly ==
  /\ UNCHANGED <<stored, message, work, attempt, chosen, audited>>
  /\ at \in Before \ {"idle", "analyse"} /\ at' \in {"generate", "compose", "check"}

LEMMA DraftedKeeps ==
  ASSUME IInv, DraftingOnly, reply' \in Replies, draft' \in Texts \union {None},
         (Drafting /\ MadeFrom /\ Shown)'
  PROVE  IInv'
<1>1. Typed'
  BY DEF IInv, DraftingOnly, Typed, TypeOK, stored, Replies
<1>2. Works'
  BY DEF IInv, DraftingOnly, Works, Held, stored
<1>3. (Tried /\ Guarded)'
  BY DEF IInv, DraftingOnly, Tried, Guarded, Before, After, SentBack
<1> QED BY <1>1, <1>2, <1>3, StaysSound DEF IInv, DraftingOnly, stored

LEMMA NoEnvelopeKeeps == IInv /\ NoEnvelope => IInv'
<1> SUFFICES ASSUME IInv, NoEnvelope PROVE IInv'
  OBVIOUS
<1>1. DraftingOnly /\ draft' = None /\ at = "generate" /\ at' \in {"check", "compose"}
      /\ reply' = [reply EXCEPT !.handles = reply.found]
  BY DEF NoEnvelope, Draft, DraftingOnly, Before
<1>2. /\ reply' \in Replies /\ reply'.ranking = reply.ranking
      /\ reply'.found = reply.found /\ reply'.handles = reply.found
  BY <1>1 DEF IInv, Typed, Replies
<1>3. (Drafting /\ MadeFrom /\ Shown)'
  BY <1>1, <1>2 DEF IInv, Drafting, MadeFrom, Stocked, Shown, Before, DraftingOnly
<1> QED BY <1>1, <1>2, <1>3, DraftedKeeps

LEMMA GenerateKeeps ==
  ASSUME IInv, NEW shown \in SUBSET Chunks, NEW text \in Texts \union {None}, Generate(shown, text)
  PROVE  IInv'
<1> DEFINE carried == [chunks |-> shown, facts |-> reply.found.facts]
<1>1. DraftingOnly /\ draft' = text /\ at = "generate" /\ at' \in {"check", "compose"}
      /\ reply' = [reply EXCEPT !.handles = carried, !.saw = carried]
  BY DEF Generate, Draft, DraftingOnly, Before
<1>2. carried \in Handles /\ carried.facts = reply.found.facts
  BY DEF IInv, Typed, TypeOK, Handles
<1> HIDE DEF carried
<1>3. /\ reply' \in Replies /\ reply'.ranking = reply.ranking
      /\ reply'.found = reply.found /\ reply'.handles = carried /\ reply'.saw = carried
  BY <1>1, <1>2 DEF IInv, Typed, Replies
<1>4. (Drafting /\ MadeFrom /\ Shown)'
  BY <1>1, <1>2, <1>3 DEF IInv, Drafting, MadeFrom, Stocked, Shown, Before, DraftingOnly
<1> QED BY <1>1, <1>3, <1>4, DraftedKeeps

LEMMA ComposeKeeps ==
  ASSUME IInv, NEW phrased \in BOOLEAN, Compose(phrased) PROVE IInv'
<1>1. CASE reply.by \in {"side", "options"} /\ reply.over = None
  <2>1. DraftingOnly /\ at' = "check" /\ UNCHANGED <<reply, draft>>
    BY <1>1 DEF Compose, DraftingOnly, Before
  <2>2. (Drafting /\ MadeFrom /\ Shown)'
    BY <2>1 DEF IInv, Drafting, MadeFrom, Stocked, Shown, Before, DraftingOnly
  <2> QED BY <2>1, <2>2, DraftedKeeps DEF IInv, Typed, TypeOK
<1>2. CASE ~(reply.by \in {"side", "options"} /\ reply.over = None)
  <2> DEFINE phrase == /\ phrased /\ reply.by = "template" /\ reply.over = None
                       /\ work.state \in {"S1", "S2"} /\ ~reply.reads
             by == IF phrase THEN "phrase" ELSE "template"
  <2>1. /\ reply' = [Nothing EXCEPT !.by = by, !.reads = reply.reads, !.over = reply.over]
        /\ draft' = None /\ at' = IF phrase THEN "generate" ELSE "check"
    BY <1>2, Zenon DEF Compose, Draft
  <2>2. at = "compose" /\ UNCHANGED <<stored, message, work, attempt, chosen, audited>>
    BY DEF Compose
  <2>3. phrase => work.state # "S0"
    BY Zenon
  <2>4. by \in {"phrase", "template"} /\ reply.over \in Overs /\ reply.reads \in BOOLEAN
    BY DEF IInv, Typed, Replies
  <2> HIDE DEF phrase, by
  <2>5. at' \in {"generate", "check"} /\ (at' = "generate" => work.state # "S0")
    BY <2>1, <2>3
  <2>6. /\ reply' \in Replies /\ reply'.handles = NoHandles /\ reply'.found = NoHandles
    BY <2>1, <2>4, NothingTyped DEF Replies
  <2>7. DraftingOnly
    BY <2>2, <2>5 DEF DraftingOnly, Before
  <2>8. (Drafting /\ MadeFrom /\ Shown)'
    BY <2>1, <2>2, <2>5, <2>6, Empty DEF Drafting, MadeFrom, Stocked, Shown, Before
  <2> QED BY <2>1, <2>6, <2>7, <2>8, DraftedKeeps
<1> QED BY <1>1, <1>2

----------------------------------------------------------------------------
(* The rails: what was drafted is judged, written again at most once, and shown or not. *)

\* A step of the rails leaves the reply's material and the session alone.
Judging ==
  /\ UNCHANGED <<stored, message, work, reply>>
  /\ at \notin Before
  /\ at' \in {"check", "judge", "regenerate", "render", "guard", "commit"}

LEMMA JudgedKeeps ==
  ASSUME IInv, Judging, draft' \in Texts \union {None}, draft' # None => draft # None,
         chosen' \in Texts \union {None}, attempt' \in {1, 2}, audited' \in Seq(Verdicts),
         Tried', Guarded'
  PROVE  IInv'
<1>1. Typed'
  BY DEF IInv, Judging, Typed, TypeOK, stored, Replies
<1>2. Works'
  BY DEF IInv, Judging, Works, Held, stored
<1>3. (Drafting /\ MadeFrom /\ Shown)'
  BY DEF IInv, Judging, Drafting, MadeFrom, Stocked, Shown, Before
<1> QED BY <1>1, <1>2, <1>3, StaysSound DEF IInv, Judging, stored

\* The first attempt's verdicts stay when more follow.
LEMMA StaysSentBack ==
  ASSUME SentBack, Len(audited) >= 3, audited \in Seq(Verdicts),
         \A i \in 1..Len(audited) : audited'[i] = audited[i]
  PROVE  SentBack'
BY DEF SentBack

LEMMA NoTextKeeps == IInv /\ NoText => IInv'
<1> SUFFICES ASSUME IInv, NoText PROVE IInv'
  OBVIOUS
<1>1. Judging /\ UNCHANGED <<draft, chosen, attempt, audited>> /\ at = "check" /\ at' = "render"
  BY DEF NoText, Judging, Before
<1>2. attempt \in {1, 2} /\ chosen = None /\ Len(audited) = 3 * (attempt - 1)
      /\ (attempt = 2 => Len(audited) >= 3 /\ SentBack)
  BY <1>1 DEF IInv, Typed, TypeOK, Tried
<1>3. Tried'
  <2>1. attempt - 1 \in 0..2 /\ FailedWith(attempt - 1)'
    BY <1>1, <1>2 DEF FailedWith
  <2>2. (\E n \in 0..2 : Len(audited) = 3 * n + Extra /\ Concluded(n))'
    BY <1>1, <1>2, <2>1 DEF Concluded, Extra
  <2> QED BY <1>1, <1>2, <2>2 DEF Tried, Before, After, SentBack
<1> QED BY <1>1, <1>3, JudgedKeeps DEF IInv, Typed, TypeOK, Guarded

LEMMA JudgedAction ==
  ASSUME NEW ok \in BOOLEAN, attempt \in {1, 2}
  PROVE  /\ Judged(ok) \in Actions
         /\ ok => Judged(ok) = "pass"
         /\ ~ok => Judged(ok) = IF attempt = 2 THEN "fallback" ELSE "regenerate"
         /\ attempt = 1 => Judged(ok) # "fallback"
         /\ attempt = 2 => Judged(ok) # "regenerate"
BY DEF Judged, Consequence, Actions

LEMMA CheckKeeps == IInv /\ Check => IInv'
<1> SUFFICES ASSUME IInv, Check PROVE IInv'
  OBVIOUS
<1> DEFINE lexical == Lexicon(draft, reply.handles)
           grounded == Grounding(draft, reply.handles)
           v == Verdict("lexicon", Judged(lexical))
           w == Verdict("grounding", Judged(grounded))
           n == Verdict("nli", "skipped")
           len == Len(audited)
<1>1. /\ at = "check" /\ draft # None
      /\ UNCHANGED <<stored, message, work, reply, draft, attempt, chosen>>
      /\ lexical /\ grounded => audited' = audited \o <<v, w>> /\ at' = "judge"
      /\ ~(lexical /\ grounded) =>
           /\ audited' = audited \o <<v, w>> \o <<n>>
           /\ at' = IF attempt = 2 THEN "render" ELSE "regenerate"
  BY Zenon DEF Check
<1>2. attempt \in {1, 2} /\ chosen = None /\ len = 3 * (attempt - 1) /\ audited \in Seq(Verdicts)
      /\ (attempt = 2 => len >= 3 /\ SentBack)
  BY <1>1 DEF IInv, Typed, TypeOK, Tried
<1>3. lexical \in BOOLEAN /\ grounded \in BOOLEAN
  BY DEF Lexicon, Grounding
<1> HIDE DEF lexical, grounded
<1>4. v \in Verdicts /\ w \in Verdicts /\ n \in Verdicts
      /\ v.action = Judged(lexical) /\ w.action = Judged(grounded) /\ n.action = "skipped"
  BY <1>2, <1>3, JudgedAction, VerdictTyped DEF Actions
<1> HIDE DEF v, w, n
<1>5. CASE lexical /\ grounded
  <2>1. /\ audited' \in Seq(Verdicts) /\ Len(audited') = len + 2
        /\ \A i \in 1..len : audited'[i] = audited[i]
        /\ audited'[len + 1] = v /\ audited'[len + 2] = w
    BY <1>1, <1>2, <1>4, <1>5, TwoMore
  <2>2. v.action = "pass" /\ w.action = "pass"
    BY <1>2, <1>3, <1>4, <1>5, JudgedAction
  <2>3. Vetted(draft)'
    BY <1>1, <1>5 DEF Vetted, Lexicon, Grounding, lexical, grounded, Allowed, Fillable, Sourced,
                     Factual, Issued
  <2>4. attempt = 2 => SentBack'
    BY <1>2, <2>1, StaysSentBack
  <2>5. Tried'
    <3>1. \A j \in (3 * attempt - 2)..(3 * attempt - 1) : j = len + 1 \/ j = len + 2
      BY <1>2
    <3> QED BY <1>1, <1>2, <1>5, <2>1, <2>2, <2>3, <2>4, <3>1 DEF Tried, Before, After
  <2> QED BY <1>1, <1>5, <2>1, <2>5, JudgedKeeps DEF IInv, Typed, TypeOK, Guarded, Judging, Before
<1>6. CASE ~(lexical /\ grounded)
  <2>1. /\ audited \o <<v, w>> \in Seq(Verdicts) /\ Len(audited \o <<v, w>>) = len + 2
        /\ \A i \in 1..len : (audited \o <<v, w>>)[i] = audited[i]
        /\ (audited \o <<v, w>>)[len + 1] = v /\ (audited \o <<v, w>>)[len + 2] = w
    BY <1>2, <1>4, TwoMore
  <2>2. audited' = Append(audited \o <<v, w>>, n)
    BY <1>1, <1>4, <1>6, <2>1
  <2>3. /\ audited' \in Seq(Verdicts) /\ Len(audited') = len + 3
        /\ \A i \in 1..len : audited'[i] = audited[i]
        /\ audited'[len + 1] = v /\ audited'[len + 2] = w /\ audited'[len + 3] = n
    <3> DEFINE s == audited \o <<v, w>>
    <3>1. s \in Seq(Verdicts) /\ Len(s) = len + 2
          /\ (\A i \in 1..len : s[i] = audited[i]) /\ s[len + 1] = v /\ s[len + 2] = w
          /\ audited' = Append(s, n)
      BY <2>1, <2>2
    <3>2. len \in Nat
      BY <1>2
    <3> HIDE DEF s, len
    <3>3. /\ audited' \in Seq(Verdicts) /\ Len(audited') = Len(s) + 1
          /\ (\A i \in 1..Len(s) : audited'[i] = s[i]) /\ audited'[Len(s) + 1] = n
      BY <1>4, <3>1, Longer
    <3> QED BY <3>1, <3>2, <3>3
  <2>4. CASE attempt = 1
    <3>1. SentBack'
      BY <1>2, <1>3, <1>4, <1>6, <2>3, <2>4, JudgedAction DEF SentBack
    <3>2. Tried'
      BY <1>1, <1>2, <1>6, <2>3, <2>4, <3>1 DEF Tried, Before, After
    <3> QED BY <1>1, <1>6, <2>3, <2>4, <3>2, JudgedKeeps
            DEF IInv, Typed, TypeOK, Guarded, Judging, Before
  <2>5. CASE attempt = 2
    <3>1. SentBack'
      BY <1>2, <2>3, <2>5, StaysSentBack
    <3>2. FailedWith(2)'
      <4>1. ~Clean(2)'
        BY <1>2, <1>3, <1>4, <1>6, <2>3, <2>5, JudgedAction DEF Clean, Bad
      <4>2. \A j \in 4..6 : audited'[j].action # "regenerate"
        BY <1>2, <1>3, <1>4, <2>3, <2>5, JudgedAction
      <4> QED BY <1>1, <2>5, <4>1, <4>2 DEF FailedWith
    <3>3. Tried'
      BY <1>1, <1>2, <1>6, <2>3, <2>5, <3>1, <3>2 DEF Tried, Before, After, Concluded, Extra
    <3> QED BY <1>1, <1>6, <2>3, <2>5, <3>3, JudgedKeeps
            DEF IInv, Typed, TypeOK, Guarded, Judging, Before
  <2> QED BY <1>2, <2>4, <2>5
<1> QED BY <1>5, <1>6

LEMMA JudgeKeeps == IInv /\ Judge => IInv'
<1> SUFFICES ASSUME IInv, Judge PROVE IInv'
  OBVIOUS
<1> DEFINE len == Len(audited)
<1>1. at = "judge" /\ UNCHANGED <<stored, message, work, reply, draft, attempt>>
  BY DEF Judge, Unsampled, NothingClaimed, Entailed, NotEntailed, VerifierDown
<1>2. /\ attempt \in {1, 2} /\ chosen = None /\ draft \in Texts /\ audited \in Seq(Verdicts)
      /\ len = 3 * attempt - 1 /\ Vetted(draft)
      /\ \A j \in (3 * attempt - 2)..(3 * attempt - 1) : audited[j].action = "pass"
      /\ attempt = 2 => len >= 3 /\ SentBack
  BY <1>1 DEF IInv, Typed, TypeOK, Tried
<1>3. ASSUME NEW action \in Actions, audited' = Append(audited, Verdict("nli", action))
      PROVE  /\ audited' \in Seq(Verdicts) /\ Len(audited') = 3 * attempt
             /\ \A i \in 1..len : audited'[i] = audited[i]
             /\ audited'[3 * attempt] = Verdict("nli", action)
             /\ audited'[3 * attempt].action = action
             /\ attempt = 2 => SentBack'
  <2> DEFINE v == Verdict("nli", action)
  <2>1. v \in Verdicts /\ v.action = action
    BY VerdictTyped
  <2> HIDE DEF v
  <2>2. /\ audited' \in Seq(Verdicts) /\ Len(audited') = len + 1
        /\ (\A i \in 1..len : audited'[i] = audited[i]) /\ audited'[len + 1] = v
    BY <1>2, <1>3, <2>1, Longer DEF v
  <2>3. attempt = 2 => SentBack'
    BY <1>2, <2>2, StaysSentBack
  <2>4. len + 1 = 3 * attempt
    BY <1>2
  <2> QED BY <2>1, <2>2, <2>3, <2>4 DEF v
<1>4. ASSUME NEW action \in {"pass", "not_sampled"}, Passes(action), Due => action = "pass"
      PROVE  IInv'
  <2>1. /\ chosen' = draft /\ at' = "render" /\ audited' \in Seq(Verdicts)
        /\ Len(audited') = 3 * attempt /\ (\A i \in 1..len : audited'[i] = audited[i])
        /\ audited'[3 * attempt] = Verdict("nli", action)
        /\ audited'[3 * attempt].action = action /\ (attempt = 2 => SentBack')
    BY <1>3, <1>4 DEF Passes, Actions
  <2>2. Clean(attempt)'
    <3>1. ASSUME NEW j \in (3 * attempt - 2)..(3 * attempt) PROVE audited'[j].action \notin Bad
      <4>1. CASE j = 3 * attempt
        BY <2>1, <4>1 DEF Bad
      <4>2. CASE j # 3 * attempt
        <5>1. j \in (3 * attempt - 2)..(3 * attempt - 1) /\ j \in 1..len
          BY <1>2, <4>2
        <5> QED BY <1>2, <2>1, <5>1 DEF Bad
      <4> QED BY <4>1, <4>2
    <3> QED BY <1>1, <3>1 DEF Clean
  <2>3. Vetted(chosen)'
    BY <1>1, <1>2, <2>1 DEF Vetted, Lexicon, Grounding, Allowed, Fillable, Sourced, Factual, Issued
  <2>4. PassedWith(attempt)'
    <3>1. Due' => Due
      BY <1>1 DEF Due
    <3> QED BY <1>1, <1>4, <2>1, <2>2, <2>3, <3>1 DEF PassedWith
  <2>5. Concluded(attempt)'
    BY <1>1, <1>2, <2>1, <2>4, ReplyAssumption DEF Concluded
  <2>6. Tried'
    BY <1>1, <1>2, <2>1, <2>5 DEF Tried, Before, After, Extra
  <2> QED BY <1>1, <1>2, <2>1, <2>6, JudgedKeeps DEF IInv, Typed, TypeOK, Guarded, Judging, Before
<1>5. ASSUME NotEntailed \/ VerifierDown PROVE IInv'
  <2>1. PICK a \in {"fallback", Consequence} :
           /\ audited' = Append(audited, Verdict("nli", a)) /\ chosen' = chosen
           /\ at' = IF attempt = 2 \/ a = "fallback" THEN "render" ELSE "regenerate"
    BY <1>2, <1>5 DEF NotEntailed, VerifierDown, Consequence
  <2>2. a \in Actions /\ a \in Bad /\ (attempt = 2 \/ at' = "render" => a = "fallback")
        /\ at' \in {"render", "regenerate"} /\ (at' = "regenerate" => attempt = 1 /\ a = "regenerate")
    BY <1>2, <2>1 DEF Consequence, Actions, Bad
  <2>3. /\ audited' \in Seq(Verdicts) /\ Len(audited') = 3 * attempt
        /\ (\A i \in 1..len : audited'[i] = audited[i]) /\ audited'[3 * attempt].action = a
        /\ (attempt = 2 => SentBack')
    BY <1>3, <2>1, <2>2
  <2>4. CASE at' = "render"
    <3>1. ~Clean(attempt)'
      BY <1>1, <1>2, <2>2, <2>3 DEF Clean
    <3>2. \A j \in (3 * attempt - 2)..(3 * attempt) : audited'[j].action # "regenerate"
      <4>1. ASSUME NEW j \in (3 * attempt - 2)..(3 * attempt) PROVE audited'[j].action # "regenerate"
        <5>1. CASE j = 3 * attempt
          BY <2>2, <2>3, <2>4, <5>1
        <5>2. CASE j # 3 * attempt
          <6>1. j \in (3 * attempt - 2)..(3 * attempt - 1) /\ j \in 1..len
            BY <1>2, <5>2
          <6> QED BY <1>2, <2>3, <6>1
        <5> QED BY <5>1, <5>2
      <4> QED BY <4>1
    <3>3. FailedWith(attempt)'
      BY <1>1, <3>1, <3>2 DEF FailedWith
    <3>4. Tried'
      BY <1>1, <1>2, <2>1, <2>3, <2>4, <3>3 DEF Tried, Before, After, Extra, Concluded
    <3> QED BY <1>1, <1>2, <2>1, <2>3, <2>4, <3>4, JudgedKeeps
            DEF IInv, Typed, TypeOK, Guarded, Judging, Before
  <2>5. CASE at' = "regenerate"
    <3>1. SentBack'
      <4>1. attempt = 1 /\ a = "regenerate" /\ len = 2
        BY <1>2, <2>2, <2>5
      <4>2. audited'[1].action = "pass" /\ audited'[2].action = "pass"
            /\ audited'[3].action = "regenerate"
        BY <1>2, <2>3, <4>1
      <4> QED BY <4>2 DEF SentBack
    <3>2. Tried'
      BY <1>1, <1>2, <2>1, <2>2, <2>3, <2>5, <3>1, ReplyAssumption DEF Tried, Before, After
    <3> QED BY <1>1, <1>2, <2>1, <2>2, <2>3, <2>5, <3>2, JudgedKeeps
            DEF IInv, Typed, TypeOK, Guarded, Judging, Before
  <2> QED BY <2>2, <2>4, <2>5
<1>6. (NotEntailed \/ VerifierDown) \/ (Unsampled \/ NothingClaimed \/ Entailed)
  BY DEF Judge
<1>7. Unsampled \/ NothingClaimed \/ Entailed =>
        \E action \in {"pass", "not_sampled"} : Passes(action) /\ (Due => action = "pass")
  BY DEF Unsampled, NothingClaimed, Entailed
<1> QED BY <1>4, <1>5, <1>6, <1>7

LEMMA RegenerateKeeps ==
  ASSUME IInv, NEW text \in Texts \union {None}, Regenerate(text) PROVE IInv'
<1>1. /\ at = "regenerate" /\ at' = "check" /\ attempt' = 2 /\ draft' = text
      /\ UNCHANGED <<stored, message, work, reply, chosen, audited>>
  BY DEF Regenerate, Draft
<1>2. chosen = None /\ Len(audited) = 3 /\ SentBack /\ draft # None
  BY <1>1 DEF IInv, Tried
<1>3. Tried'
  BY <1>1, <1>2 DEF Tried, Before, After, SentBack
<1> QED BY <1>1, <1>2, <1>3, JudgedKeeps DEF IInv, Typed, TypeOK, Guarded, Judging, Before

\* What was concluded of the attempts stays while only the turn's steps go on.
LEMMA StaysConcluded ==
  ASSUME NEW n \in 0..2, Concluded(n), Len(audited) >= 3 * n, audited \in Seq(Verdicts),
         \A i \in 1..Len(audited) : audited'[i] = audited[i],
         UNCHANGED <<work, reply, draft, attempt, chosen>>, attempt \in {1, 2}
  PROVE  Concluded(n)'
<1>1. \A j \in (3 * n - 2)..(3 * n) : n > 0 => j \in 1..Len(audited)
  OBVIOUS
<1>2. n = attempt => n > 0
  OBVIOUS
<1>3. CASE chosen = None
  BY <1>1, <1>2, <1>3 DEF Concluded, FailedWith, Clean
<1>4. CASE chosen # None
  <2>1. PassedWith(n)
    BY <1>4 DEF Concluded
  <2>2. n > 0 /\ Clean(n)' /\ Vetted(chosen)'
    BY <1>1, <1>2, <2>1
       DEF PassedWith, Clean, Vetted, Lexicon, Grounding, Allowed, Fillable, Sourced, Factual, Issued
  <2>3. PassedWith(n)'
    BY <1>1, <2>1, <2>2 DEF PassedWith, Due
  <2> QED BY <1>4, <2>3 DEF Concluded
<1> QED BY <1>3, <1>4

LEMMA RenderKeeps == IInv /\ Render => IInv'
<1> SUFFICES ASSUME IInv, Render PROVE IInv'
  OBVIOUS
<1>1. at = "render" /\ at' = "guard"
      /\ UNCHANGED <<stored, message, work, reply, draft, attempt, chosen, audited>>
  BY DEF Render
<1>2. PICK n \in 0..2 : Len(audited) = 3 * n /\ Concluded(n)
  BY <1>1 DEF IInv, Tried, After, Extra
<1>3. audited \in Seq(Verdicts) /\ attempt \in {1, 2} /\ (attempt = 2 => Len(audited) >= 3 /\ SentBack)
  BY DEF IInv, Typed, TypeOK, Tried
<1>4. Concluded(n)'
  BY <1>1, <1>2, <1>3, StaysConcluded
<1>5. Tried'
  BY <1>1, <1>2, <1>3, <1>4 DEF Tried, Before, After, Extra, SentBack
<1> QED BY <1>1, <1>5, JudgedKeeps DEF IInv, Typed, TypeOK, Guarded, Judging, Before

LEMMA GuardKeeps ==
  ASSUME IInv, NEW safe \in BOOLEAN, Guard(safe) PROVE IInv'
<1> DEFINE check(rail, ok) == Verdict(rail, IF ok THEN "pass" ELSE "block")
           a == check("disclosure", reply.ranking.options \subseteq reply.ranking.sets)
           b == check("guard", safe)
           c == check("leak", chosen = None \/ ~chosen.echoes)
           d == check("dummy", ~Pilot \/ reply.ranking.seeds = {})
           len == Len(audited)
<1>1. /\ at = "guard" /\ at' = "commit" /\ audited' = audited \o <<a, b, c, d>>
      /\ UNCHANGED <<stored, message, work, reply, draft, attempt, chosen>>
  BY DEF Guard
<1>2. PICK n \in 0..2 : len = 3 * n /\ Concluded(n)
  BY <1>1 DEF IInv, Tried, After, Extra
<1>3. audited \in Seq(Verdicts) /\ attempt \in {1, 2} /\ (attempt = 2 => len >= 3 /\ SentBack)
  BY DEF IInv, Typed, TypeOK, Tried
<1>4. /\ a \in Verdicts /\ b \in Verdicts /\ c \in Verdicts /\ d \in Verdicts
      /\ ~(reply.ranking.options \subseteq reply.ranking.sets) => a.action = "block"
      /\ chosen # None /\ chosen.echoes => c.action = "block"
  BY VerdictTyped DEF Actions
<1> HIDE DEF a, b, c, d
<1>5. /\ audited' \in Seq(Verdicts) /\ Len(audited') = len + 4
      /\ (\A i \in 1..len : audited'[i] = audited[i])
      /\ audited'[len + 1] = a /\ audited'[len + 3] = c
  BY <1>1, <1>3, <1>4, FourMore
<1>6. attempt = 2 => SentBack'
  BY <1>3, <1>5, StaysSentBack
<1>7. Concluded(n)'
  <2>1. /\ Concluded(n) /\ Len(audited) >= 3 * n
        /\ \A i \in 1..Len(audited) : audited'[i] = audited[i]
        /\ UNCHANGED <<work, reply, draft, attempt, chosen>>
    BY <1>1, <1>2, <1>5
  <2> QED BY <1>3, <2>1, StaysConcluded
<1>8. Tried'
  BY <1>1, <1>2, <1>3, <1>5, <1>6, <1>7 DEF Tried, Before, After, Extra
<1>9. Guarded'
  <2>1. len + 1 \in DOMAIN audited' /\ len + 3 \in DOMAIN audited'
    BY <1>2, <1>5
  <2> QED BY <1>1, <1>4, <1>5, <2>1 DEF Guarded, Blocked
<1> QED BY <1>1, <1>3, <1>5, <1>8, <1>9, JudgedKeeps DEF IInv, Typed, TypeOK, Judging, Before

----------------------------------------------------------------------------
(* The commit. *)

LEMMA KeptTyped ==
  ASSUME IInv, at = "commit"
  PROVE  /\ Kept \in Recommendations \union {None}
         /\ Recommendation \in Recommendations
         /\ Recommendation.options = reply.ranking.options
         /\ reply.ranking # NoRanking /\ ~Blocked =>
              /\ Kept = Recommendation /\ Kept # None
              /\ Kept.options # {} /\ Kept.options \subseteq Kept.sets
         /\ reply.ranking = NoRanking \/ Blocked => Kept = work.rec
<1>1. reply.ranking \in Rankings \union {NoRanking} /\ work.rec \in Recommendations \union {None}
  BY DEF IInv, Typed, TypeOK, Replies, Sessions
<1>2. reply.ranking.options \subseteq Products /\ reply.ranking.sets \subseteq Products
  BY <1>1, RankingShowsOptions DEF NoRanking
<1>3. Recommendation \in Recommendations /\ Recommendation.options = reply.ranking.options
      /\ Recommendation.sets = reply.ranking.sets
  BY <1>2 DEF Recommendation, Recommendations
<1>4. ~Blocked => reply.ranking.options \subseteq reply.ranking.sets
  BY DEF IInv, Guarded
<1>5. reply.ranking # NoRanking => reply.ranking.options # {}
  BY <1>1, RankingShowsOptions
<1>6. Recommendation # None
  BY <1>3, ReplyAssumption
<1>7. reply.ranking = NoRanking \/ Blocked => Kept = work.rec
  BY DEF Kept
<1>8. reply.ranking # NoRanking /\ ~Blocked => Kept = Recommendation
  BY DEF Kept
<1> QED BY <1>1, <1>3, <1>4, <1>5, <1>6, <1>7, <1>8

\* The text that goes out is the one judged last, over the handles the model was shown.
LEMMA CommitVets == IInv /\ Commit => VettedText'
<1> SUFFICES ASSUME IInv, Commit, (out # None /\ out.text # None)' PROVE VettedText'
  BY DEF VettedText
<1> DEFINE h == reply.handles
           seen == reply.saw.chunks \union reply.saw.facts
           options == IF offered' = None THEN {} ELSE offered'.options
<1>1. at = "commit" /\ ~Blocked /\ chosen # None
      /\ out'.text = chosen /\ out'.state = work.state /\ out'.due = Due /\ out'.saw = reply.saw
      /\ out'.priced = Fillable /\ out'.audited = audited
      /\ offered' = IF reply.ranking = NoRanking THEN offered ELSE Recommendation
  BY DEF Commit
<1>2. PICK n \in 0..2 : Len(audited) = 3 * n + 4 /\ PassedWith(n)
  BY <1>1 DEF IInv, Tried, After, Extra, Concluded
<1>3. chosen = draft /\ Lexicon(chosen, h) /\ Grounding(chosen, h)
      /\ (Due => audited[3 * n] = Verdict("nli", "pass"))
  BY <1>2 DEF PassedWith, Vetted
<1>4. reply.saw = h /\ work.state # "S0" /\ seen = Issued(h)
  BY <1>1, <1>3 DEF IInv, Shown, Drafting, Issued
<1>5. chosen.cites \subseteq seen /\ ~chosen.banned /\ ~chosen.echoes
  BY <1>1, <1>3, <1>4 DEF Lexicon, Grounding, IInv, Guarded
<1>6. \A m \in chosen.numbers : \E c \in chosen.cites : m \in Says[c]
  BY <1>3 DEF Grounding, Sourced
<1>7. chosen.names \subseteq Focus \union options
  <2>1. chosen.names \subseteq Focus \union
          (IF work.state = "S3" THEN h.facts \intersect Products ELSE {})
    BY <1>3 DEF Grounding, Allowed
  <2>2. CASE work.state = "S3"
    <3>1. CASE reply.ranking = NoRanking
      BY <1>1, <2>1, <2>2, <3>1 DEF IInv, MadeFrom, Stocked, Works, Held
    <3>2. CASE reply.ranking # NoRanking
      BY <1>1, <2>1, <2>2, <3>2, KeptTyped DEF IInv, MadeFrom, Stocked
    <3> QED BY <3>1, <3>2
  <2> QED BY <2>1, <2>2
<1>8. chosen.fills \subseteq Fillable
  BY <1>3 DEF Grounding
<1>9. Due => audited[Len(audited) - 4] = Verdict("nli", "pass")
  <2>1. Len(audited) - 4 = 3 * n
    BY <1>2
  <2> QED BY <1>3, <2>1
<1> HIDE DEF seen, options, h
<1>10. out'.saw.chunks \union out'.saw.facts = seen
       /\ options = IF offered' = None THEN {} ELSE offered'.options
  BY <1>1 DEF seen, options
<1> QED BY <1>1, <1>4, <1>5, <1>6, <1>7, <1>8, <1>9, <1>10 DEF VettedText

\* The chain read after the commit tells the reply's kind.
LEMMA CommitTells == IInv /\ Commit => AuditTellsTheReply'
<1> SUFFICES ASSUME IInv, Commit PROVE AuditTellsTheReply'
  OBVIOUS
<1>1. /\ at = "commit" /\ out'.kind = Kind /\ out'.audited = audited
      /\ out'.text = IF Blocked THEN None ELSE chosen
  BY DEF Commit
<1>2. PICK n \in 0..2 : Len(audited) = 3 * n + 4 /\ Concluded(n)
  BY <1>1 DEF IInv, Tried, After, Extra
<1>3. attempt \in {1, 2} /\ (attempt = 2 => SentBack)
  BY DEF IInv, Typed, TypeOK, Tried
<1> DEFINE bad(i) == \E j \in (3 * i - 2)..(3 * i) : audited[j].action \in Bad
<1>4. (Len(audited) - 4) \div 3 = n
  BY <1>2
<1>5. \A i : bad(i) <=> ~Clean(i)
  BY DEF Clean
<1>6. attempt = 2 => bad(1) /\ \A j \in 1..3 : audited[j].action # "fallback"
  BY <1>3 DEF SentBack, Bad
<1>7. chosen # None => n = attempt /\ ~bad(n)
  BY <1>2 DEF Concluded, PassedWith, Clean
<1>8. chosen = None => n = 0 \/ bad(n)
  BY <1>2, <1>3, <1>5, <1>6 DEF Concluded, FailedWith
<1>9. n = 2 => bad(1) /\ \A j \in 4..6 : audited[j].action # "regenerate"
  <2> SUFFICES ASSUME n = 2 PROVE bad(1) /\ \A j \in 4..6 : audited[j].action # "regenerate"
    OBVIOUS
  <2>1. attempt = 2
    BY <1>2, <1>3, <1>7 DEF Concluded, FailedWith
  <2>2. CASE chosen = None
    BY <1>2, <1>6, <2>1, <2>2 DEF Concluded, FailedWith
  <2>3. CASE chosen # None
    BY <1>2, <1>6, <2>1, <2>3 DEF Concluded, PassedWith, Clean, Bad
  <2> QED BY <2>2, <2>3
<1>10. \A j \in 1..(3 * n) : audited[j].action = "fallback" => j > 3 * (n - 1)
  <2>1. CASE n = 2
    <3>1. attempt = 2
      BY <1>2, <1>3, <1>7, <2>1 DEF Concluded, FailedWith
    <3> QED BY <1>6, <2>1, <3>1
  <2>2. CASE n < 2
    BY <2>2
  <2> QED BY <1>2, <2>1, <2>2
<1>11. Kind = "blocked" <=> Blocked
  BY DEF Kind
<1>12. Kind = "regenerated" => n = 2
  BY <1>3, <1>7 DEF Kind
<1>13. out'.text # None <=> ~Blocked /\ n > 0 /\ ~bad(n)
  <2>1. CASE chosen = None
    BY <1>1, <1>8, <2>1
  <2>2. CASE chosen # None
    BY <1>1, <1>3, <1>7, <2>2
  <2> QED BY <2>1, <2>2
<1>14. Blocked <=> \E j \in DOMAIN audited : audited[j].action = "block"
  BY DEF Blocked
<1> HIDE DEF bad
<1>15. /\ Len(audited) = 4 + 3 * n /\ n <= 2
       /\ n = 2 => bad(1) /\ \A j \in 4..6 : audited[j].action # "regenerate"
       /\ \A j \in 1..(3 * n) : audited[j].action = "fallback" => j > 3 * (n - 1)
       /\ Kind = "blocked" <=> \E j \in DOMAIN audited : audited[j].action = "block"
       /\ out'.text # None <=> Kind # "blocked" /\ n > 0 /\ ~bad(n)
       /\ Kind = "regenerated" => n = 2
  BY <1>2, <1>9, <1>10, <1>11, <1>12, <1>13, <1>14
<1> QED BY <1>1, <1>4, <1>15, Zenon DEF AuditTellsTheReply, bad

LEMMA CommitKeeps == IInv /\ Commit => IInv'
<1> SUFFICES ASSUME IInv, Commit PROVE IInv'
  OBVIOUS
<1>1. /\ at = "commit" /\ session' = [work EXCEPT !.rec = Kept] /\ work' = session' /\ Cleared
      /\ offered' = IF Blocked \/ reply.ranking = NoRanking THEN offered ELSE Recommendation
  BY DEF Commit
<1>2. work \in Sessions /\ offered \in Recommendations \union {None} /\ Held(work)
  BY DEF IInv, Typed, TypeOK, Works
<1>3. session' \in Sessions /\ session'.rec = Kept
  BY <1>1, <1>2, KeptTyped DEF Sessions
<1>4. offered' \in Recommendations \union {None}
  BY <1>1, <1>2, KeptTyped
<1>5. Held(session)'
  BY <1>1, <1>2, <1>3, KeptTyped DEF Held
<1>6. ReleaseIsSound'
  BY CommitVets, CommitTells DEF ReleaseIsSound
<1> QED BY <1>1, <1>3, <1>4, <1>5, <1>6, Ended

----------------------------------------------------------------------------
LEMMA GoesKeeps == IInv /\ Goes => IInv'
<1> SUFFICES ASSUME IInv, Goes PROVE IInv'
  OBVIOUS
<1>1. CASE Analyses
  BY <1>1, AnalyseKeeps DEF Analyses
<1>2. CASE Retrieves
  BY <1>2, RetrieveKeeps DEF Retrieves
<1>3. CASE Generates
  BY <1>3, GenerateKeeps DEF Generates
<1>4. CASE \E phrased \in BOOLEAN : Compose(phrased)
  BY <1>4, ComposeKeeps
<1>5. CASE \E text \in Texts \union {None} : Regenerate(text)
  BY <1>5, RegenerateKeeps
<1>6. CASE \E safe \in BOOLEAN : Guard(safe)
  BY <1>6, GuardKeeps
<1>7. CASE NoEnvelope \/ NoText \/ Check \/ Judge \/ Render \/ Commit
  BY <1>7, NoEnvelopeKeeps, NoTextKeeps, CheckKeeps, JudgeKeeps, RenderKeeps, CommitKeeps
<1> QED BY <1>1, <1>2, <1>3, <1>4, <1>5, <1>6, <1>7 DEF Goes

LEMMA StutterKeeps == IInv /\ UNCHANGED vars => IInv'
<1> SUFFICES ASSUME IInv, UNCHANGED vars PROVE IInv'
  OBVIOUS
<1>1. /\ session' = session /\ message' = message /\ work' = work /\ at' = at /\ reply' = reply
      /\ draft' = draft /\ attempt' = attempt /\ chosen' = chosen /\ audited' = audited
      /\ out' = out /\ offered' = offered
  BY DEF vars
<1>2. (Typed /\ Works /\ Drafting /\ MadeFrom /\ Shown)'
  BY <1>1 DEF IInv, Typed, TypeOK, Replies, Works, Held, Drafting, MadeFrom, Stocked, Shown
<1>3. Guarded'
  BY <1>1 DEF IInv, Guarded, Blocked
<1>4. Tried'
  BY <1>1, Zenon DEF IInv, Tried, SentBack, Vetted, Lexicon, Grounding, Allowed, Fillable, Sourced,
     Factual, Issued, Extra, Concluded, PassedWith, FailedWith, Clean, Due
<1> QED BY <1>1, <1>2, <1>3, <1>4, StaysSound DEF IInv

LEMMA AlwaysIInv == Spec => []IInv
<1>1. IInv /\ [Next]_vars => IInv'
  BY ReceiveKeeps, GoesKeeps, FailsKeeps, StutterKeeps DEF Next
<1> QED BY InitHolds, <1>1, PTL DEF Spec

\* The types of a turn: the session and its working copy, the step, what the state put on the
\* turn, the model's text and the attempts, two at most.
THEOREM ReplyTyped == Spec => []TypeOK
<1>1. IInv => TypeOK
  BY DEF IInv, Typed
<1> QED BY <1>1, AlwaysIInv, PTL

\* The recommendation a session holds is the one its customer was shown last, each option with
\* its verified disclosures (graph/nodes.py keeps it at the commit, and not when a rail blocked
\* the reply): whatever the ranker gives, whichever call fails.
THEOREM OptionsStayShown == Spec => []OptionsWereShown
<1>1. IInv => OptionsWereShown
  BY DEF IInv, Works, Held, OptionsWereShown
<1> QED BY <1>1, AlwaysIInv, PTL

\* What leaves is vetted and the chain tells it: cites, numbers, names and placeholders of the
\* released text are those the model was shown for this reply, and the verdicts recorded say
\* which attempt went out (rails/output.py), for any texts, evidence and rankings.
THEOREM ReleasesAreSound == Spec => []ReleaseIsSound
<1>1. IInv => ReleaseIsSound
  BY DEF IInv
<1> QED BY <1>1, AlwaysIInv, PTL

=============================================================================
