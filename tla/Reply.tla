------------------------------- MODULE Reply --------------------------------
(***************************************************************************)
(* From the state's answer to the released reply: graph/side_query.py and   *)
(* graph/states/s3.py draft it, graph/nodes.py composes, validates and      *)
(* commits it, rails/output.py lets the model's text through, has it        *)
(* written again once, replaces it or blocks the reply.                     *)
(*                                                                         *)
(* One turn of a session at a time (TurnRuntime holds the lock), one step   *)
(* per remote call; a call fails when it likes.  The turn works on a copy   *)
(* of the session, which the commit stores.  It starts with the input rails *)
(* (analysis/pipeline.py): what they leave of the message.                  *)
(*                                                                         *)
(* Data abstraction: a model text is one of Texts, a sentence known by what *)
(* the rails look for in it; a handle is the chunk (E#) or the product (R#) *)
(* it stands for; what the customer answers is one of Values.  Which state  *)
(* a turn ends in and what it took from the customer are choices.           *)
(***************************************************************************)
EXTENDS Naturals, Sequences, FiniteSets

CONSTANTS
  None,
  Chunks, Domain,      \* evidence, and the collection of each
  Products,            \* an option's engine fact has its product's name
  Needs,               \* the engine fact of the needs assessment
  Says,                \* [handles -> the numbers in their sources]
  Texts,
  Values,
  Rankings,            \* what the ranker, the quotes and the registry give for the options
  Focus,               \* the products the customer named
  OfferAfter,          \* side_query_offer_after
  Pilot,               \* env is pilot or prod
  MaxTurns             \* bound: turns

Facts == Products \union {Needs}
States == {"S0", "S1", "S2", "S3"}

\* What the rails see in a text: the handles it cites, the collection a lexicon rule wants cited
\* for it, whether a rule forbids it, the products it names, the placeholders it leaves to fill,
\* its numbers, whether it states a fact and whether it repeats its instructions.
Text == [cites : SUBSET (Chunks \union Facts), topic : {None} \union {Domain[c] : c \in Chunks},
         banned : BOOLEAN, names : SUBSET Products, fills : SUBSET Facts,
         numbers : SUBSET UNION {Says[h] : h \in Chunks \union Facts}, factual : BOOLEAN,
         echoes : BOOLEAN]

Recommendations == [options : SUBSET Products, sets : SUBSET Products]

ASSUME ReplyAssumption ==
  /\ None \notin Texts \union Values \union Recommendations /\ Texts \subseteq Text
  /\ \A r \in Rankings : r.options # {} /\ r.options \subseteq Products
       /\ r.sets \union r.seeds \union r.priced \subseteq r.options
  /\ Chunks \cap Facts = {} /\ Needs \notin Products
  /\ OfferAfter \in Nat \ {0} /\ MaxTurns \in Nat

VARIABLES
  session,    \* what the last commit stored
  message,    \* the customer's
  work,       \* the turn's copy
  at,         \* the step the turn is at
  reply,      \* what the state put on the turn: who writes, from what, and what is shown
  draft,      \* the model's text of this attempt
  attempt,
  chosen,     \* the text that passed the rails
  audited,    \* this turn's GUARD_VERDICTs
  out,        \* the reply released since the last message
  offered,    \* history: the options the last reply with options showed
  turns

vars == <<session, message, work, at, reply, draft, attempt, chosen, audited, out, offered, turns>>

Sessions == [state : States, rec : {None} \union Recommendations,
             value : Values \union {None}, open : BOOLEAN,
             asked : 0..(OfferAfter - 1)]

Handles == [chunks : SUBSET Chunks, facts : SUBSET Facts]
NoHandles == [chunks |-> {}, facts |-> {}]

NoRanking == [options |-> {}, sets |-> {}, seeds |-> {}, priced |-> {}]

Nothing == [by |-> "template", ranking |-> NoRanking, found |-> NoHandles, handles |-> NoHandles,
            saw |-> NoHandles, all |-> FALSE, reads |-> FALSE, over |-> None]

\* What it says, whether it asks a question too, which pattern of the input rails it matches, and
\* whether it is too long or asks who is speaking.
Messages == [said : Values \union {None, "yes"}, side : BOOLEAN,
             matches : {None, "injection", "crisis"}, over : {None, "overlong", "identity"}]

TypeOK ==
  /\ session \in Sessions /\ work \in Sessions
  /\ message \in Messages \union {None}
  /\ at \in {"idle", "analyse", "retrieve", "generate", "compose", "check", "judge", "regenerate", "render",
             "guard", "commit"}
  /\ reply.by \in {"template", "approved", "side", "options", "phrase"}
  /\ reply.found \in Handles /\ reply.handles \in Handles
  /\ draft \in Texts \union {None} /\ chosen \in Texts \union {None}
  /\ attempt \in {1, 2}

----------------------------------------------------------------------------
Fresh == [state |-> "S1", rec |-> None, value |-> None, open |-> FALSE, asked |-> 0]

Init ==
  /\ \E s \in States : session = [Fresh EXCEPT !.state = s]
  /\ work = session
  /\ at = "idle" /\ reply = Nothing /\ message = None
  /\ draft = None /\ attempt = 1 /\ chosen = None /\ audited = <<>>
  /\ out = None /\ offered = None /\ turns = 0

stored == <<session, out, offered, turns>>

Cleared ==
  /\ at' = "idle" /\ message' = None /\ reply' = Nothing
  /\ draft' = None /\ attempt' = 1 /\ chosen' = None /\ audited' = <<>>

----------------------------------------------------------------------------
(* The message: the input rails, then what the state takes from it and how it answers. *)

Receive(m) ==
  /\ at = "idle" /\ turns < MaxTurns
  /\ m.said = "yes" => ~m.side
  /\ message' = m /\ turns' = turns + 1
  /\ at' = "analyse" /\ out' = None
  /\ UNCHANGED <<session, work, reply, draft, attempt, chosen, audited, offered>>

\* guard-input and nlu-extract at once.  Without the guard its patterns decide; the self-harm ones
\* only then.
Injected(guard) == message.matches = "injection" \/ guard = "injection"

Unsafe(guard) == IF guard = "down" THEN message.matches = "crisis" ELSE guard = "unsafe"

Crisis(guard, nlu) ==
  ~Injected(guard) /\ (Unsafe(guard) \/ (nlu /\ message.matches = "crisis"))

\* A blocked message loses its values and its question; a plain yes is not a value.
Heard(guard, nlu, parsed) ==
  IF message.said = "yes" THEN "yes"
  ELSE IF Injected(guard) \/ Unsafe(guard) \/ ~(nlu \/ parsed) THEN None
  ELSE message.said

\* The state's node: a yes to an open read-back confirms what is held; a new value is held.  What
\* is held is read back, unless a lookup for its wording fails: then the reply is a retry.
Took(s, said, lookup) ==
  IF said = "yes" /\ s.open
  THEN [s EXCEPT !.value = None, !.open = FALSE]
  ELSE LET value == IF said \in Values THEN said ELSE s.value
       IN  [s EXCEPT !.value = value, !.open = s.open \/ (value # None /\ lookup)]

\* A bug: the offer does not start the count again.
CountedOn(n) == n + 1

\* Side questions in a row; at the limit the reply offers to carry on or an advisor instead of
\* the state's own question.
Counted(n) == IF n + 1 >= OfferAfter THEN 0 ELSE n + 1

\* The state's node, the transition and the entry of the next state.  S3 presents the options on
\* entry and whenever it holds no recommendation that is current.
Analyse(guard, nlu, parsed, lookup, next, stale) ==
  LET over == IF Crisis(guard, nlu) THEN "crisis" ELSE message.over
      from == session.state
      said == IF from \in {"S1", "S2"} THEN Heard(guard, nlu, parsed) ELSE None
      runs == over \notin {"overlong", "crisis"}
      s == IF runs /\ from \in {"S1", "S2"} THEN Took(session, said, lookup) ELSE session
      asks == message.side /\ ~Injected(guard) /\ ~Unsafe(guard)
                /\ (nlu \/ from \in {"S0", "S3"})
      presents == next = "S3" /\ (from = "S3" => over = None /\ (s.rec = None \/ stale))
      answers == asks /\ over = None /\ ~presents
      searches == answers /\ from # "S0"
  IN  /\ at = "analyse"
      /\ next # from => runs /\ ~asks /\ (from \in {"S1", "S2"} => said = "yes" /\ session.open)
      /\ work' = [s EXCEPT !.state = next,
                           !.rec = IF presents THEN None ELSE @,
                           !.asked = IF answers THEN Counted(@)
                                     ELSE IF asks THEN @ ELSE 0]
      /\ reply' = [Nothing EXCEPT !.by = IF presents THEN "options"
                                         ELSE IF searches THEN "side"
                                         ELSE IF answers THEN "approved" ELSE "template",
                                  !.reads = /\ s.open /\ runs /\ lookup
                                            /\ answers => Counted(session.asked) # 0,
                                  !.over = over]
      /\ at' = IF presents \/ searches THEN "retrieve" ELSE "compose"
      /\ message' = None
      /\ UNCHANGED <<stored, draft, attempt, chosen, audited>>

----------------------------------------------------------------------------
(* The draft. *)

Draft(text) == draft' = text

EngineFacts(options) == IF options = {} THEN {} ELSE options \union {Needs}

\* s3.retrieve, after the ranker and the registry: found is None when retrieval is down or abstains.
Retrieve(found, ranking) ==
  LET ranked == IF reply.by = "options" THEN ranking.options
                ELSE IF work.state = "S3" /\ work.rec # None THEN work.rec.options ELSE {}
      chunks == IF found = None THEN {} ELSE found
  IN  /\ at = "retrieve"
      /\ IF reply.by = "side" /\ found = None
         THEN /\ reply' = [reply EXCEPT !.by = "approved"]
              /\ at' = "compose"
         ELSE /\ reply' = [reply EXCEPT
                   !.found = [chunks |-> chunks, facts |-> EngineFacts(ranked)],
                   !.all = reply.by = "side",
                   !.ranking = IF reply.by = "options" THEN ranking ELSE NoRanking]
              /\ at' = "generate"
      /\ UNCHANGED <<stored, message, work, draft, attempt, chosen, audited>>

\* The envelope is refused: no text, and every handle counts as issued.
NoEnvelope ==
  /\ at = "generate"
  /\ Draft(None)
  /\ reply' = [reply EXCEPT !.handles = reply.found]
  /\ at' = IF reply.by = "phrase" THEN "check" ELSE "compose"
  /\ UNCHANGED <<stored, message, work, attempt, chosen, audited>>

\* A bug: what was retrieved counts as shown.
GenerateIssued(shown, text) ==
  /\ at = "generate" /\ shown \subseteq reply.found.chunks
  /\ Draft(text)
  /\ reply' = [reply EXCEPT !.handles = reply.found,
                            !.saw = [chunks |-> shown, facts |-> reply.found.facts]]
  /\ at' = IF reply.by = "phrase" THEN "check" ELSE "compose"
  /\ UNCHANGED <<stored, message, work, attempt, chosen, audited>>

\* The envelope shows what its budget leaves of the evidence; the route writes a text or is down.
Generate(shown, text) ==
  /\ at = "generate" /\ shown \subseteq reply.found.chunks
  /\ Draft(text)
  /\ LET carried == [chunks |-> shown, facts |-> reply.found.facts]
     IN  reply' = [reply EXCEPT !.handles = carried, !.saw = carried]
  /\ at' = IF reply.by = "phrase" THEN "check" ELSE "compose"
  /\ UNCHANGED <<stored, message, work, attempt, chosen, audited>>

\* compose: a crisis, an identity question, an injected or an overlong message speaks alone; a plain
\* question of S1 or S2 gets a generated sentence before it.
Compose(phrased) ==
  /\ at = "compose"
  /\ IF reply.by \in {"side", "options"} /\ reply.over = None
     THEN at' = "check" /\ UNCHANGED <<reply, draft>>
     ELSE LET phrase == /\ phrased /\ reply.by = "template" /\ reply.over = None
                        /\ work.state \in {"S1", "S2"} /\ ~reply.reads
          IN  /\ reply' = [Nothing EXCEPT !.by = IF phrase THEN "phrase" ELSE "template",
                                          !.reads = reply.reads, !.over = reply.over]
              /\ Draft(None)
              /\ at' = IF phrase THEN "generate" ELSE "check"
  /\ UNCHANGED <<stored, message, work, attempt, chosen, audited>>

----------------------------------------------------------------------------
(* Rails 6 and 7. *)

Lexicon(t, h) ==
  ~t.banned /\ (t.topic # None => \E c \in t.cites \intersect h.chunks : Domain[c] = t.topic)

Issued(h) == h.chunks \union h.facts

\* I3: before S3 only the products the customer named.
Allowed(state, h) == Focus \union (IF state = "S3" THEN h.facts \intersect Products ELSE {})

Fillable ==
  IF reply.ranking = NoRanking THEN {} ELSE reply.ranking.priced \union {Needs}

Sourced(t, h) == t.numbers \subseteq UNION {Says[c] : c \in t.cites \intersect Issued(h)}

Factual(t) == t.factual \/ t.fills # {} \/ t.numbers # {}

Grounding(t, h) ==
  /\ t.names \subseteq Allowed(work.state, h)
  /\ t.fills \subseteq Fillable
  /\ Sourced(t, h)
  /\ t.cites \subseteq Issued(h)
  /\ Factual(t) => t.cites \intersect Issued(h) # {}

Verdict(rail, action) == [rail |-> rail, action |-> action]

\* A bug: the second failure is regenerated too.
ConsequenceAgain == "regenerate"

Consequence == IF attempt = 2 THEN "fallback" ELSE "regenerate"

Judged(ok) == IF ok THEN "pass" ELSE Consequence

\* No text: the card or the template.
NoText ==
  /\ at = "check" /\ draft = None
  /\ at' = "render"
  /\ UNCHANGED <<stored, message, work, reply, draft, attempt, chosen, audited>>

\* The verifier is only asked about a text the other rails let through.
Check ==
  LET lexical == Lexicon(draft, reply.handles)
      grounded == Grounding(draft, reply.handles)
      verdicts == <<Verdict("lexicon", Judged(lexical)), Verdict("grounding", Judged(grounded))>>
  IN  /\ at = "check" /\ draft # None
      /\ IF lexical /\ grounded
         THEN audited' = audited \o verdicts /\ at' = "judge"
         ELSE /\ audited' = audited \o verdicts \o <<Verdict("nli", "skipped")>>
              /\ at' = IF attempt = 2 THEN "render" ELSE "regenerate"
      /\ UNCHANGED <<stored, message, work, reply, draft, attempt, chosen>>

\* gen-recommend is verified claim by claim, gen-converse in a share of the turns.
Due == work.state = "S3" \/ reply.all

Passes(action) ==
  /\ chosen' = draft
  /\ audited' = Append(audited, Verdict("nli", action))
  /\ at' = "render"

Unsampled == at = "judge" /\ ~Due /\ Passes("not_sampled")

NothingClaimed == at = "judge" /\ draft.cites = {} /\ Passes("pass")

Entailed == at = "judge" /\ draft.cites # {} /\ Passes("pass")

NotEntailed ==
  /\ at = "judge" /\ draft.cites # {}
  /\ audited' = Append(audited, Verdict("nli", Consequence))
  /\ at' = IF attempt = 2 THEN "render" ELSE "regenerate"
  /\ UNCHANGED chosen

\* A verifier that cannot run holds the draft: no second attempt.
VerifierDown ==
  /\ at = "judge" /\ draft.cites # {}
  /\ audited' = Append(audited, Verdict("nli", "fallback"))
  /\ at' = "render"
  /\ UNCHANGED chosen

Judge ==
  /\ Unsampled \/ NothingClaimed \/ Entailed \/ NotEntailed \/ VerifierDown
  /\ UNCHANGED <<stored, message, work, reply, draft, attempt>>

\* A bug: the attempt is not counted.
RegenerateUncounted(text) ==
  /\ at = "regenerate"
  /\ Draft(text)
  /\ at' = "check"
  /\ audited' = <<>>
  /\ UNCHANGED <<stored, message, work, reply, attempt, chosen>>

\* The same envelope with the errors; None when it is refused or the route is down.
Regenerate(text) ==
  /\ at = "regenerate"
  /\ attempt' = 2
  /\ Draft(text)
  /\ at' = "check"
  /\ UNCHANGED <<stored, message, work, reply, chosen, audited>>

----------------------------------------------------------------------------
(* The reply is rendered, rail 8 looks at the whole of it, and the commit stores it. *)

\* The composer adds cards, disclosures, read-back and sources; a defect in its inputs is Fails.
Render ==
  /\ at = "render"
  /\ at' = "guard"
  /\ UNCHANGED <<stored, message, work, reply, draft, attempt, chosen, audited>>

Guard(safe) ==
  LET check(rail, ok) == Verdict(rail, IF ok THEN "pass" ELSE "block")
  IN  /\ at = "guard"
      /\ chosen = None => safe
      /\ audited' = audited \o
           <<check("disclosure", reply.ranking.options \subseteq reply.ranking.sets), check("guard", safe),
             check("leak", chosen = None \/ ~chosen.echoes),
             check("dummy", ~Pilot \/ reply.ranking.seeds = {})>>
      /\ at' = "commit"
      /\ UNCHANGED <<stored, message, work, reply, draft, attempt, chosen>>

Blocked == \E i \in DOMAIN audited : audited[i].action = "block"

Kind == IF Blocked THEN "blocked"
        ELSE IF chosen = None THEN "fallback"
        ELSE IF attempt = 1 THEN "narrative" ELSE "regenerated"

Recommendation == [options |-> reply.ranking.options, sets |-> reply.ranking.sets]

\* A bug: the options of a blocked reply are kept.
KeptAnyway == IF reply.ranking = NoRanking THEN work.rec ELSE Recommendation

\* A blocked reply shows no option: none is recorded, and S3 presents again.
Kept == IF reply.ranking = NoRanking \/ Blocked THEN work.rec ELSE Recommendation

Commit ==
  /\ at = "commit"
  /\ session' = [work EXCEPT !.rec = Kept]
  /\ work' = session'
  /\ out' = [kind |-> Kind, text |-> IF Blocked THEN None ELSE chosen, state |-> work.state,
             due |-> Due, saw |-> reply.saw, priced |-> Fillable, audited |-> audited]
  /\ offered' = IF Blocked \/ reply.ranking = NoRanking THEN offered ELSE Recommendation
  /\ Cleared
  /\ UNCHANGED turns

\* An error or a crash: the transaction is rolled back, the working copy is lost.
Fails ==
  /\ at # "idle"
  /\ work' = session /\ Cleared
  /\ UNCHANGED stored

----------------------------------------------------------------------------
Analyses ==
  \E guard \in {"safe", "injection", "unsafe", "down"}, nlu, parsed, lookup, stale \in BOOLEAN,
     next \in States : Analyse(guard, nlu, parsed, lookup, next, stale)

Retrieves ==
  \E found \in (SUBSET Chunks) \union {None}, ranking \in Rankings : Retrieve(found, ranking)

Generates == \E shown \in SUBSET Chunks, text \in Texts \union {None} : Generate(shown, text)

Goes ==
  \/ Analyses
  \/ Retrieves
  \/ Generates \/ NoEnvelope
  \/ \E phrased \in BOOLEAN : Compose(phrased)
  \/ NoText \/ Check \/ Judge
  \/ \E text \in Texts \union {None} : Regenerate(text)
  \/ Render
  \/ \E safe \in BOOLEAN : Guard(safe)
  \/ Commit

Next == (\E m \in Messages : Receive(m)) \/ Goes \/ Fails

Spec == Init /\ [][Next]_vars

\* Every call of a turn has a timeout: it is answered or it fails, and the turn goes on.
FairSpec == Spec /\ WF_vars(Goes)

----------------------------------------------------------------------------
(* Properties. *)

Bad == {"regenerate", "fallback"}

\* Whatever failed, was written again or changed under way: a released text of the model cites,
\* and takes its numbers from, what the model was shown for this very reply; it names no product
\* but those the customer named and the options shown with their disclosures; it fills in only
\* options of this reply; and where every claim is verified, the verifier said yes to this text
\* (rails/output.py: "they pass it, regenerate it, or replace it").
VettedText ==
  (out # None /\ out.text # None) =>
    LET t == out.text
        seen == out.saw.chunks \union out.saw.facts
        options == IF offered = None THEN {} ELSE offered.options
    IN  /\ t.cites \subseteq seen /\ ~t.banned /\ ~t.echoes
        /\ \A n \in t.numbers : \E h \in t.cites : n \in Says[h]
        /\ t.names \subseteq Focus \union options
        /\ t.fills # {} => t.fills \subseteq out.priced
        /\ out.due => out.audited[Len(out.audited) - 4] = Verdict("nli", "pass")
        /\ out.state # "S0"

\* The recommendation a session holds, and so what the customer may acknowledge and apply for, is
\* the one the last reply with options showed, each with its verified disclosures: not one that a
\* rail blocked, that another message spoke over, or whose turn was rolled back.
OptionsWereShown ==
  session.rec # None =>
    /\ session.rec = offered
    /\ session.rec.options # {} /\ session.rec.options \subseteq session.rec.sets

\* The chain's verdicts tell which text went out: at most two attempts, the first of them to be
\* regenerated, a fallback always the last word, and a text only when its own verdicts are clean.
AuditTellsTheReply ==
  out # None =>
    LET a == out.audited
        attempts == (Len(a) - 4) \div 3
        bad(i) == \E j \in (3 * i - 2)..(3 * i) : a[j].action \in Bad
    IN  /\ Len(a) = 4 + 3 * attempts /\ attempts <= 2
        /\ attempts = 2 => bad(1) /\ \A j \in 4..6 : a[j].action # "regenerate"
        /\ \A j \in 1..(3 * attempts) : a[j].action = "fallback" => j > 3 * (attempts - 1)
        /\ out.kind = "blocked" <=> \E j \in DOMAIN a : a[j].action = "block"
        /\ out.text # None <=>
             out.kind # "blocked" /\ attempts > 0 /\ ~bad(attempts)
        /\ out.kind = "regenerated" => attempts = 2

\* What leaves is vetted, and the chain says so.
ReleaseIsSound == VettedText /\ AuditTellsTheReply

\* Every turn ends: no combination of failing rails and failing calls goes round again.
TurnEnds == (at # "idle") ~> (at = "idle")

=============================================================================
