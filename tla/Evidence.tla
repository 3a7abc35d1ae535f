------------------------------ MODULE Evidence ------------------------------
(***************************************************************************)
(* The pure part of retrieval: which collections a question searches        *)
(* (retrieval/routing.py), which of the scored chunks are kept and whether  *)
(* they suffice (retrieval/gate.py), and what the prompt envelope leaves of *)
(* them (compose/envelope.py).                                              *)
(*                                                                         *)
(* Data abstraction: a chunk is a model value with a collection, a size in  *)
(* tokens, an order of ids and its ancestors, nearest first; a question is  *)
(* its topics, the state it is asked in and whether a product is in focus.  *)
(***************************************************************************)
EXTENDS Naturals, Sequences, FiniteSets, SequencesExt

CONSTANTS
  Chunks,
  Collection,      \* [Chunks -> collections]
  Size,            \* [Chunks -> Nat]: tokens
  Id,              \* [Chunks -> Nat]: the order of the chunk ids
  Ancestors,       \* [Chunks -> Seq(Chunks)]: shorter section paths of the document, longest first
  Rules,           \* the routing table: [states, topics, collections, quotas], first match wins
  ProductStates,   \* the states in which kb_product may be searched for any product
  Keep,            \* limits.keep
  Budget,          \* limits.evidence_budget_tokens
  EnvelopeBudget   \* budgets.evidence of the prompt bundle, without the engine's facts

Collections == {Collection[c] : c \in Chunks}

\* Chunk ids are unique; a chunk alone fits both budgets (kb/chunker.py's size); the rules name the
\* corpus's collections, and the last one matches everything.
ASSUME EvidenceAssumption ==
  /\ IsFiniteSet(Chunks)
  /\ \A a, b \in Chunks : Id[a] = Id[b] => a = b
  /\ \A c \in Chunks : Id[c] \in Nat /\ Size[c] \in 1..Budget /\ Size[c] <= EnvelopeBudget
  /\ Budget \in Nat /\ EnvelopeBudget \in Nat /\ Keep \in Nat \ {0}
  /\ \A i \in DOMAIN Rules :
       Rules[i].collections \subseteq Collections /\ Rules[i].quotas \in [Collections -> Nat]
  /\ Len(Rules) \in DOMAIN Rules /\ DOMAIN Rules = 1..Len(Rules)
  /\ Rules[Len(Rules)].states = {} /\ Rules[Len(Rules)].topics = {}

----------------------------------------------------------------------------
(* Routing. *)

Matches(when, question) ==
  /\ when.states = {} \/ question.state \in when.states
  /\ when.topics = {} \/ question.topics \cap when.topics # {}

Route(question) ==
  LET rule  == Rules[SelectInSeq(Rules, LAMBDA r : Matches(r, question))]
      gated == /\ "product" \in rule.collections
               /\ question.state \notin ProductStates
               /\ ~question.focus
      open  == IF gated THEN rule.collections \ {"product"} ELSE rule.collections
  IN  [collections |-> open, quotas |-> rule.quotas,
       abstains |-> open = {} \/ (gated /\ rule.quotas["product"] > 0)]

----------------------------------------------------------------------------
(* Selection: items are [chunk, score, scale, parent]. *)

Before(a, b) ==
  a.score > b.score \/ (a.score = b.score /\ Id[a.chunk] < Id[b.chunk])

\* In place n, the item with n - 1 before it.
Ranked(items) ==
  [n \in 1..Cardinality(items) |->
     CHOOSE s \in items : Cardinality({t \in items : Before(t, s)}) = n - 1]

Best(items, n) == {s \in items : Cardinality({t \in items : Before(t, s)}) < n}

Of(items, d) == {s \in items : Collection[s.chunk] = d}

Tokens(items) ==
  LET sum[n \in 0..Len(items)] == IF n = 0 THEN 0 ELSE sum[n - 1] + Size[items[n].chunk]
  IN  sum[Len(items)]

AboveQuota(kept, s, quotas) ==
  LET d == Collection[s.chunk] IN Cardinality(Of(kept, d)) > quotas[d]

\* From the last to the first, each item that may go does, until the rest fits.
Trim(items, budget, MayGo(_, _)) ==
  LET kept[n \in 0..Len(items)] ==      \* the last n have had their turn
        IF n = 0 THEN items
        ELSE LET rest == kept[n - 1]
                 at   == Len(items) + 1 - n
             IN  IF Tokens(rest) > budget /\ MayGo(ToSet(rest), rest[at])
                 THEN RemoveAt(rest, at) ELSE rest
  IN  kept[Len(items)]

Select(items, quotas) ==
  LET owed == UNION {Best(Of(items, d), quotas[d]) : d \in Collections}
      room == IF Cardinality(owed) < Keep THEN Keep - Cardinality(owed) ELSE 0
      kept == owed \union Best(items \ owed, room)
  IN  Trim(Ranked(kept), Budget, LAMBDA k, s : AboveQuota(k, s, quotas))

\* The longest proper prefix of the chunk's path among the document's chunks found, if any.
ParentOf(c, found) ==
  {p \in found : \E i \in DOMAIN Ancestors[c] :
                   p = Ancestors[c][i] /\ \A j \in 1..(i - 1) : Ancestors[c][j] \notin found}

\* A parent from outside the candidates has no score: 0 stands for it, no gate reads it.
Parent(c, scale) == [chunk |-> c, score |-> 0, scale |-> scale, parent |-> TRUE]

\* The parents of the kept chunks in their order, each that is not there yet and fits.
AddParents(kept, found, scale) ==
  LET with[n \in 0..Len(kept)] ==
        IF n = 0 THEN kept
        ELSE LET evidence == with[n - 1]
                 new == {p \in ParentOf(kept[n].chunk, found) :
                           /\ \A t \in ToSet(evidence) : t.chunk # p
                           /\ Tokens(Append(evidence, Parent(p, scale))) <= Budget}
             IN  IF new = {} THEN evidence
                 ELSE Append(evidence, Parent(CHOOSE p \in new : TRUE, scale))
  IN  with[Len(kept)]

----------------------------------------------------------------------------
(* The sufficiency gate. *)

Passing(evidence, threshold) ==
  {s \in ToSet(evidence) : ~s.parent /\ s.score >= threshold}

Sufficient(evidence, quotas, threshold) ==
  LET passing == Passing(evidence, threshold)
  IN  passing # {} /\ \A d \in Collections : Cardinality(Of(passing, d)) >= quotas[d]

----------------------------------------------------------------------------
(* The envelope's evidence section. *)

\* A bug: the quotas are forgotten once the gate has passed.
SpareAny(kept, s, quotas) == TRUE

\* A parent can always go; a kept chunk only while its collection stays above its quota.
Spare(kept, s, quotas) ==
  LET d == Collection[s.chunk]
  IN  s.parent \/ Cardinality({t \in Of(kept, d) : ~t.parent}) > quotas[d]

Envelope(evidence, quotas) ==
  Trim(evidence, EnvelopeBudget, LAMBDA kept, s : Spare(kept, s, quotas))

=============================================================================
