----------------------------- MODULE Retrieval ------------------------------
(***************************************************************************)
(* Evidence for a reply: the job that builds corpus snapshots               *)
(* (surakshasetu_ingest/assets.py) beside the retrieval service that        *)
(* answers from them (retrieval/service.py), on three services that fail    *)
(* and are redeployed: Qdrant, the embedder and the reranker.               *)
(*                                                                         *)
(* A question runs step by step, one step per remote call.  The service     *)
(* checks a pinned snapshot once and remembers it; it drops to BM25 when    *)
(* the embedder or the reranker is down; and what the gate lets through is  *)
(* cut once more by the prompt's envelope.                                  *)
(*                                                                         *)
(* Abstracted: which chunks a search finds and how they score is any choice *)
(* among the snapshot's points; the filters of a search are part of it.     *)
(***************************************************************************)
EXTENDS Evidence

CONSTANTS
  None,
  Snapshots,
  Holds,           \* [Snapshots -> the collection it is of]
  Releases,        \* [Snapshots -> the chunk sets its review manifest names while it is not recorded]
  Recorded,        \* the snapshots released before the start
  FirstServed,     \* the models served at the start
  EmbedModels, RerankModels,
  CalibratedFor,   \* thresholds.reranker
  Calibrated,      \* thresholds.snapshots
  Threshold,       \* [{"rerank", "bm25"} -> Nat]
  DegradedFactor,
  Questions,
  MaxScore,        \* bound: scores
  MaxMoves         \* bound: redeployed models, crashed builds and lost points

ASSUME RetrievalAssumption ==
  /\ FirstServed \in [embed : EmbedModels, rerank : RerankModels]
  /\ Threshold \in [{"rerank", "bm25"} -> Nat] /\ DegradedFactor \in Nat \ {0}
  /\ MaxScore \in Nat
  /\ \A s \in Snapshots : \A r \in Releases[s] :
       r # {} /\ r \subseteq {c \in Chunks : Collection[c] = Holds[s]}

VARIABLES
  points,      \* Qdrant: the chunks under each snapshot id
  catalog,     \* catalog.corpus_snapshot: a recorded snapshot's chunks and embedding model
  build,       \* the ingest job
  served,      \* the models tei-embed and tei-rerank serve
  verified,    \* RetrievalService._verified
  ask,         \* the question being answered
  moves

vars == <<points, catalog, build, served, verified, ask, moves>>

Item == [chunk : Chunks, score : 0..MaxScore, scale : {"rerank", "bm25"}, parent : BOOLEAN]

Idle == [at |-> "idle"]

TypeOK ==
  /\ points \in [Snapshots -> SUBSET Chunks]
  /\ \A s \in Snapshots : catalog[s] = None \/
       (catalog[s].chunks \in Releases[s] /\ catalog[s].model \in EmbedModels)
  /\ build = Idle \/
       (build.at \in {"vectors", "upsert"} /\ build.snapshot \in Snapshots
        /\ build.todo \subseteq build.chunks /\ build.model \in EmbedModels)
  /\ served \in [embed : EmbedModels, rerank : RerankModels]
  /\ verified \subseteq Snapshots
  /\ ask.at \in {"idle", "verify", "embed", "search", "score", "again", "gate", "done"}
  /\ ask.at = "done" =>
       /\ ask.outcome \in {"answered", "abstained", "unavailable"}
       /\ ask.evidence \in Seq(Item) /\ ask.shown \in Seq(Item)

----------------------------------------------------------------------------
Init ==
  /\ served = FirstServed
  /\ catalog \in [Snapshots -> {None} \union
                    UNION {[chunks : Releases[s], model : {served.embed}] : s \in Snapshots}]
  /\ \A s \in Snapshots :
       IF s \in Recorded THEN catalog[s] # None /\ catalog[s].chunks \in Releases[s]
                         ELSE catalog[s] = None
  /\ points = [s \in Snapshots |-> IF s \in Recorded THEN catalog[s].chunks ELSE {}]
  /\ build = Idle /\ ask = Idle
  /\ verified = {}
  /\ moves = 0

retrieval == <<verified, ask>>

----------------------------------------------------------------------------
(* The ingest job. *)

\* vectors: the embedder names its model, then embeds every chunk.
StartBuild(s, chunks) ==
  /\ build = Idle
  /\ build' = [at |-> "vectors", snapshot |-> s, chunks |-> chunks, todo |-> chunks,
               model |-> served.embed]
  /\ UNCHANGED <<points, catalog, served, moves, retrieval>>

\* A bug: the leftovers of a failed build stay.
IndexOver(s) ==
  /\ build.at = "vectors" /\ build.snapshot = s
  /\ build' = IF catalog[s] # None THEN Idle ELSE [build EXCEPT !.at = "upsert"]
  /\ UNCHANGED <<points, catalog, served, moves, retrieval>>

\* A recorded snapshot is immutable; points under an unrecorded one are a failed build's.
Index(s) ==
  /\ build.at = "vectors" /\ build.snapshot = s
  /\ IF catalog[s] # None
     THEN build' = Idle /\ UNCHANGED points
     ELSE /\ points' = [points EXCEPT ![s] = {}]
          /\ build' = [build EXCEPT !.at = "upsert"]
  /\ UNCHANGED <<catalog, served, moves, retrieval>>

Upsert(s, c) ==
  /\ build.at = "upsert" /\ build.snapshot = s /\ c \in build.todo
  /\ points' = [points EXCEPT ![s] = @ \union {c}]
  /\ build' = [build EXCEPT !.todo = @ \ {c}]
  /\ UNCHANGED <<catalog, served, moves, retrieval>>

\* The row is written last, and only when Qdrant counts every point.
Record(s) ==
  /\ build.at = "upsert" /\ build.snapshot = s /\ build.todo = {}
  /\ IF Cardinality(points[s]) = Cardinality(build.chunks)
     THEN catalog' = [catalog EXCEPT ![s] = [chunks |-> build.chunks, model |-> build.model]]
     ELSE UNCHANGED catalog
  /\ build' = Idle
  /\ UNCHANGED <<points, served, moves, retrieval>>

BuildFails ==
  /\ build # Idle /\ moves < MaxMoves
  /\ moves' = moves + 1
  /\ build' = Idle
  /\ UNCHANGED <<points, catalog, served, retrieval>>

Redeploy ==
  /\ moves < MaxMoves
  /\ moves' = moves + 1
  /\ served' \in [embed : EmbedModels, rerank : RerankModels] \ {served}
  /\ UNCHANGED <<points, catalog, build, retrieval>>

\* Qdrant comes back without a snapshot's points, or with some; not under a service that has
\* counted them: it counts once and would not know.
Lose(s, left) ==
  /\ moves < MaxMoves /\ ask = Idle /\ s \notin verified /\ catalog[s] # None
  /\ left \in (SUBSET points[s]) \ {points[s]}
  /\ moves' = moves + 1
  /\ points' = [points EXCEPT ![s] = left]
  /\ UNCHANGED <<catalog, build, served, retrieval>>

----------------------------------------------------------------------------
(* The retrieval service: select, then decide. *)

world == <<points, catalog, build, served, moves>>

Done(outcome) ==
  [at |-> "done", outcome |-> outcome, evidence |-> <<>>, shown |-> <<>>, question |-> ask.question]

Unavailable == ask' = Done("unavailable") /\ UNCHANGED <<verified, world>>

Onward(step, update) ==
  /\ ask' = [f \in DOMAIN ask \union DOMAIN update |->
               IF f = "at" THEN step ELSE IF f \in DOMAIN update THEN update[f] ELSE ask[f]]
  /\ UNCHANGED world

\* A session keeps the snapshots it pinned: any recorded one of a collection, or none.
Pinnable(d) == {None} \union {s \in Snapshots : Holds[s] = d /\ catalog[s] # None}

Begin(q, pins) ==
  LET route == Route(q)
      asked == [at |-> "verify", question |-> q, quotas |-> route.quotas,
                pins |-> {pins[d] : d \in route.collections}]
      ended(outcome) == [at |-> "done", outcome |-> outcome, evidence |-> <<>>, shown |-> <<>>,
                         question |-> q]
  IN  /\ ask = Idle
      /\ \A d \in Collections : pins[d] \in Pinnable(d)
      /\ ask' = IF route.abstains THEN ended("abstained")
                ELSE IF None \in asked.pins THEN ended("unavailable") ELSE asked
      /\ UNCHANGED <<verified, world>>

\* A bug: a snapshot is remembered before its points are counted.
VerifyUncounted(ok) ==
  /\ ask.at = "verify" /\ ok \subseteq ask.pins \ verified
  /\ verified' = verified \union ok
  /\ IF ask.pins \subseteq verified \union ok
     THEN Onward("embed", <<>>)
     ELSE ask' = Done("unavailable") /\ UNCHANGED world

\* _verified_meta for every pin: ok are those checked before one fails.
Verify(ok) ==
  /\ ask.at = "verify" /\ ok \subseteq ask.pins \ verified
  /\ \A s \in ok : Cardinality(points[s]) = Cardinality(catalog[s].chunks)
  /\ verified' = verified \union ok
  /\ IF ask.pins \subseteq verified \union ok
     THEN Onward("embed", <<>>)
     ELSE ask' = Done("unavailable") /\ UNCHANGED world

\* The embedding and both model checks at once.
Embed(embedUp, rerankUp) ==
  LET stale == embedUp /\ \E s \in ask.pins : catalog[s].model # served.embed
  IN  /\ ask.at = "embed"
      /\ UNCHANGED verified
      /\ IF stale
         THEN ask' = Done("unavailable") /\ UNCHANGED world
         ELSE Onward("search", [dense |-> embedUp,
                               reranker |-> IF rerankUp THEN served.rerank ELSE None])

Found == UNION {points[s] : s \in ask.pins}

Search(pool) ==
  /\ ask.at = "search" /\ pool \subseteq Found
  /\ UNCHANGED verified
  /\ Onward("score", [pool |-> pool, by |-> None])

Scored(score, scale) ==
  {[chunk |-> c, score |-> score[c], scale |-> scale, parent |-> FALSE] : c \in ask.pool}

Rerank(score) ==
  /\ ask.at = "score" /\ ask.reranker # None
  /\ score \in [ask.pool -> 0..MaxScore]
  /\ UNCHANGED verified
  /\ Onward("gate", [items |-> Scored(score, "rerank"), scale |-> "rerank", by |-> served.rerank])

\* A bug: the fused scores of the hybrid search are read as BM25's.
NoRerankFused ==
  /\ ask.at = "score"
  /\ UNCHANGED verified
  /\ \E score \in [ask.pool -> 0..MaxScore] :
       Onward("gate", [items |-> Scored(score, IF ask.dense THEN "fused" ELSE "bm25"),
                      scale |-> "bm25", reranker |-> None])

\* The reranker is down.  The fused scores mean nothing alone: search again, BM25 only.
NoRerank ==
  /\ ask.at = "score"
  /\ ask.reranker # None => ask.pool # {}
  /\ UNCHANGED verified
  /\ IF ask.dense
     THEN Onward("again", [reranker |-> None])
     ELSE \E score \in [ask.pool -> 0..MaxScore] :
            Onward("gate", [items |-> Scored(score, "bm25"), scale |-> "bm25", reranker |-> None])

SearchAgain(pool) ==
  /\ ask.at = "again" /\ pool \subseteq Found
  /\ UNCHANGED verified
  /\ \E score \in [pool -> 0..MaxScore] :
       Onward("gate", [pool |-> pool, scale |-> "bm25",
                      items |-> {[chunk |-> c, score |-> score[c], scale |-> "bm25",
                                  parent |-> FALSE] : c \in pool}])

Degraded == ~ask.dense \/ ask.scale = "bm25"

\* A bug: a degraded search is held to the threshold of a full one.
BarLenient == Threshold[ask.scale]

Bar == Threshold[ask.scale] * (IF Degraded THEN DegradedFactor ELSE 1)

\* Thresholds hold for the snapshots and the reranker they were calibrated with.
Defective ==
  \/ \E s \in ask.pins : s \notin Calibrated
  \/ ask.scale = "rerank" /\ ask.reranker # CalibratedFor

\* The parents are fetched, the gate decides, and the envelope is cut to its budget.
Decide ==
  LET evidence == AddParents(Select(ask.items, ask.quotas), Found, ask.scale)
      answered == Sufficient(evidence, ask.quotas, Bar)
  IN  /\ ask.at = "gate"
      /\ UNCHANGED <<verified, world>>
      /\ ask' = IF Defective THEN Done("unavailable")
                ELSE IF ~answered THEN Done("abstained")
                ELSE [at |-> "done", outcome |-> "answered", evidence |-> evidence,
                      shown |-> Envelope(evidence, ask.quotas),
                      question |-> ask.question, pins |-> ask.pins, quotas |-> ask.quotas,
                      reranker |-> ask.reranker, by |-> ask.by, dense |-> ask.dense,
                      scale |-> ask.scale]

\* Qdrant is down at a search, a count or a scroll.
QdrantDown ==
  /\ ask.at \in {"search", "again", "gate"}
  /\ Unavailable

Answered ==
  /\ ask.at = "done"
  /\ ask' = Idle
  /\ UNCHANGED <<verified, world>>

\* The process restarts and knows no snapshot.
Restart ==
  /\ ask = Idle /\ verified # {}
  /\ verified' = {}
  /\ UNCHANGED <<ask, world>>

----------------------------------------------------------------------------
Begins(s) == \E chunks \in Releases[s] : StartBuild(s, chunks)

Works(s) == Index(s) \/ (\E c \in Chunks : Upsert(s, c)) \/ Record(s)

Build == \E s \in Snapshots : Begins(s) \/ Works(s)

Retrieve ==
  \/ \E q \in Questions, pins \in [Collections -> Snapshots \union {None}] : Begin(q, pins)
  \/ \E ok \in SUBSET Snapshots : Verify(ok)
  \/ \E embedUp, rerankUp \in BOOLEAN : Embed(embedUp, rerankUp)
  \/ \E pool \in SUBSET Chunks : Search(pool) \/ SearchAgain(pool)
  \/ ask.at = "score" /\ \E score \in [ask.pool -> 0..MaxScore] : Rerank(score)
  \/ NoRerank
  \/ Decide
  \/ QdrantDown
  \/ Answered
  \/ Restart

Lost == \E s \in Snapshots, left \in SUBSET Chunks : Lose(s, left)

Next == Build \/ BuildFails \/ Redeploy \/ Lost \/ Retrieve

Spec == Init /\ [][Next]_vars

\* An operator runs the job until the manifest's snapshots are all recorded; a run goes through
\* each of them, and each of its steps is a call that ends.
FairSpec == Spec /\ \A s \in Snapshots : SF_vars(Begins(s)) /\ WF_vars(Works(s))

----------------------------------------------------------------------------
(* Properties. *)

IsAnswer == ask.at = "done" /\ ask.outcome = "answered"

\* Whatever builds failed before, was restarted or was left in Qdrant: a snapshot the service has
\* checked holds exactly the chunks it was released with, an answer's evidence is from the
\* snapshots the session pinned, and a product's text is evidence only where products may be
\* spoken of (service.py:10 "never a silent mismatch", routing.yaml's I3).
EvidenceIsReleased ==
  /\ \A s \in verified : points[s] = catalog[s].chunks
  /\ IsAnswer => \A i \in ToSet(ask.evidence) :
       /\ \E s \in ask.pins : i.chunk \in catalog[s].chunks
       /\ Collection[i.chunk] = "product" =>
            ask.question.focus \/ ask.question.state \in ProductStates

\* What the thresholds demand of an answer's evidence: on the scale it was scored on, stricter as
\* soon as one of the two searches or the reranker was missing.
Demanded ==
  Threshold[ask.scale] * (IF ask.dense /\ ask.scale = "rerank" THEN 1 ELSE DegradedFactor)

\* Through every combination of outages: scores of two scales never meet in one decision, each is
\* held to its own threshold, and a reranked one to that of the model it was calibrated for, unless
\* the reranker was replaced between its check and its use (service.py:250, :421).
JudgedOnItsScale ==
  IsAnswer =>
    /\ \A i \in ToSet(ask.evidence) : i.scale = ask.scale
    /\ Passing(ask.evidence, Demanded) # {}
    /\ ask.scale = "rerank" => ask.by = CalibratedFor \/ ask.by # ask.reranker

\* Two budgets cut the evidence after it was judged or scored, with parents added in between: what
\* the model sees is part of what was judged and would be judged sufficient again, so no answer
\* rests on a section that was there for context only.
EnoughIsShown ==
  IsAnswer =>
    /\ ToSet(ask.shown) \subseteq ToSet(ask.evidence)
    /\ Sufficient(ask.shown, ask.quotas, Demanded)

\* What is judged sufficient is judged on its own scale, and is what the model sees.
AnswersAreEarned == JudgedOnItsScale /\ EnoughIsShown

\* A build that died half way, with chunks of a manifest that has changed since, never keeps the
\* snapshot from being released: the leftovers go first.
BuildCompletes == \A s \in Snapshots : <>(catalog[s] # None)

=============================================================================
