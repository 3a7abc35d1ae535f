---------------------------- MODULE MCRetrieval -----------------------------
(* Two collections: a released product snapshot of a section and its clause; a law snapshot that
   is released and a second one that is being built, from either of two manifests. *)
EXTENDS Retrieval

CONSTANTS pr0, pr1, la1, la2, prod, lawOld, lawNew, m1, m2

MCChunks == {pr0, pr1, la1, la2}
MCCollection == (pr0 :> "product" @@ pr1 :> "product" @@ la1 :> "law" @@ la2 :> "law")
MCSize == (pr0 :> 1 @@ pr1 :> 1 @@ la1 :> 1 @@ la2 :> 1)
MCId == (pr0 :> 1 @@ pr1 :> 2 @@ la1 :> 3 @@ la2 :> 4)
MCAncestors == (pr0 :> <<>> @@ pr1 :> <<pr0>> @@ la1 :> <<>> @@ la2 :> <<la1>>)

Quota(p, l) == ("product" :> p @@ "law" :> l)

\* routing.yaml in small: nothing in S0, a rule with a quota of a gated collection, one without.
MCRules == <<
  [states |-> {"S0"}, topics |-> {}, collections |-> {}, quotas |-> Quota(0, 0)],
  [states |-> {}, topics |-> {"exclusion"}, collections |-> {"product", "law"},
   quotas |-> Quota(1, 0)],
  [states |-> {}, topics |-> {}, collections |-> {"product", "law"}, quotas |-> Quota(0, 0)]>>

Asked(s, t, f) == [state |-> s, topics |-> t, focus |-> f]
MCQuestions == {Asked("S0", {}, FALSE), Asked("S1", {}, FALSE), Asked("S1", {"exclusion"}, FALSE),
                Asked("S1", {"exclusion"}, TRUE), Asked("S3", {}, FALSE)}
MCServed == [embed |-> m1, rerank |-> m1]

MCSnapshots == {prod, lawOld, lawNew}
MCHolds == (prod :> "product" @@ lawOld :> "law" @@ lawNew :> "law")
MCReleases == (prod :> {{pr0, pr1}} @@ lawOld :> {{la1}} @@ lawNew :> {{la1}, {la2}})
MCRecorded == {prod, lawOld}
MCThreshold == ("rerank" :> 1 @@ "bm25" :> 1)
=============================================================================
