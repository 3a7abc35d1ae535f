--------------------------- MODULE JourneyProofs ---------------------------
(***************************************************************************)
(* First the transition function row by row: what its first matching row    *)
(* can be, for every set of products and hashes, every limit and every      *)
(* record of facts, and what that guarantees of a decision.                 *)
(*                                                                          *)
(* Then what Journey guarantees for every set of profiles, products and     *)
(* hashes, whatever the engines answer.  A turn is a chain of functions on  *)
(* a scratch (the session, the answers, the signals raised so far), so the  *)
(* argument is one too: each of them keeps a scratch sound, that is, what   *)
(* the session holds of the engines is of the answers it holds (HeldFor);   *)
(* decide then moves to S2 or S3 only someone who may be advised, by the    *)
(* lemmas about rows; the enter hook keeps that.                            *)
(***************************************************************************)
EXTENDS Journey, FsmDecision, WellFoundedInduction, TLAPS

----------------------------------------------------------------------------
(* One decision. *)

\* The matching rows always have a first one: StayRow matches everywhere and every order is a
\* natural number, so decide's next(...) never runs off the table.
LEMMA NatHasMinimum ==
  ASSUME NEW T, T \subseteq Nat, T # {}
  PROVE  \E x \in T : \A y \in T : x <= y
<1> DEFINE R == OpToRel(<, Nat)
<1>1. IsWellFoundedOn(R, Nat)
  BY NatLessThanWellFounded
<1>2. \A x, y \in Nat : <<y, x>> \in R <=> y < x
  BY DEF OpToRel
<1> HIDE DEF R
<1>3. PICK x \in T : \A y \in T : ~(<<y, x>> \in R)
  BY <1>1, WFMin
<1>4. ASSUME NEW y \in T PROVE x <= y
  <2>1. x \in Nat /\ y \in Nat
    OBVIOUS
  <2>2. ~(<<y, x>> \in R)
    BY <1>3
  <2>3. ~(y < x)
    BY <1>2, <2>1, <2>2
  <2> QED
    BY <2>1, <2>3
<1> QED
  BY <1>4

\* The matching rows are those of the whole table that apply; STAY applies everywhere.
LEMMA MatchingRows ==
  ASSUME NEW f, NEW s \in FsmState
  PROVE  Matching(f, s) = {r \in Rows(f) : s \in r.scope /\ r.when}
<1>1. s \in StayRow.scope /\ StayRow.when
  BY DEF StayRow, Row
<1>2. Matching(f, s) = {r \in CrossCutting(f) : s \in r.scope /\ r.when}
                       \union {r \in OwnRows(f) : s \in r.scope /\ r.when} \union {StayRow}
  BY DEF Matching, Applying
<1> HIDE DEF StayRow
<1> QED
  BY <1>1, <1>2, Zenon DEF Rows

LEMMA OrdersAreNaturals ==
  ASSUME NEW f, NEW r \in Rows(f)
  PROVE  r.order \in Nat
BY DEF Rows, CrossCutting, OwnRows, OwnRow, StayRow, Row

LEMMA DecidingIsFirst ==
  ASSUME NEW f, NEW s \in FsmState
  PROVE  IsFirst(Deciding(f, s), Matching(f, s))
<1> DEFINE M == Matching(f, s)
           T == {r.order : r \in M}
<1>1. StayRow \in M
  BY DEF Matching
<1>2. M \subseteq Rows(f)
  BY MatchingRows
<1>3. T \subseteq Nat /\ T # {}
  BY <1>1, <1>2, OrdersAreNaturals
<1>4. PICK x \in T : \A y \in T : x <= y
  BY <1>3, NatHasMinimum
<1>5. PICK r \in M : r.order = x
  BY <1>4
<1>6. IsFirst(r, M)
  BY <1>4, <1>5 DEF IsFirst
<1> QED
  BY <1>6 DEF Deciding

----------------------------------------------------------------------------
(* One row's effect. *)

SafeMove(f, to) ==
  /\ to \in NeedsP1 => ValidP1(f)
  /\ to = "S3" => SuitabilityCurrent(f)

\* Only PAUSE has the RESUME row, so resuming re-enters a state exactly once.
LEMMA OnlyPauseResumes ==
  ASSUME NEW f, NEW s \in Engaged, NEW r \in Matching(f, s)
  PROVE  r.to # "RESUME"
BY MatchingRows DEF FsmState, Rows, CrossCutting, OwnRows, OwnRow, StayRow, Row, Engaged, Active

\* G1 and G4 come before every row that stays in or moves between the states they guard.
LEMMA FirstRowSafe ==
  ASSUME NEW f, NEW s \in Active, NEW r, IsFirst(r, Matching(f, s)), r.to # "RESUME"
  PROVE  SafeMove(f, Outcome(r, s).to)
<1> USE DEF Row, OwnRow
<1>1. r \in Rows(f) /\ s \in r.scope /\ r.when
  BY MatchingRows DEF IsFirst, FsmState
<1>2. \A q \in Rows(f) : s \in q.scope /\ q.when => r.order <= q.order
  BY MatchingRows DEF IsFirst, FsmState
<1>3. ASSUME Outcome(r, s).to \in NeedsP1, ~ValidP1(f) PROVE FALSE
  <2>1. CASE s \in {"S0", "PAUSE"}
    <3>1. \/ r = OwnRow("S0.3", "S0", 3, "QUOTE_ONLY", ValidP1(f) /\ f.intent = "specific_plan")
          \/ r = OwnRow("S0.4", "S0", 4, "S1", ValidP1(f) /\ f.intent = "new_purchase")
      BY <1>1, <1>3, <2>1 DEF Outcome, NeedsP1, Rows, CrossCutting, OwnRows, StayRow, Engaged,
         Active
    <3>2. CASE r = OwnRow("S0.3", "S0", 3, "QUOTE_ONLY",
                          ValidP1(f) /\ f.intent = "specific_plan")
      BY <1>1, <1>3, <3>2, Zenon
    <3>3. CASE r = OwnRow("S0.4", "S0", 4, "S1", ValidP1(f) /\ f.intent = "new_purchase")
      BY <1>1, <1>3, <3>3, Zenon
    <3> QED
      BY <3>1, <3>2, <3>3, Zenon
  <2>2. CASE s \in {"S1", "QUOTE_ONLY", "S2", "S3"}
    <3>1. Row("G1", {"S1", "QUOTE_ONLY", "S2", "S3"}, 5, "S0", ~ValidP1(f)) \in Rows(f)
      BY DEF Rows, CrossCutting
    <3>2. r.order <= 5
      BY <1>2, <1>3, <2>2, <3>1
    <3> QED
      BY <1>1, <1>3, <2>2, <3>2 DEF Outcome, NeedsP1, Rows, CrossCutting, OwnRows, StayRow
  <2> QED
    BY <2>1, <2>2 DEF Active, Engaged
<1>4. ASSUME Outcome(r, s).to = "S3", ~SuitabilityCurrent(f) PROVE FALSE
  <2>1. CASE s = "S3"
    <3>1. Row("G4", {"S3"}, 8, "S2", ~SuitabilityCurrent(f)) \in Rows(f)
      BY DEF Rows, CrossCutting
    <3>2. r.order <= 8
      BY <1>2, <1>4, <2>1, <3>1
    <3> QED
      BY <1>1, <1>4, <2>1, <3>2 DEF Outcome, Rows, CrossCutting, OwnRows, StayRow
  <2>2. CASE s # "S3"
    <3>1. r = OwnRow("S2.2", "S2", 3, "S3", Suitable(f))
      BY <1>1, <1>4, <2>2 DEF Outcome, Rows, CrossCutting, OwnRows, StayRow
    <3>2. Suitable(f)
      BY <1>1, <3>1, Zenon
    <3> QED
      BY <1>4, <3>2 DEF Suitable, CurrentOutcome
  <2> QED
    BY <2>1, <2>2
<1> QED
  BY <1>3, <1>4 DEF SafeMove

\* CC1 and CC1b are the first two rows of every open state.
LEMMA FirstRowErases ==
  ASSUME NEW f \in Facts, NEW s \in Active, NEW r, IsFirst(r, Matching(f, s)),
         f.withdraw \/ f.minor
  PROVE  r.to = "DATA_ERASURE" /\ r.id \notin {"CC4", "CC5"}
<1> USE DEF Row, OwnRow
<1>1. r \in Rows(f) /\ s \in r.scope /\ r.when
  BY MatchingRows DEF IsFirst, FsmState
<1>2. \A q \in Rows(f) : s \in q.scope /\ q.when => r.order <= q.order
  BY MatchingRows DEF IsFirst, FsmState
<1> DEFINE cc1  == Row("CC1", Active, 1, "DATA_ERASURE", f.withdraw)
           cc1b == Row("CC1b", Active, 2, "DATA_ERASURE", f.minor)
<1>3. cc1 \in Rows(f) /\ s \in cc1.scope /\ cc1.order = 1
  BY DEF Rows, CrossCutting
<1>4. cc1b \in Rows(f) /\ s \in cc1b.scope /\ cc1b.order = 2
  BY DEF Rows, CrossCutting
<1>5. \/ f.withdraw /\ cc1.when
      \/ f.minor /\ cc1b.when
  BY Zenon
<1> HIDE DEF cc1, cc1b
<1>6. r.order <= 2
  <2>1. CASE cc1.when
    <3>1. r.order <= cc1.order
      BY <1>2, <1>3, <2>1, Zenon
    <3> QED
      BY <1>1, <1>3, <3>1, OrdersAreNaturals
  <2>2. CASE cc1b.when
    <3>1. r.order <= cc1b.order
      BY <1>2, <1>4, <2>2, Zenon
    <3> QED
      BY <1>1, <1>4, <3>1, OrdersAreNaturals
  <2> QED
    BY <1>5, <2>1, <2>2, Zenon
<1> QED
  BY <1>1, <1>6 DEF Rows, CrossCutting, OwnRows, StayRow

\* S3.4 is the only way into HANDOFF.
LEMMA FirstRowHandsOff ==
  ASSUME NEW f, NEW s \in Active, NEW r, IsFirst(r, Matching(f, s)),
         Outcome(r, s).to = "HANDOFF"
  PROVE  s = "S3" /\ CanHandOff(f) /\ SuitabilityCurrent(f)
<1> USE DEF Row, OwnRow
<1>1. r \in Rows(f) /\ s \in r.scope /\ r.when
  BY MatchingRows DEF IsFirst, FsmState
<1>2. \A q \in Rows(f) : s \in q.scope /\ q.when => r.order <= q.order
  BY MatchingRows DEF IsFirst, FsmState
<1>3. s = "S3" /\ r = OwnRow("S3.4", "S3", 5, "HANDOFF", CanHandOff(f))
  BY <1>1 DEF Outcome, Rows, CrossCutting, OwnRows, StayRow, Active, Engaged
<1>4. CanHandOff(f)
  BY <1>1, <1>3, Zenon
<1>5. ASSUME ~SuitabilityCurrent(f) PROVE FALSE
  <2>1. Row("G4", {"S3"}, 8, "S2", ~SuitabilityCurrent(f)) \in Rows(f)
    BY DEF Rows, CrossCutting
  <2>2. r.order <= 8
    BY <1>2, <1>3, <1>5, <2>1
  <2> QED
    BY <1>3, <2>2
<1> QED
  BY <1>3, <1>4, <1>5

\* A move to advice or to a pause, out of state s: what its row asks of the facts.
AdvisingMove(f, s, to) ==
  /\ to \in {"S2", "S3"} => \/ s \in {"S1", "QUOTE_ONLY"} /\ Eligible(f)
                            \/ s \in {"S2", "S3"} /\ f.correction # "eligibility"
  /\ to = "PAUSE" /\ s \in {"S2", "S3"} /\ f.correction = "eligibility" =>
       f.inactivity_timeout \/ f.dependency_down
  /\ to = "S3" /\ s # "S3" => s = "S2" /\ Suitable(f)

\* G2 comes before every row that stays in or moves between S2 and S3, or defers; the other ways
\* in ask for the engine's word.
LEMMA FirstRowAdvises ==
  ASSUME NEW f, NEW s \in Active, NEW r, IsFirst(r, Matching(f, s)), r.to # "RESUME"
  PROVE  AdvisingMove(f, s, Outcome(r, s).to)
<1> USE DEF Row, OwnRow
<1>1. r \in Rows(f) /\ s \in r.scope /\ r.when
  BY MatchingRows DEF IsFirst, FsmState
<1>2. \A q \in Rows(f) : s \in q.scope /\ q.when => r.order <= q.order
  BY MatchingRows DEF IsFirst, FsmState
<1>3. ASSUME s \in {"S2", "S3"}, f.correction = "eligibility",
             Outcome(r, s).to \in {"S2", "S3", "PAUSE"}
      PROVE  f.inactivity_timeout \/ f.dependency_down
  <2>1. Row("G2", {"S2", "S3"}, 6, "S1", f.correction = "eligibility") \in Rows(f)
    BY DEF Rows, CrossCutting
  <2>2. r.order <= 6
    BY <1>2, <1>3, <2>1
  <2>3. r = Row("CC3", Engaged, 4, "PAUSE",
                ConsentGivenEver(f) /\ (f.inactivity_timeout \/ f.dependency_down))
    BY <1>1, <1>3, <2>2 DEF Outcome, Rows, CrossCutting, OwnRows, StayRow
  <2> QED
    BY <1>1, <2>3, Zenon
<1>4. ASSUME s \in {"S2", "S3"}, f.correction = "eligibility",
             Outcome(r, s).to \in {"S2", "S3"}
      PROVE  FALSE
  <2>1. Row("G2", {"S2", "S3"}, 6, "S1", f.correction = "eligibility") \in Rows(f)
    BY DEF Rows, CrossCutting
  <2>2. r.order <= 6
    BY <1>2, <1>4, <2>1
  <2> QED
    BY <1>1, <1>4, <2>2 DEF Outcome, Rows, CrossCutting, OwnRows, StayRow
<1>5. ASSUME s \notin {"S2", "S3"}, Outcome(r, s).to \in {"S2", "S3"}
      PROVE  s \in {"S1", "QUOTE_ONLY"} /\ Eligible(f)
  <2>1. \/ s = "S1" /\ r = OwnRow("S1.4", "S1", 5, "S2", Eligible(f))
        \/ /\ s = "QUOTE_ONLY"
           /\ r = OwnRow("QO.3", "QUOTE_ONLY", 3, "S2", f.advisory_opt_in /\ Eligible(f))
    BY <1>1, <1>5 DEF Outcome, Rows, CrossCutting, OwnRows, StayRow
  <2>2. CASE r = OwnRow("S1.4", "S1", 5, "S2", Eligible(f))
    BY <1>1, <2>2, Zenon
  <2>3. CASE r = OwnRow("QO.3", "QUOTE_ONLY", 3, "S2", f.advisory_opt_in /\ Eligible(f))
    BY <1>1, <2>3, Zenon
  <2>4. Eligible(f)
    BY <2>1, <2>2, <2>3, Zenon
  <2> QED
    BY <2>1, <2>4
<1>6. ASSUME Outcome(r, s).to = "S3", s # "S3" PROVE s = "S2" /\ Suitable(f)
  <2>1. s = "S2" /\ r = OwnRow("S2.2", "S2", 3, "S3", Suitable(f))
    BY <1>1, <1>6 DEF Outcome, Rows, CrossCutting, OwnRows, StayRow
  <2> QED
    BY <1>1, <2>1, Zenon
<1> QED
  BY <1>3, <1>4, <1>5, <1>6, Zenon DEF AdvisingMove

\* A pause, taken or kept, is the customer's wish or a timeout's or an outage's.
LEMMA FirstRowPauses ==
  ASSUME NEW f, NEW s \in Active, NEW r, IsFirst(r, Matching(f, s)), r.to # "RESUME",
         Outcome(r, s).to = "PAUSE"
  PROVE  f.inactivity_timeout \/ f.dependency_down \/ f.need_time
<1> USE DEF Row, OwnRow
<1>1. r \in Rows(f) /\ s \in r.scope /\ r.when
  BY MatchingRows DEF IsFirst, FsmState
<1>2. \A q \in Rows(f) : s \in q.scope /\ q.when => r.order <= q.order
  BY MatchingRows DEF IsFirst, FsmState
<1> DEFINE cc3  == Row("CC3", Engaged, 4, "PAUSE",
                       ConsentGivenEver(f) /\ (f.inactivity_timeout \/ f.dependency_down))
           cc3b == Row("CC3b", {"S1", "QUOTE_ONLY", "S2"}, 11, "PAUSE",
                       ConsentGivenEver(f) /\ f.need_time)
           s32  == OwnRow("S3.2", "S3", 2, "PAUSE", f.need_time)
<1>3. \/ r \in {cc3, cc3b, s32}
      \/ s = "PAUSE" /\ r.order = 199
  BY <1>1 DEF Outcome, Rows, CrossCutting, OwnRows, StayRow, Active, Engaged
<1>4. CASE r = cc3
  BY <1>1, <1>4, Zenon
<1>5. CASE r = cc3b
  BY <1>1, <1>5, Zenon
<1>6. CASE r = s32
  BY <1>1, <1>6, Zenon
<1>7. CASE s = "PAUSE" /\ r.order = 199
  <2> DEFINE q == OwnRow("PAUSE.R", "PAUSE", 1, "RESUME", ~f.inactivity_timeout)
  <2>1. q \in Rows(f) /\ s \in q.scope /\ q.order = 101
    BY <1>7 DEF Rows, OwnRows
  <2>2. q.when <=> ~f.inactivity_timeout
    BY Zenon
  <2> HIDE DEF q
  <2>3. ~q.when
    BY <1>2, <1>7, <2>1
  <2> QED
    BY <2>2, <2>3, Zenon
<1> QED
  BY <1>3, <1>4, <1>5, <1>6, <1>7

\* What keeps S3.4 from deciding: every row of S3 that comes before it.
Undisturbed(f) ==
  /\ ~f.withdraw /\ ~f.minor /\ ~EscalationDue(f)
  /\ ~f.inactivity_timeout /\ ~f.dependency_down /\ ValidP1(f)
  /\ f.correction = "none" /\ SuitabilityCurrent(f)
  /\ ~f.faq /\ ~f.objection /\ ~f.end_requested
  /\ ~f.no_options /\ ~f.explicit_decline /\ ~f.need_time /\ ~f.all_rejected

\* With the hand-off's condition met and nothing before it, S3 hands off.
LEMMA FirstRowTakes ==
  ASSUME NEW f, Undisturbed(f), CanHandOff(f), NEW r, IsFirst(r, Matching(f, "S3"))
  PROVE  r.to = "HANDOFF" /\ r.id = "S3.4"
<1> USE DEF Row, OwnRow
<1>1. r \in Rows(f) /\ "S3" \in r.scope /\ r.when
  BY MatchingRows DEF IsFirst, FsmState, Active, Engaged
<1>2. \A q \in Rows(f) : "S3" \in q.scope /\ q.when => r.order <= q.order
  BY MatchingRows DEF IsFirst, FsmState, Active, Engaged
<1> DEFINE s34 == OwnRow("S3.4", "S3", 5, "HANDOFF", CanHandOff(f))
<1>3. s34 \in Rows(f) /\ "S3" \in s34.scope /\ s34.order = 105
  BY DEF Rows, OwnRows
<1>4. s34.when
  BY Zenon
<1>5. r.order <= 105
  BY <1>2, <1>3, <1>4
<1> HIDE DEF s34
<1>6. \/ r \in CrossCutting(f)
      \/ r = OwnRow("S3.0", "S3", 0, "HUMAN_ESCALATION", f.no_options)
      \/ r = OwnRow("S3.1", "S3", 1, "EXIT", f.explicit_decline /\ f.rediscovery_loops >= 1)
      \/ r = OwnRow("S3.2", "S3", 2, "PAUSE", f.need_time)
      \/ r = OwnRow("S3.3", "S3", 3, "S2",
                    f.all_rejected /\ f.rediscovery_loops < RediscoveryLoopLimit)
      \/ r = OwnRow("S3.3b", "S3", 4, "HUMAN_ESCALATION",
                    f.all_rejected /\ f.rediscovery_loops >= RediscoveryLoopLimit)
      \/ r = s34
  BY <1>1, <1>5 DEF Rows, OwnRows, StayRow, s34
<1>7. CASE r = s34
  BY <1>7 DEF s34
<1>8. CASE r = OwnRow("S3.0", "S3", 0, "HUMAN_ESCALATION", f.no_options)
  BY <1>1, <1>8, Zenon DEF Undisturbed
<1>9. CASE r = OwnRow("S3.1", "S3", 1, "EXIT", f.explicit_decline /\ f.rediscovery_loops >= 1)
  BY <1>1, <1>9, Zenon DEF Undisturbed
<1>10. CASE r = OwnRow("S3.2", "S3", 2, "PAUSE", f.need_time)
  BY <1>1, <1>10, Zenon DEF Undisturbed
<1>11. CASE r = OwnRow("S3.3", "S3", 3, "S2",
                       f.all_rejected /\ f.rediscovery_loops < RediscoveryLoopLimit)
  BY <1>1, <1>11, Zenon DEF Undisturbed
<1>12. CASE r = OwnRow("S3.3b", "S3", 4, "HUMAN_ESCALATION",
                       f.all_rejected /\ f.rediscovery_loops >= RediscoveryLoopLimit)
  BY <1>1, <1>12, Zenon DEF Undisturbed
<1>13. CASE r \in CrossCutting(f)
  <2>1. \/ r.scope = {"S1", "QUOTE_ONLY", "S2"}
        \/ r = Row("CC1", Active, 1, "DATA_ERASURE", f.withdraw)
        \/ r = Row("CC1b", Active, 2, "DATA_ERASURE", f.minor)
        \/ r = Row("CC2", Active, 3, "HUMAN_ESCALATION", EscalationDue(f))
        \/ r = Row("CC3", Engaged, 4, "PAUSE",
                   ConsentGivenEver(f) /\ (f.inactivity_timeout \/ f.dependency_down))
        \/ r = Row("G1", {"S1", "QUOTE_ONLY", "S2", "S3"}, 5, "S0", ~ValidP1(f))
        \/ r = Row("G2", {"S2", "S3"}, 6, "S1", f.correction = "eligibility")
        \/ r = Row("G3", {"S3"}, 7, "S2", f.correction = "needs")
        \/ r = Row("G4", {"S3"}, 8, "S2", ~SuitabilityCurrent(f))
        \/ r = Row("CC4", Engaged, 9, "STAY", f.faq)
        \/ r = Row("CC5", Engaged, 10, "STAY", f.objection)
        \/ r = Row("CC5b", {"S1", "QUOTE_ONLY", "S2", "S3"}, 12, "EXIT", f.end_requested)
    BY <1>13 DEF CrossCutting
  <2>2. r.scope # {"S1", "QUOTE_ONLY", "S2"}
    BY <1>1
  <2>3. f.correction # "eligibility" /\ f.correction # "needs"
    BY DEF Undisturbed
  <2>4. CASE r = Row("CC1", Active, 1, "DATA_ERASURE", f.withdraw)
    BY <1>1, <2>3, <2>4, Zenon DEF Undisturbed
  <2>5. CASE r = Row("CC1b", Active, 2, "DATA_ERASURE", f.minor)
    BY <1>1, <2>3, <2>5, Zenon DEF Undisturbed
  <2>6. CASE r = Row("CC2", Active, 3, "HUMAN_ESCALATION", EscalationDue(f))
    BY <1>1, <2>3, <2>6, Zenon DEF Undisturbed
  <2>7. CASE r = Row("CC3", Engaged, 4, "PAUSE",
                    ConsentGivenEver(f) /\ (f.inactivity_timeout \/ f.dependency_down))
    BY <1>1, <2>3, <2>7, Zenon DEF Undisturbed
  <2>8. CASE r = Row("G1", {"S1", "QUOTE_ONLY", "S2", "S3"}, 5, "S0", ~ValidP1(f))
    BY <1>1, <2>3, <2>8, Zenon DEF Undisturbed
  <2>9. CASE r = Row("G2", {"S2", "S3"}, 6, "S1", f.correction = "eligibility")
    BY <1>1, <2>3, <2>9, Zenon DEF Undisturbed
  <2>10. CASE r = Row("G3", {"S3"}, 7, "S2", f.correction = "needs")
    BY <1>1, <2>3, <2>10, Zenon DEF Undisturbed
  <2>11. CASE r = Row("G4", {"S3"}, 8, "S2", ~SuitabilityCurrent(f))
    BY <1>1, <2>3, <2>11, Zenon DEF Undisturbed
  <2>12. CASE r = Row("CC4", Engaged, 9, "STAY", f.faq)
    BY <1>1, <2>3, <2>12, Zenon DEF Undisturbed
  <2>13. CASE r = Row("CC5", Engaged, 10, "STAY", f.objection)
    BY <1>1, <2>3, <2>13, Zenon DEF Undisturbed
  <2>14. CASE r = Row("CC5b", {"S1", "QUOTE_ONLY", "S2", "S3"}, 12, "EXIT", f.end_requested)
    BY <1>1, <2>3, <2>14, Zenon DEF Undisturbed
  <2> QED
    BY <2>1, <2>2, <2>4, <2>5, <2>6, <2>7, <2>8, <2>9, <2>10, <2>11, <2>12, <2>13, <2>14, Zenon
<1> QED
  BY <1>6, <1>7, <1>8, <1>9, <1>10, <1>11, <1>12, <1>13

----------------------------------------------------------------------------
(* The transition function. *)

LEMMA RowTargets ==
  ASSUME NEW f, NEW s \in FsmState, NEW r \in Matching(f, s)
  PROVE  r.to \in FsmState \union {"STAY", "RESUME"}
BY MatchingRows DEF Rows, CrossCutting, OwnRows, OwnRow, StayRow, Row, FsmState, Active, Engaged,
   Terminal

\* A turn that finds the session closed leaves it where it is.
LEMMA TerminalStays ==
  ASSUME NEW f, NEW s \in Terminal
  PROVE  Transition(f, s) = [to |-> s, row |-> "STAY"]
<1>1. s \in FsmState
  BY DEF FsmState
<1>2. Deciding(f, s) \in Matching(f, s)
  BY <1>1, DecidingIsFirst DEF IsFirst
<1>3. Deciding(f, s) = StayRow
  BY <1>1, <1>2, MatchingRows DEF Rows, CrossCutting, OwnRows, OwnRow, StayRow, Row, Terminal,
     Active, Engaged
<1> QED
  BY <1>3 DEF Transition, Outcome, StayRow, Row

\* Every outcome for an open session is one first row's outcome: of the session's own state, or,
\* when PAUSE.R decides, of the engaged state the pause returns to.
LEMMA OneRowBehind ==
  ASSUME NEW f, NEW s \in Active
  PROVE  \E t \in Active : \E r :
           /\ IsFirst(r, Matching(f, t)) /\ r.to # "RESUME"
           /\ Transition(f, s).to = Outcome(r, t).to
           /\ t = s \/ (s = "PAUSE" /\ t = ResumeTarget(f))
<1>1. s \in FsmState
  BY DEF FsmState
<1>2. IsFirst(Deciding(f, s), Matching(f, s))
  BY <1>1, DecidingIsFirst
<1>3. CASE Deciding(f, s).to # "RESUME"
  BY <1>2, <1>3 DEF Transition
<1>4. CASE Deciding(f, s).to = "RESUME"
  <2> DEFINE t == ResumeTarget(f)
  <2>1. t \in Engaged
    BY DEF ResumeTarget, Resumable, Engaged
  <2>2. IsFirst(Deciding(f, t), Matching(f, t)) /\ Deciding(f, t) \in Matching(f, t)
    BY <2>1, DecidingIsFirst DEF FsmState, Active, IsFirst
  <2>3. Deciding(f, t).to # "RESUME"
    BY <2>1, <2>2, OnlyPauseResumes
  <2>4. s = "PAUSE"
    <3>1. Deciding(f, s) \in Matching(f, s)
      BY <1>2 DEF IsFirst
    <3> QED
      BY <1>4, <3>1, OnlyPauseResumes DEF Active
  <2>5. Transition(f, s).to = Outcome(Deciding(f, t), t).to
    BY <1>4 DEF Transition, Resumed, Outcome
  <2> QED
    BY <2>1, <2>2, <2>3, <2>4, <2>5 DEF Active
<1> QED
  BY <1>3, <1>4

LEMMA TransitionSafe ==
  ASSUME NEW f, NEW s \in Active
  PROVE  SafeMove(f, Transition(f, s).to)
BY OneRowBehind, FirstRowSafe

LEMMA TransitionErases ==
  ASSUME NEW f \in Facts, NEW s \in Active, f.withdraw \/ f.minor
  PROVE  Transition(f, s).to = "DATA_ERASURE"
<1>1. PICK t \in Active : \E r :
           /\ IsFirst(r, Matching(f, t)) /\ r.to # "RESUME"
           /\ Transition(f, s).to = Outcome(r, t).to
  BY OneRowBehind
<1>2. PICK r : IsFirst(r, Matching(f, t)) /\ Transition(f, s).to = Outcome(r, t).to
  BY <1>1
<1>3. r.to = "DATA_ERASURE"
  BY <1>2, FirstRowErases
<1> QED
  BY <1>2, <1>3 DEF Outcome

LEMMA TransitionHandsOff ==
  ASSUME NEW f, NEW s \in Active, Transition(f, s).to = "HANDOFF"
  PROVE  /\ s = "S3" \/ (s = "PAUSE" /\ f.paused_from = "S3")
         /\ CanHandOff(f) /\ SuitabilityCurrent(f)
<1>1. PICK t \in Active : \E r :
           /\ IsFirst(r, Matching(f, t))
           /\ Transition(f, s).to = Outcome(r, t).to
           /\ t = s \/ (s = "PAUSE" /\ t = ResumeTarget(f))
  BY OneRowBehind
<1>2. t = "S3" /\ CanHandOff(f) /\ SuitabilityCurrent(f)
  BY <1>1, FirstRowHandsOff
<1> QED
  BY <1>1, <1>2 DEF ResumeTarget

\* A transition is the move of one state's row: the session's, or the one its pause resumes.
LEMMA TransitionAdvises ==
  ASSUME NEW f, NEW s \in Active
  PROVE  \E t \in Active : /\ t = s \/ (s = "PAUSE" /\ t = ResumeTarget(f))
                           /\ AdvisingMove(f, t, Transition(f, s).to)
BY OneRowBehind, FirstRowAdvises

LEMMA TransitionTyped ==
  ASSUME NEW f, NEW s \in FsmState
  PROVE  Transition(f, s).to \in FsmState
<1>1. CASE s \in Terminal
  BY <1>1, TerminalStays
<1>2. CASE s \in Active
  <2>1. PICK t \in Active : \E r :
           /\ IsFirst(r, Matching(f, t)) /\ r.to # "RESUME"
           /\ Transition(f, s).to = Outcome(r, t).to
    BY <1>2, OneRowBehind
  <2>2. PICK r : /\ IsFirst(r, Matching(f, t)) /\ r.to # "RESUME"
                 /\ Transition(f, s).to = Outcome(r, t).to
    BY <2>1
  <2>3. t \in FsmState /\ r \in Matching(f, t)
    BY <2>2 DEF FsmState, IsFirst
  <2> QED
    BY <2>2, <2>3, RowTargets DEF Outcome
<1> QED
  BY <1>1, <1>2 DEF FsmState

----------------------------------------------------------------------------
(* decide. *)

\* Dropping the side question and the objection leaves every fact the guarantees speak of.
WithoutSide(f) == [f EXCEPT !.faq = FALSE, !.objection = FALSE]

LEMMA WithoutSideKeeps ==
  ASSUME NEW f \in Facts
  PROVE  /\ WithoutSide(f) \in Facts
         /\ ValidP1(WithoutSide(f)) <=> ValidP1(f)
         /\ SuitabilityCurrent(WithoutSide(f)) <=> SuitabilityCurrent(f)
         /\ CanHandOff(WithoutSide(f)) <=> CanHandOff(f)
         /\ WithoutSide(f).withdraw = f.withdraw /\ WithoutSide(f).minor = f.minor
         /\ WithoutSide(f).paused_from = f.paused_from
<1>1. WithoutSide(f) \in Facts
  BY DEF WithoutSide, Facts
<1>2. /\ WithoutSide(f).consent = f.consent
      /\ WithoutSide(f).suitability = f.suitability
      /\ WithoutSide(f).needs_hash = f.needs_hash
      /\ WithoutSide(f).selected = f.selected
      /\ WithoutSide(f).acks_valid = f.acks_valid
      /\ WithoutSide(f).eligibility = f.eligibility
      /\ WithoutSide(f).withdraw = f.withdraw
      /\ WithoutSide(f).minor = f.minor
      /\ WithoutSide(f).paused_from = f.paused_from
  BY DEF WithoutSide, Facts
<1> QED
  BY <1>1, <1>2, Zenon DEF ValidP1, SuitabilityCurrent, CanHandOff, Eligible

LEMMA EarnedIsATransition ==
  ASSUME NEW f \in Facts, NEW s
  PROVE  Earned(f, s) \in {Transition(f, s), Transition(WithoutSide(f), s)}
BY DEF Earned, WithoutSide

LEMMA EarnedSafe ==
  ASSUME NEW f \in Facts, NEW s \in Active
  PROVE  SafeMove(f, Earned(f, s).to)
<1>1. SafeMove(f, Transition(f, s).to)
  BY TransitionSafe
<1>2. SafeMove(f, Transition(WithoutSide(f), s).to)
  <2>1. SafeMove(WithoutSide(f), Transition(WithoutSide(f), s).to)
    BY TransitionSafe
  <2> QED
    BY <2>1, WithoutSideKeeps, Zenon DEF SafeMove
<1> QED
  BY <1>1, <1>2, EarnedIsATransition

LEMMA EarnedErases ==
  ASSUME NEW f \in Facts, NEW s \in Active, f.withdraw \/ f.minor
  PROVE  Earned(f, s).to = "DATA_ERASURE"
<1>1. Transition(f, s).to = "DATA_ERASURE"
  BY TransitionErases
<1>2. Transition(WithoutSide(f), s).to = "DATA_ERASURE"
  <2>1. WithoutSide(f).withdraw \/ WithoutSide(f).minor
    BY WithoutSideKeeps, Zenon
  <2> QED
    BY <2>1, TransitionErases, WithoutSideKeeps, Zenon
<1> QED
  BY <1>1, <1>2, EarnedIsATransition

LEMMA WithoutSideAdvises ==
  ASSUME NEW f \in Facts, NEW s, NEW to
  PROVE  /\ AdvisingMove(WithoutSide(f), s, to) <=> AdvisingMove(f, s, to)
         /\ ResumeTarget(WithoutSide(f)) = ResumeTarget(f)
<1>1. /\ WithoutSide(f).suitability = f.suitability
      /\ WithoutSide(f).needs_hash = f.needs_hash
      /\ WithoutSide(f).sufficiency_elected = f.sufficiency_elected
      /\ WithoutSide(f).amber_confirmed = f.amber_confirmed
      /\ WithoutSide(f).eligibility = f.eligibility
      /\ WithoutSide(f).correction = f.correction
      /\ WithoutSide(f).inactivity_timeout = f.inactivity_timeout
      /\ WithoutSide(f).dependency_down = f.dependency_down
      /\ WithoutSide(f).paused_from = f.paused_from
  BY DEF WithoutSide, Facts
<1>2. Suitable(WithoutSide(f)) <=> Suitable(f)
  BY <1>1, Zenon DEF Suitable, CurrentOutcome, SuitabilityCurrent
<1> QED
  BY <1>1, <1>2, Zenon DEF AdvisingMove, Eligible, ResumeTarget

LEMMA EarnedAdvises ==
  ASSUME NEW f \in Facts, NEW s \in Active
  PROVE  \E t \in Active : /\ t = s \/ (s = "PAUSE" /\ t = ResumeTarget(f))
                           /\ AdvisingMove(f, t, Earned(f, s).to)
<1>1. CASE Earned(f, s) = Transition(f, s)
  BY <1>1, TransitionAdvises
<1>2. CASE Earned(f, s) = Transition(WithoutSide(f), s)
  <2>1. PICK t \in Active : /\ t = s \/ (s = "PAUSE" /\ t = ResumeTarget(WithoutSide(f)))
                            /\ AdvisingMove(WithoutSide(f), t, Transition(WithoutSide(f), s).to)
    BY TransitionAdvises
  <2> QED
    BY <1>2, <2>1, WithoutSideAdvises
<1> QED
  BY <1>1, <1>2, EarnedIsATransition

\* decide never leaves the state diagram.
LEMMA EarnedTyped ==
  ASSUME NEW f \in Facts, NEW s \in FsmState
  PROVE  Earned(f, s).to \in FsmState
BY TransitionTyped, EarnedIsATransition

LEMMA EarnedHandsOff ==
  ASSUME NEW f \in Facts, NEW s \in FsmState, Earned(f, s).to = "HANDOFF", s # "HANDOFF"
  PROVE  /\ s = "S3" \/ (s = "PAUSE" /\ f.paused_from = "S3")
         /\ SuitabilityCurrent(f) /\ CanHandOff(f)
<1>1. s \in Active
  <2>1. CASE s \in Terminal
    BY <2>1, TerminalStays, EarnedIsATransition
  <2> QED
    BY <2>1 DEF FsmState
<1>2. CASE Earned(f, s) = Transition(f, s)
  BY <1>1, <1>2, TransitionHandsOff
<1>3. CASE Earned(f, s) = Transition(WithoutSide(f), s)
  <2>1. /\ s = "S3" \/ (s = "PAUSE" /\ WithoutSide(f).paused_from = "S3")
        /\ CanHandOff(WithoutSide(f)) /\ SuitabilityCurrent(WithoutSide(f))
    BY <1>1, <1>3, TransitionHandsOff
  <2> QED
    BY <2>1, WithoutSideKeeps, Zenon
<1> QED
  BY <1>2, <1>3, EarnedIsATransition

LEMMA EarnedPauses ==
  ASSUME NEW f \in Facts, NEW s \in Active, Earned(f, s).to = "PAUSE"
  PROVE  f.inactivity_timeout \/ f.dependency_down \/ f.need_time
<1>1. CASE Earned(f, s) = Transition(f, s)
  BY <1>1, OneRowBehind, FirstRowPauses
<1>2. CASE Earned(f, s) = Transition(WithoutSide(f), s)
  <2>1. LET g == WithoutSide(f) IN g.inactivity_timeout \/ g.dependency_down \/ g.need_time
    BY <1>2, OneRowBehind, FirstRowPauses
  <2> QED
    BY <2>1 DEF WithoutSide, Facts
<1> QED
  BY <1>1, <1>2, EarnedIsATransition

LEMMA EarnedTakes ==
  ASSUME NEW f, Undisturbed(f), CanHandOff(f)
  PROVE  Earned(f, "S3").to = "HANDOFF"
<1>1. IsFirst(Deciding(f, "S3"), Matching(f, "S3"))
  BY DecidingIsFirst DEF FsmState, Active, Engaged
<1>2. Deciding(f, "S3").to = "HANDOFF" /\ Deciding(f, "S3").id = "S3.4"
  BY <1>1, FirstRowTakes
<1>3. Transition(f, "S3") = [to |-> "HANDOFF", row |-> "S3.4"]
  BY <1>2 DEF Transition, Outcome
<1> QED
  BY <1>3 DEF Earned

----------------------------------------------------------------------------
(* The specification.  The outcome's guarantees speak of the facts it was    *)
(* decided on, so the inductive invariant is that the outcome is still the   *)
(* function's value on the session's facts.                                 *)

DecisionInvariant ==
  /\ state \in FsmState
  /\ facts \in Facts
  /\ IsDecided => outcome = Earned(facts, state)

\* Whichever field a node sets, the facts stay facts.
LEMMA SignalTyped ==
  ASSUME NEW f \in Facts, NEW x \in DOMAIN Values, NEW v \in Values[x]
  PROVE  [f EXCEPT ![x] = v] \in Facts
<1>1. x \in DOMAIN NoFacts /\ [NoFacts EXCEPT ![x] = v] \in Facts
  BY DecisionAssumption
<1> QED
  BY <1>1 DEF Facts, NoFacts

LEMMA InitDecision == DecisionInit => DecisionInvariant
BY DecisionAssumption DEF DecisionInit, DecisionInvariant, IsDecided

LEMMA NextDecision == DecisionInvariant /\ [DecisionNext]_decisionVars => DecisionInvariant'
<1> SUFFICES ASSUME DecisionInvariant, [DecisionNext]_decisionVars PROVE DecisionInvariant'
  OBVIOUS
<1>1. CASE Signal
  <2>1. facts' \in Facts
    BY <1>1, SignalTyped DEF Signal, DecisionInvariant
  <2> QED
    BY <1>1, <2>1 DEF Signal, DecisionInvariant, IsDecided
<1>2. CASE Decide
  BY <1>2 DEF Decide, DecisionInvariant, IsDecided
<1>3. CASE UNCHANGED decisionVars
  BY <1>3 DEF decisionVars, DecisionInvariant, IsDecided
<1> QED
  BY <1>1, <1>2, <1>3 DEF DecisionNext

LEMMA AlwaysDecision == DecisionSpec => []DecisionInvariant
BY InitDecision, NextDecision, PTL DEF DecisionSpec

\* Whatever the products, hashes, limits and facts, every decision names a state of the machine:
\* no row is missing, and neither STAY nor RESUME leaks out as a target.
THEOREM TypeCorrect == DecisionSpec => []DecisionTyped
<1>1. DecisionInvariant => DecisionTyped
  BY EarnedTyped DEF DecisionInvariant, DecisionTyped
<1> QED
  BY <1>1, AlwaysDecision, PTL

\* I1 and I2 hold of every decision on every record of facts, so _invariants never raises.
THEOREM EntryIsSafe == DecisionSpec => []EntrySafe
<1>1. DecisionInvariant => EntrySafe
  BY EarnedSafe DEF DecisionInvariant, EntrySafe, SafeMove, FsmState
<1> QED
  BY <1>1, AlwaysDecision, PTL

\* A withdrawal or an under-18 signal takes every open session to erasure, whatever else the facts
\* say.
THEOREM ErasureComesFirst == DecisionSpec => []ErasureFirst
<1>1. DecisionInvariant => ErasureFirst
  BY EarnedErases, Zenon DEF DecisionInvariant, ErasureFirst
<1> QED
  BY <1>1, AlwaysDecision, PTL

\* A session is handed off only from S3, or from a pause taken in S3, on a current suitability
\* record and the full hand-off condition.
THEOREM HandOffIsEarned == DecisionSpec => []HandOffEarned
<1>1. DecisionInvariant => HandOffEarned
  BY EarnedHandsOff DEF DecisionInvariant, HandOffEarned
<1> QED
  BY <1>1, AlwaysDecision, PTL

----------------------------------------------------------------------------
(* The session the journey works on. *)

\* Who S2 and S3 may advise: an eligible profile the customer has confirmed.
Advisable(sl) == sl.status = "confirmed" /\ EligibilityOf[sl.profile].outcome = "ELIGIBLE"

\* Answers that are not missing are of the catalogue.
AnswersHeld(sl) ==
  /\ sl.status # "missing" => sl.profile \in Profiles
  /\ sl.needsStatus # "missing" => sl.needs \in Hashes

\* An eligibility result is of the confirmed profile.
JudgedFor(s, sl) ==
  s.eligibility # NotJudged =>
    /\ sl.profile \in Profiles /\ sl.status = "confirmed"
    /\ s.eligibility = [profile |-> sl.profile, result |-> EligibilityOf[sl.profile]]

\* A suitability record is of the confirmed needs.
BoundTo(s, sl) ==
  s.needs # NoHash =>
    /\ s.needs = sl.needs /\ sl.needsStatus = "confirmed"
    /\ s.suitability.result.hash = s.needs

\* An open question is about what is there: amber about an amber record, a read-back about answers.
PromptsHeld(s, sl) ==
  /\ s.prompt = <<"S2", "amber">> /\ s.needs # NoHash => s.suitability.result.amber
  /\ s.prompt = <<"S2", "readback">> => sl.needsStatus # "missing"
  /\ s.prompt \in {<<"S1", "readback">>, <<"QUOTE_ONLY", "readback">>} => sl.status # "missing"

\* The options on the table are ranked from the profile and the record the session holds, and
\* there is a product among them.
OfferFor(s, sl) ==
  s.recommendation # NoOffer =>
    /\ s.eligibility # NotJudged /\ s.needs # NoHash
    /\ s.recommendation.profile = sl.profile /\ s.recommendation.suitability = s.suitability
    /\ EligibilityOf[sl.profile].uins # {}

HeldFor(s, sl) == AnswersHeld(sl) /\ JudgedFor(s, sl) /\ BoundTo(s, sl) /\ PromptsHeld(s, sl)

\* Where a paused session resumes, the top of the stack.
PausedFrom(s) == IF s.stack # <<>> THEN s.stack[Len(s.stack)] ELSE "none"

----------------------------------------------------------------------------
\* What a node may raise.
Signals ==
  {"minor", "refused", "recorded", "new_purchase", "express", "reask_exhausted", "opt_in",
   "satisfied", "apply", "elig", "needs", "down", "elected", "amber", "no_options", "handed",
   "need_time", "all_rejected", "end", "timer"}

Scratches ==
  [s : Session, sl : Slots, sig : SUBSET Signals, filled : BOOLEAN, ready : BOOLEAN]

\* The part of the invariant that holds at every point of a turn.
Sound(t) ==
  /\ t \in Scratches
  /\ HeldFor(t.s, t.sl)
  /\ t.ready => t.sl.status = "confirmed"

\* Where a turn is, and that with the offer it has and whether an intake was taken: what a node
\* outside S3 leaves.
Where(t) == <<t.s.state, t.s.stack, t.s.loops, t.s.consent>>
Place(t) == <<t.s.state, t.s.stack, t.s.loops, t.s.consent, t.s.recommendation,
              IF "handed" \in t.sig THEN 1 ELSE 0>>
Held(t)  == <<t.s.eligibility, t.s.needs, t.s.suitability>>

\* Raising a signal.
LEMMA WithSound ==
  ASSUME NEW t, Sound(t), NEW signal \in Signals
  PROVE  LET u == With(t, signal) IN
         /\ Sound(u) /\ u.s = t.s /\ u.sl = t.sl /\ u.ready = t.ready /\ u.filled = t.filled
         /\ u.sig = t.sig \union {signal}
BY DEF With, Scratches, Sound

Whiches == {"none", "consent", "age", "ask", "readback", "elect", "amber"}

\* Asking a question that is about what is there.
LEMMA PromptSound ==
  ASSUME NEW t, Sound(t), NEW p \in Prompts,
         p = <<"S2", "amber">> /\ t.s.needs # NoHash => t.s.suitability.result.amber,
         p = <<"S2", "readback">> => t.sl.needsStatus # "missing",
         p \in {<<"S1", "readback">>, <<"QUOTE_ONLY", "readback">>} => t.sl.status # "missing"
  PROVE  LET u == [t EXCEPT !.s.prompt = p] IN
         /\ Sound(u) /\ Place(u) = Place(t) /\ Held(u) = Held(t)
         /\ u.sl = t.sl /\ u.sig = t.sig /\ u.ready = t.ready /\ u.filled = t.filled
<1> DEFINE u == [t EXCEPT !.s.prompt = p]
<1>1. /\ u \in Scratches /\ Place(u) = Place(t) /\ Held(u) = Held(t) /\ u.s.prompt = p
      /\ u.sl = t.sl /\ u.sig = t.sig /\ u.filled = t.filled /\ u.ready = t.ready
  BY DEF Place, Held, Scratches, Session, Sound
<1>2. /\ u.s.eligibility = t.s.eligibility /\ u.s.needs = t.s.needs
      /\ u.s.suitability = t.s.suitability
  BY <1>1 DEF Held
<1> HIDE DEF u
<1>3. HeldFor(u.s, u.sl)
  BY <1>1, <1>2 DEF Sound, HeldFor, JudgedFor, BoundTo, PromptsHeld
<1>4. Sound(u)
  BY <1>1, <1>3 DEF Sound
<1> QED
  BY <1>1, <1>4 DEF u

\* Asking any other question.
LEMMA PromptedSound ==
  ASSUME NEW t, Sound(t), t.s.state \in Engaged, NEW which \in Whiches,
         t.s.state = "S2" /\ which = "amber" /\ t.s.needs # NoHash => t.s.suitability.result.amber,
         t.s.state = "S2" /\ which = "readback" => t.sl.needsStatus # "missing",
         t.s.state \in {"S1", "QUOTE_ONLY"} /\ which = "readback" => t.sl.status # "missing"
  PROVE  LET u == Prompted(t, which) IN
         /\ Sound(u) /\ Place(u) = Place(t) /\ Held(u) = Held(t)
         /\ u.sl = t.sl /\ u.sig = t.sig /\ u.ready = t.ready /\ u.filled = t.filled
<1>1. <<t.s.state, which>> \in Prompts
  BY DEF Prompts, Whiches
<1> QED
  BY <1>1, PromptSound DEF Prompted

LEMMA RepliedSound ==
  ASSUME NEW t, Sound(t)
  PROVE  LET u == Replied(t) IN
         /\ Sound(u) /\ Place(u) = Place(t) /\ Held(u) = Held(t)
         /\ u.sl = t.sl /\ u.sig = t.sig /\ u.ready = t.ready /\ u.filled = t.filled
BY PromptSound DEF Replied, NoPrompt, Prompts

\* New profile values drop what was judged of the old ones.
LEMMA TakeSound ==
  ASSUME NEW t, Sound(t), NEW p \in Profiles \union {NoProfile}, ~t.ready
  PROVE  LET u == Take(t, p) IN
         /\ Sound(u) /\ ~u.ready
         /\ Place(u) = Place(t)
         /\ u.s.needs = t.s.needs /\ u.s.suitability = t.s.suitability /\ u.s.prompt = t.s.prompt
         /\ u.sl.needs = t.sl.needs /\ u.sl.needsStatus = t.sl.needsStatus /\ u.sig = t.sig
         /\ u.sl = t.sl => u.s = t.s
         /\ u.sl = t.sl \/ u.sl.status = "said"
<1> DEFINE u == Take(t, p)
<1>0. t \in Scratches /\ ~t.ready
  BY DEF Sound
<1>1. CASE p \in {NoProfile, t.sl.profile}
  <2>1. u = [t EXCEPT !.filled = p # NoProfile]
    BY <1>1 DEF Take
  <2>2. u \in Scratches /\ u.s = t.s /\ u.sl = t.sl /\ u.sig = t.sig /\ ~u.ready
    BY <1>0, <2>1 DEF Scratches
  <2> QED
    BY <2>2 DEF Sound, Place
<1>2. CASE p \notin {NoProfile, t.sl.profile}
  <2>1. u = [t EXCEPT !.filled = TRUE, !.sl.profile = p, !.sl.status = "said",
                      !.s.eligibility = NotJudged]
    BY <1>2 DEF Take
  <2>2. /\ u.s = [t.s EXCEPT !.eligibility = NotJudged]
        /\ u.sl = [t.sl EXCEPT !.profile = p, !.status = "said"]
        /\ u.sig = t.sig /\ u.filled /\ ~u.ready
        /\ u \in [s : {u.s}, sl : {u.sl}, sig : {t.sig}, filled : {TRUE}, ready : {t.ready}]
    BY <1>0, <2>1 DEF Scratches
  <2>3. /\ u.s \in Session /\ u.s.eligibility = NotJudged
        /\ u.s.state = t.s.state /\ u.s.stack = t.s.stack /\ u.s.loops = t.s.loops
        /\ u.s.consent = t.s.consent /\ u.s.needs = t.s.needs
        /\ u.s.suitability = t.s.suitability /\ u.s.prompt = t.s.prompt
        /\ u.s.recommendation = t.s.recommendation
    BY <1>0, <2>2 DEF Scratches, Session, Judgement
  <2>4. /\ u.sl \in Slots /\ u.sl.profile = p /\ u.sl.status = "said"
        /\ u.sl.needs = t.sl.needs /\ u.sl.needsStatus = t.sl.needsStatus
    BY <1>0, <2>2 DEF Scratches, Slots, Status
  <2>5. u \in Scratches
    BY <1>0, <2>2, <2>3, <2>4 DEF Scratches
  <2>6. HeldFor(u.s, u.sl)
    BY <1>2, <2>3, <2>4 DEF Sound, HeldFor, AnswersHeld, JudgedFor, BoundTo, PromptsHeld
  <2> QED
    BY <1>2, <2>2, <2>3, <2>4, <2>5, <2>6 DEF Sound, Place
<1> QED
  BY <1>1, <1>2

----------------------------------------------------------------------------
(* The screen. *)

\* The states that take the profile.
Screened == {"S1", "QUOTE_ONLY"}

LEMMA ReadySound ==
  ASSUME NEW t, Sound(t), t.sl.status = "confirmed"
  PROVE  LET u == [t EXCEPT !.ready = TRUE] IN
         Sound(u) /\ u.s = t.s /\ u.sl = t.sl /\ u.sig = t.sig /\ u.filled = t.filled
BY DEF Sound, Scratches

LEMMA ProceedSound ==
  ASSUME NEW t, Sound(t), t.s.state \in Screened, NEW m
  PROVE  LET u == Proceed(t, m) IN
         /\ Sound(u) /\ Place(u) = Place(t) /\ Held(u) = Held(t)
         /\ u.sl = t.sl /\ u.sig = t.sig /\ u.filled = t.filled
<1>1. t.sl.status \in Status
  BY DEF Sound, Scratches, Slots
<1>2. CASE t.sl.status = "missing"
  BY <1>2, PromptedSound DEF Proceed, Screened, Engaged, Whiches
<1>3. CASE t.sl.status = "said"
  BY <1>3, PromptedSound DEF Proceed, Screened, Engaged, Whiches
<1>4. CASE t.sl.status = "confirmed"
  BY <1>4, ReadySound DEF Proceed, Place, Held
<1> QED
  BY <1>1, <1>2, <1>3, <1>4 DEF Status

LEMMA AskAgainSound ==
  ASSUME NEW t, Sound(t), t.s.state \in Engaged, NEW m
  PROVE  LET u == AskAgain(t, m) IN
         /\ Sound(u) /\ Place(u) = Place(t) /\ Held(u) = Held(t)
         /\ u.sl = t.sl /\ u.sig = t.sig
BY PromptedSound, RepliedSound DEF AskAgain, Whiches

\* A confirmed read-back.
LEMMA ConfirmSound ==
  ASSUME NEW t, Sound(t), t.sl.status # "missing"
  PROVE  LET u == [t EXCEPT !.sl.status = "confirmed"] IN
         /\ Sound(u) /\ u.s = t.s /\ u.sig = t.sig /\ u.sl.status = "confirmed"
<1> DEFINE u == [t EXCEPT !.sl.status = "confirmed"]
<1>1. /\ u \in Scratches /\ u.s = t.s /\ u.sig = t.sig /\ u.ready = t.ready
      /\ u.sl.status = "confirmed" /\ u.sl.profile = t.sl.profile
      /\ u.sl.needs = t.sl.needs /\ u.sl.needsStatus = t.sl.needsStatus
  BY DEF Sound, Scratches, Slots, Status
<1> HIDE DEF u
<1>2. HeldFor(u.s, u.sl)
  BY <1>1 DEF Sound, HeldFor, AnswersHeld, JudgedFor, BoundTo, PromptsHeld
<1>3. Sound(u)
  BY <1>1, <1>2 DEF Sound
<1> QED
  BY <1>1, <1>3 DEF u

LEMMA RespondSound ==
  ASSUME NEW t, Sound(t), t.s.state \in Screened, ~t.ready, NEW in, NEW m,
         in.profile \in Profiles \union {NoProfile}
  PROVE  Sound(Respond(t, in, m)) /\ Place(Respond(t, in, m)) = Place(t)
<1> DEFINE u == Take(t, in.profile)
<1>1. Sound(u) /\ Place(u) = Place(t) /\ u.s.state = t.s.state
  BY TakeSound DEF Place
<1> HIDE DEF u
<1>2. u.s.state \in Screened /\ u.s.state \in Engaged
  BY <1>1 DEF Screened, Engaged
<1>3. Sound(With(u, "minor")) /\ Place(With(u, "minor")) = Place(u)
  BY <1>1, WithSound DEF Place, Signals
<1>4. Sound(Prompted(u, "ask")) /\ Place(Prompted(u, "ask")) = Place(u)
  BY <1>1, <1>2, PromptedSound DEF Whiches
<1>5. Sound(Proceed(u, m)) /\ Place(Proceed(u, m)) = Place(u)
  BY <1>1, <1>2, ProceedSound
<1>6. ASSUME At(u, "readback")
      PROVE  LET v == Proceed([u EXCEPT !.sl.status = "confirmed"], m)
             IN  Sound(v) /\ Place(v) = Place(u)
  <2>1. u.sl.status # "missing"
    BY <1>1, <1>2, <1>6 DEF At, Screened, Sound, HeldFor, PromptsHeld
  <2> DEFINE w == [u EXCEPT !.sl.status = "confirmed"]
  <2>2. Sound(w) /\ w.s = u.s
    BY <1>1, <2>1, ConfirmSound
  <2> HIDE DEF w
  <2>3. Sound(Proceed(w, m)) /\ Place(Proceed(w, m)) = Place(w)
    BY <1>2, <2>2, ProceedSound
  <2> QED
    BY <2>2, <2>3 DEF w, Place
<1>7. Sound(Replied(u)) /\ Place(Replied(u)) = Place(u)
  BY <1>1, RepliedSound
<1>8. Sound(AskAgain(u, m)) /\ Place(AskAgain(u, m)) = Place(u)
  BY <1>1, <1>2, AskAgainSound
<1> QED
  BY <1>1, <1>3, <1>4, <1>5, <1>6, <1>7, <1>8, Zenon DEF Respond, u

\* What an engine's result raises.
LEMMA FlagsSound ==
  ASSUME NEW t, Sound(t), NEW b \in BOOLEAN
  PROVE  LET u == [t EXCEPT !.s.express = b]
             v == [t EXCEPT !.s.reasked = b]
         IN  /\ Sound(u) /\ Place(u) = Place(t) /\ Held(u) = Held(t)
             /\ u.sl = t.sl /\ u.sig = t.sig /\ u.ready = t.ready /\ u.filled = t.filled
             /\ Sound(v) /\ Place(v) = Place(t) /\ Held(v) = Held(t)
             /\ v.sl = t.sl /\ v.sig = t.sig /\ v.ready = t.ready
<1> DEFINE u == [t EXCEPT !.s.express = b]
           v == [t EXCEPT !.s.reasked = b]
<1>1. /\ u \in Scratches /\ Place(u) = Place(t) /\ Held(u) = Held(t) /\ u.s.prompt = t.s.prompt
      /\ u.sl = t.sl /\ u.sig = t.sig /\ u.ready = t.ready /\ u.filled = t.filled
  BY DEF Place, Held, Scratches, Session, Sound
<1>2. /\ v \in Scratches /\ Place(v) = Place(t) /\ Held(v) = Held(t) /\ v.s.prompt = t.s.prompt
      /\ v.sl = t.sl /\ v.sig = t.sig /\ v.ready = t.ready
  BY DEF Place, Held, Scratches, Session, Sound
<1> HIDE DEF u, v
<1>3. Sound(u)
  BY <1>1 DEF Held, Sound, HeldFor, JudgedFor, BoundTo, PromptsHeld
<1>4. Sound(v)
  BY <1>2 DEF Held, Sound, HeldFor, JudgedFor, BoundTo, PromptsHeld
<1> QED
  BY <1>1, <1>2, <1>3, <1>4 DEF u, v

\* The eligibility result is kept with the profile it is of.
LEMMA JudgedSound ==
  ASSUME NEW t, Sound(t), t.sl.status = "confirmed"
  PROVE  LET u == Judged(t) IN
         /\ Sound(u) /\ Place(u) = Place(t) /\ u.sl = t.sl /\ u.sig = t.sig
         /\ u.ready = t.ready /\ u.s.needs = t.s.needs /\ u.s.suitability = t.s.suitability
         /\ u.s.prompt = t.s.prompt /\ u.s.eligibility # NotJudged
<1> DEFINE j == [profile |-> t.sl.profile, result |-> EligibilityOf[t.sl.profile]]
           u == [t EXCEPT !.s.eligibility = j]
<1>1. t.sl.profile \in Profiles
  BY DEF Sound, HeldFor, AnswersHeld
<1>2. j \in Judgement /\ j.profile = t.sl.profile /\ j # NotJudged
  BY <1>1, StateNodesAssumption DEF Judgement, NotJudged
<1> HIDE DEF j
<1>3. /\ u \in Scratches /\ Place(u) = Place(t) /\ u.s.prompt = t.s.prompt
      /\ u.s.needs = t.s.needs /\ u.s.suitability = t.s.suitability /\ u.s.eligibility = j
      /\ u.sl = t.sl /\ u.sig = t.sig /\ u.ready = t.ready
  BY <1>2 DEF Place, Scratches, Session, Sound
<1>4. Judged(t) = u
  BY DEF Judged, j
<1> HIDE DEF u
<1>5. HeldFor(u.s, u.sl)
  BY <1>1, <1>3 DEF j, Sound, HeldFor, JudgedFor, BoundTo, PromptsHeld
<1>6. Sound(u)
  BY <1>3, <1>5 DEF Sound
<1> QED
  BY <1>2, <1>3, <1>4, <1>6

----------------------------------------------------------------------------
(* S1. *)

LEMMA EvaluatedSound ==
  ASSUME NEW t, Sound(t), t.s.state = "S1", t.ready, NEW m
  PROVE  Sound(Evaluated(t, m)) /\ Place(Evaluated(t, m)) = Place(t)
<1>1. t.sl.status = "confirmed"
  BY DEF Sound
<1> DEFINE u == IF t.s.express THEN With(Judged(t), "express") ELSE Judged(t)
<1>2. Sound(Judged(t)) /\ Place(Judged(t)) = Place(t)
  BY <1>1, JudgedSound
<1>3. Sound(With(Judged(t), "express")) /\ Place(With(Judged(t), "express")) = Place(t)
  BY <1>2, WithSound DEF Place, Signals
<1>4. Sound(u) /\ Place(u) = Place(t)
  BY <1>2, <1>3
<1>5. Evaluated(t, m) \in {t, u, With(u, "reask_exhausted"),
                         Prompted([u EXCEPT !.s.reasked = TRUE], "ask")}
  BY Zenon DEF Evaluated
<1> HIDE DEF u
<1>6. Sound(With(u, "reask_exhausted")) /\ Place(With(u, "reask_exhausted")) = Place(t)
  BY <1>4, WithSound DEF Place, Signals
<1> DEFINE v == [u EXCEPT !.s.reasked = TRUE]
<1>7. Sound(v) /\ Place(v) = Place(t)
  BY <1>4, FlagsSound
<1> HIDE DEF v
<1>8. v.s.state = "S1"
  BY <1>7 DEF Place
<1>9. Sound(Prompted(v, "ask")) /\ Place(Prompted(v, "ask")) = Place(t)
  BY <1>7, <1>8, PromptedSound DEF Whiches, Engaged
<1> QED
  BY <1>4, <1>5, <1>6, <1>9 DEF v

\* The node of S1, and below its enter hook.
LEMMA S1NodeSound ==
  ASSUME NEW t, Sound(t), t.s.state = "S1", ~t.ready, NEW in, NEW m,
         in.profile \in Profiles \union {NoProfile}
  PROVE  Sound(S1Node(t, in, m)) /\ Place(S1Node(t, in, m)) = Place(t)
<1> DEFINE w == [t EXCEPT !.s.express = @ \/ in.intent = "express"]
           u == Respond(w, in, m)
<1>1. Sound(w) /\ Place(w) = Place(t) /\ ~w.ready
  BY FlagsSound
<1> HIDE DEF w
<1>2. w.s.state \in Screened
  BY <1>1 DEF Place, Screened
<1>3. Sound(u) /\ Place(u) = Place(t)
  BY <1>1, <1>2, RespondSound
<1>4. S1Node(t, in, m) \in {t, u} \/ (u.ready /\ S1Node(t, in, m) = S1Decide(u, m))
  BY Zenon DEF S1Node, u, w
<1> HIDE DEF u
<1>5. u.s.state = "S1"
  BY <1>3 DEF Place
<1>6. ASSUME u.ready PROVE Sound(S1Decide(u, m)) /\ Place(S1Decide(u, m)) = Place(t)
  <2>1. Sound(Evaluated(u, m)) /\ Place(Evaluated(u, m)) = Place(t)
    BY <1>3, <1>5, <1>6, EvaluatedSound
  <2>2. Sound(Prompted(u, "ask")) /\ Place(Prompted(u, "ask")) = Place(t)
    BY <1>3, <1>5, PromptedSound DEF Whiches, Engaged
  <2>3. S1Decide(u, m) \in {Evaluated(u, m), Prompted(u, "ask"), u}
    BY Zenon DEF S1Decide
  <2> QED
    BY <1>3, <2>1, <2>2, <2>3
<1> QED
  BY <1>3, <1>4, <1>6

LEMMA S1EnterSound ==
  ASSUME NEW t, Sound(t), t.s.state = "S1", NEW m
  PROVE  LET u == S1Enter(t, m) IN
         Sound(u) /\ Place(u) = Place(t) /\ Held(u) = Held(t) /\ u.sl = t.sl /\ u.sig = t.sig
<1> DEFINE u == Proceed(t, m)
<1>1. Sound(u) /\ Place(u) = Place(t) /\ Held(u) = Held(t) /\ u.sl = t.sl /\ u.sig = t.sig
  BY ProceedSound DEF Screened
<1> HIDE DEF u
<1>2. u.s.state = "S1"
  BY <1>1 DEF Place
<1>3. ASSUME u.ready
      PROVE  LET v == Prompted(u, "readback") IN
             Sound(v) /\ Place(v) = Place(t) /\ Held(v) = Held(t) /\ v.sl = t.sl /\ v.sig = t.sig
  <2>1. u.sl.status = "confirmed"
    BY <1>1, <1>3 DEF Sound
  <2> QED
    BY <1>1, <1>2, <2>1, PromptedSound DEF Whiches, Engaged
<1>4. S1Enter(t, m) \in {t, u} \/ (u.ready /\ S1Enter(t, m) = Prompted(u, "readback"))
  BY Zenon DEF S1Enter, u
<1> QED
  BY <1>1, <1>3, <1>4

----------------------------------------------------------------------------
(* Quote-Only. *)

LEMMA QuotedSound ==
  ASSUME NEW t, Sound(t), NEW m
  PROVE  LET u == Quoted(t, m) IN
         Sound(u) /\ Place(u) = Place(t) /\ Held(u) = Held(t) /\ u.sl = t.sl /\ u.sig = t.sig
BY RepliedSound DEF Quoted

\* The node of QUOTE_ONLY, and below its enter hook.
LEMMA QONodeSound ==
  ASSUME NEW t, Sound(t), t.s.state = "QUOTE_ONLY", ~t.ready, NEW in, NEW m,
         in.profile \in Profiles \union {NoProfile}
  PROVE  Sound(QONode(t, in, m)) /\ Place(QONode(t, in, m)) = Place(t)
<1> DEFINE u == Respond(t, in, m)
<1>1. Sound(u) /\ Place(u) = Place(t)
  BY RespondSound DEF Screened
<1>2. Sound(Quoted(u, m)) /\ Place(Quoted(u, m)) = Place(t)
  BY <1>1, QuotedSound
<1>3. Sound(Replied(t)) /\ Place(Replied(t)) = Place(t)
  BY RepliedSound
<1>4. \A x \in {"opt_in", "satisfied"} : Sound(With(t, x)) /\ Place(With(t, x)) = Place(t)
  BY WithSound DEF Place, Signals
<1>5. Sound(With(Replied(t), "apply")) /\ Place(With(Replied(t), "apply")) = Place(t)
  BY <1>3, WithSound DEF Place, Signals
<1>6. QONode(t, in, m) \in {t, With(t, "opt_in"), With(t, "satisfied"),
                          With(Replied(t), "apply"), Quoted(u, m)}
  BY Zenon DEF QONode, u
<1> QED
  BY <1>2, <1>4, <1>5, <1>6

LEMMA QOEnterSound ==
  ASSUME NEW t, Sound(t), t.s.state = "QUOTE_ONLY", NEW m
  PROVE  LET u == QOEnter(t, m) IN
         Sound(u) /\ Place(u) = Place(t) /\ Held(u) = Held(t) /\ u.sl = t.sl /\ u.sig = t.sig
<1> DEFINE u == [t EXCEPT !.s.express = FALSE]
<1>1. Sound(u) /\ Place(u) = Place(t) /\ Held(u) = Held(t) /\ u.sl = t.sl /\ u.sig = t.sig
  BY FlagsSound
<1> HIDE DEF u
<1>2. u.s.state \in Screened
  BY <1>1 DEF Place, Screened
<1> DEFINE p == Proceed(u, m)
<1>3. Sound(p) /\ Place(p) = Place(t) /\ Held(p) = Held(t) /\ p.sl = t.sl /\ p.sig = t.sig
  BY <1>1, <1>2, ProceedSound
<1> HIDE DEF p
<1>4. QOEnter(t, m) \in {u, Quoted(p, m)}
  BY Zenon DEF QOEnter, u, p
<1> QED
  BY <1>1, <1>3, <1>4, QuotedSound

----------------------------------------------------------------------------
(* S2. *)

\* A step of S2 or S3 that leaves the place and the profile.
Onward(t, u) ==
  /\ Sound(u) /\ Place(u) = Place(t)
  /\ u.sl.profile = t.sl.profile /\ u.sl.status = t.sl.status

\* It does not raise what only an agreement may raise.
Quiet(t, u) == \A x \in {"elected", "amber"} : x \in u.sig => x \in t.sig

LEMMA FilledSound ==
  ASSUME NEW t, Sound(t), NEW b \in BOOLEAN
  PROVE  LET u == [t EXCEPT !.filled = b] IN
         Sound(u) /\ u.s = t.s /\ u.sl = t.sl /\ u.sig = t.sig /\ u.ready = t.ready
BY DEF Sound, Scratches

LEMMA DroppedFields ==
  ASSUME NEW t \in Scratches
  PROVE  LET u == Dropped(t) IN
         /\ u \in Scratches /\ Place(u) = Place(t) /\ u.sl = t.sl /\ u.sig = t.sig
         /\ u.ready = t.ready /\ u.s.prompt = t.s.prompt /\ u.s.eligibility = t.s.eligibility
         /\ u.s.needs = NoHash /\ u.s.suitability = NotAssessed
BY DEF Dropped, Scratches, Session, Place, Assessment

\* Dropping the record.
LEMMA DroppedSound ==
  ASSUME NEW t, Sound(t)
  PROVE  /\ Onward(t, Dropped(t)) /\ Quiet(t, Dropped(t))
         /\ Dropped(t).sl = t.sl /\ Dropped(t).sig = t.sig
<1> DEFINE u == Dropped(t)
<1>1. /\ u \in Scratches /\ Place(u) = Place(t) /\ u.sl = t.sl /\ u.sig = t.sig
      /\ u.ready = t.ready /\ u.s.prompt = t.s.prompt /\ u.s.eligibility = t.s.eligibility
      /\ u.s.needs = NoHash
  BY DroppedFields DEF Sound
<1> HIDE DEF u
<1>2. HeldFor(u.s, u.sl)
  BY <1>1 DEF Sound, HeldFor, JudgedFor, BoundTo, PromptsHeld
<1>3. Sound(u)
  BY <1>1, <1>2 DEF Sound
<1> QED
  BY <1>1, <1>3 DEF u, Onward, Quiet

\* New needs drop the record of the old ones.
LEMMA TakeNeedsSound ==
  ASSUME NEW t, Sound(t), NEW in, in.needs \in Hashes \union {NoHash}
  PROVE  LET u == TakeNeeds(t, in) IN
         /\ Onward(t, u) /\ u.sig = t.sig /\ u.ready = t.ready
         /\ (u.s = t.s /\ u.sl = t.sl) \/ u.s.needs = NoHash
         /\ u.sl = t.sl /\ in.intent # "confused" => u.s = t.s
<1> DEFINE d == IF in.intent = "confused" THEN Dropped(t) ELSE t
           f == [d EXCEPT !.filled = in.needs # NoHash]
           w == [d EXCEPT !.filled = TRUE, !.sl.needs = in.needs, !.sl.needsStatus = "said"]
<1>1. /\ Onward(t, d) /\ d.sl = t.sl /\ d.sig = t.sig /\ d.ready = t.ready
      /\ d = t \/ (in.intent = "confused" /\ d.s.needs = NoHash)
  BY DroppedSound, DroppedFields DEF Onward, Sound
<1> HIDE DEF d
<1>2. CASE in.needs \in {NoHash, t.sl.needs}
  <2>1. TakeNeeds(t, in) = f
    BY <1>2 DEF TakeNeeds, d
  <2>2. Sound(f) /\ f.s = d.s /\ f.sl = d.sl /\ f.sig = d.sig /\ f.ready = d.ready
    <3>1. (in.needs # NoHash) \in BOOLEAN /\ Sound(d)
      BY <1>1 DEF Onward
    <3> QED
      BY <3>1, FilledSound
  <2> HIDE DEF f
  <2>3. Onward(t, f) /\ f.sig = t.sig /\ f.ready = t.ready
    BY <1>1, <2>2 DEF Onward, Place
  <2> QED
    BY <1>1, <2>1, <2>2, <2>3
<1>3. CASE in.needs \notin {NoHash, t.sl.needs}
  <2>1. TakeNeeds(t, in) = Dropped(w)
    BY <1>3 DEF TakeNeeds, d
  <2>2. /\ w \in Scratches /\ w.s = d.s /\ w.sig = d.sig /\ w.ready = d.ready
        /\ w.sl.profile = d.sl.profile /\ w.sl.status = d.sl.status
        /\ w.sl.needs = in.needs /\ w.sl.needsStatus = "said"
    BY <1>1 DEF Onward, Sound, Scratches, Slots, Status
  <2> HIDE DEF w
  <2> DEFINE u == Dropped(w)
  <2>3. /\ u \in Scratches /\ Place(u) = Place(w) /\ u.sl = w.sl /\ u.sig = w.sig
        /\ u.ready = w.ready /\ u.s.prompt = w.s.prompt /\ u.s.eligibility = w.s.eligibility
        /\ u.s.needs = NoHash
    BY <2>2, DroppedFields
  <2> HIDE DEF u
  <2>4. HeldFor(u.s, u.sl)
    BY <1>1, <1>3, <2>2, <2>3
    DEF Onward, Sound, HeldFor, AnswersHeld, JudgedFor, BoundTo, PromptsHeld
  <2>5. Sound(u)
    BY <1>1, <2>2, <2>3, <2>4 DEF Onward, Sound
  <2>6. Place(w) = Place(t)
    BY <1>1, <2>2 DEF Onward, Place
  <2> QED
    BY <1>1, <1>3, <2>1, <2>2, <2>3, <2>5, <2>6 DEF Onward, u
<1> QED
  BY <1>2, <1>3

LEMMA RecomputedSound ==
  ASSUME NEW t, Sound(t)
  PROVE  LET u == Recomputed(t) IN
         /\ Onward(t, u) /\ Quiet(t, u) /\ u.sl = t.sl
         /\ u.s.needs = t.s.needs /\ u.s.suitability = t.s.suitability
         /\ "elig" \notin u.sig => u.s.eligibility # NotJudged
<1>1. CASE t.s.eligibility # NotJudged
  BY <1>1 DEF Recomputed, Onward, Quiet
<1>2. CASE t.s.eligibility = NotJudged /\ t.sl.status # "confirmed"
  BY <1>2, WithSound DEF Recomputed, Onward, Quiet, Place, Signals
<1>3. CASE t.s.eligibility = NotJudged /\ t.sl.status = "confirmed"
  <2> DEFINE j == Judged(t)
  <2>1. /\ Sound(j) /\ Place(j) = Place(t) /\ j.sl = t.sl /\ j.sig = t.sig
        /\ j.s.needs = t.s.needs /\ j.s.suitability = t.s.suitability /\ j.s.eligibility # NotJudged
    BY <1>3, JudgedSound
  <2>2. Recomputed(t) \in {j, With(j, "elig")}
    BY <1>3 DEF Recomputed
  <2> HIDE DEF j
  <2>3. /\ Sound(With(j, "elig")) /\ With(j, "elig").s = j.s /\ With(j, "elig").sl = j.sl
        /\ With(j, "elig").sig = j.sig \union {"elig"}
    BY <2>1, WithSound DEF Signals
  <2> QED
    BY <2>1, <2>2, <2>3 DEF Onward, Quiet, Place
<1> QED
  BY <1>1, <1>2, <1>3

LEMMA SummarySound ==
  ASSUME NEW t, Sound(t), t.s.state = "S2", t.sl.needsStatus # "missing", NEW m
  PROVE  Onward(t, Summary(t, m)) /\ Quiet(t, Summary(t, m)) /\ Summary(t, m).sl = t.sl
<1> DEFINE u == Recomputed(t)
           a == [profile |-> u.s.eligibility.profile,
                 result |-> SuitabilityOf[u.s.eligibility.profile][u.sl.needs]]
           d == Dropped(u)
           w == [d EXCEPT !.s.suitability = a]
<1>1. /\ Onward(t, u) /\ Quiet(t, u) /\ u.sl = t.sl
      /\ "elig" \notin u.sig => u.s.eligibility # NotJudged
  BY RecomputedSound
<1>2. Onward(t, With(t, "down")) /\ Quiet(t, With(t, "down")) /\ With(t, "down").sl = t.sl
  BY WithSound DEF Onward, Quiet, Place, Signals
<1>3. \/ Summary(t, m) \in {With(t, "down"), u}
      \/ "elig" \notin u.sig /\ Summary(t, m) = Prompted(w, "readback")
  BY Zenon DEF Summary, u, d, w, a
<1> HIDE DEF u
<1>4. ASSUME "elig" \notin u.sig
      PROVE  LET v == Prompted(w, "readback") IN Onward(t, v) /\ Quiet(t, v) /\ v.sl = t.sl
  <2>1. a \in Assessment
    <3>1. u.s.eligibility.profile \in Profiles /\ u.sl.needs \in Hashes
      BY <1>1, <1>4 DEF Onward, Sound, HeldFor, AnswersHeld, JudgedFor
    <3> QED
      BY <3>1, StateNodesAssumption DEF Assessment
  <2> HIDE DEF a
  <2>2. /\ d \in Scratches /\ Place(d) = Place(u) /\ d.sl = u.sl /\ d.sig = u.sig
        /\ d.ready = u.ready /\ d.s.prompt = u.s.prompt /\ d.s.eligibility = u.s.eligibility
        /\ d.s.needs = NoHash
    BY <1>1, DroppedFields DEF Onward, Sound
  <2> HIDE DEF d
  <2>3. /\ w \in Scratches /\ Place(w) = Place(d) /\ w.sl = d.sl /\ w.sig = d.sig
        /\ w.ready = d.ready /\ w.s.prompt = d.s.prompt /\ w.s.eligibility = d.s.eligibility
        /\ w.s.needs = NoHash
    BY <2>1, <2>2 DEF Scratches, Session, Place
  <2> HIDE DEF w
  <2>4. HeldFor(w.s, w.sl)
    BY <1>1, <2>2, <2>3 DEF Onward, Sound, HeldFor, JudgedFor, BoundTo, PromptsHeld
  <2>5. Sound(w) /\ w.s.state = "S2"
    BY <1>1, <2>2, <2>3, <2>4 DEF Onward, Sound, Place
  <2>6. w.sl = t.sl /\ Place(w) = Place(t) /\ w.sig = u.sig
    BY <1>1, <2>2, <2>3 DEF Onward
  <2> QED
    BY <1>1, <2>5, <2>6, PromptedSound DEF Onward, Quiet, Whiches, Engaged
<1> QED
  BY <1>1, <1>2, <1>3, <1>4

LEMMA ProceedNeedsSound ==
  ASSUME NEW t, Sound(t), t.s.state = "S2", NEW m
  PROVE  LET u == ProceedNeeds(t, m) IN Onward(t, u) /\ Quiet(t, u) /\ u.sl = t.sl
<1>1. CASE t.sl.needsStatus = "missing"
  BY <1>1, PromptedSound DEF ProceedNeeds, Onward, Quiet, Whiches, Engaged
<1>2. CASE t.sl.needsStatus # "missing"
  BY <1>2, SummarySound DEF ProceedNeeds
<1> QED
  BY <1>1, <1>2

LEMMA BridgeSound ==
  ASSUME NEW t, Sound(t), t.s.state = "S2", NEW elected
  PROVE  LET u == Bridge(t, elected) IN
         Onward(t, u) /\ u.sig = t.sig /\ Held(u) = Held(t) /\ u.sl = t.sl
<1>1. /\ Sound(Prompted(t, "elect")) /\ Place(Prompted(t, "elect")) = Place(t)
      /\ Held(Prompted(t, "elect")) = Held(t) /\ Prompted(t, "elect").sl = t.sl
      /\ Prompted(t, "elect").sig = t.sig
  BY PromptedSound DEF Whiches, Engaged
<1>2. ASSUME t.s.suitability.result.amber
      PROVE  /\ Sound(Prompted(t, "amber")) /\ Place(Prompted(t, "amber")) = Place(t)
             /\ Held(Prompted(t, "amber")) = Held(t) /\ Prompted(t, "amber").sl = t.sl
             /\ Prompted(t, "amber").sig = t.sig
  BY <1>2, PromptedSound DEF Whiches, Engaged
<1>3. /\ Sound(Replied(t)) /\ Place(Replied(t)) = Place(t)
      /\ Held(Replied(t)) = Held(t) /\ Replied(t).sl = t.sl /\ Replied(t).sig = t.sig
  BY RepliedSound
<1>4. \/ Bridge(t, elected) \in {t, Prompted(t, "elect"), Replied(t)}
      \/ t.s.suitability.result.amber /\ Bridge(t, elected) = Prompted(t, "amber")
  BY Zenon DEF Bridge
<1> QED
  BY <1>1, <1>2, <1>3, <1>4 DEF Onward

\* The record a confirmation binds is of the needs confirmed.
LEMMA BoundSound ==
  ASSUME NEW t, Sound(t), t.s.state = "S2", t.s.prompt = <<"S2", "readback">>,
         t.sl.needsStatus = "confirmed"
  PROVE  Onward(t, Bound(t)) /\ Quiet(t, Bound(t))
<1>1. CASE t.s.suitability.result.hash = t.sl.needs
  <2> DEFINE w == [t EXCEPT !.s.needs = t.sl.needs]
  <2>1. /\ w \in Scratches /\ Place(w) = Place(t) /\ w.sl = t.sl /\ w.sig = t.sig
        /\ w.ready = t.ready /\ w.s.prompt = t.s.prompt /\ w.s.eligibility = t.s.eligibility
        /\ w.s.needs = t.sl.needs /\ w.s.suitability = t.s.suitability
    BY DEF Sound, Scratches, Session, Slots, Place
  <2> HIDE DEF w
  <2>2. HeldFor(w.s, w.sl)
    BY <1>1, <2>1 DEF Sound, HeldFor, JudgedFor, BoundTo, PromptsHeld
  <2>3. Sound(w) /\ w.s.state = "S2"
    BY <2>1, <2>2 DEF Sound, Place
  <2>4. Onward(w, Bridge(w, FALSE)) /\ Bridge(w, FALSE).sig = w.sig
    BY <2>3, BridgeSound
  <2>5. Bound(t) = Bridge(w, FALSE)
    BY <1>1 DEF Bound, w
  <2> QED
    BY <2>1, <2>4, <2>5 DEF Onward, Quiet
<1>2. CASE t.s.suitability.result.hash # t.sl.needs
  <2> DEFINE d == Dropped(t)
  <2>1. Onward(t, d) /\ d.sig = t.sig
    BY DroppedSound
  <2>2. Bound(t) = With(d, "down")
    BY <1>2 DEF Bound
  <2> QED
    BY <2>1, <2>2, WithSound DEF Onward, Quiet, Place, Signals
<1> QED
  BY <1>1, <1>2

LEMMA ConfirmedSound ==
  ASSUME NEW t, Sound(t), t.s.state = "S2", t.s.prompt = <<"S2", "readback">>, NEW m
  PROVE  Onward(t, Confirmed(t, m)) /\ Quiet(t, Confirmed(t, m))
<1> DEFINE u == [t EXCEPT !.sl.needsStatus = "confirmed"]
<1>1. /\ u \in Scratches /\ u.s = t.s /\ u.sig = t.sig /\ u.ready = t.ready
      /\ u.sl.status = t.sl.status /\ u.sl.profile = t.sl.profile
      /\ u.sl.needs = t.sl.needs /\ u.sl.needsStatus = "confirmed"
  BY DEF Sound, Scratches, Slots, Status
<1>2. Confirmed(t, m) \in {Summary(u, m), Bound(u)}
  BY Zenon DEF Confirmed, u
<1> HIDE DEF u
<1>3. HeldFor(u.s, u.sl)
  BY <1>1 DEF Sound, HeldFor, AnswersHeld, JudgedFor, BoundTo, PromptsHeld
<1>4. Sound(u)
  BY <1>1, <1>3 DEF Sound
<1>5. Onward(u, Summary(u, m)) /\ Quiet(u, Summary(u, m))
  BY <1>1, <1>4, SummarySound
<1>6. Onward(u, Bound(u)) /\ Quiet(u, Bound(u))
  BY <1>1, <1>4, BoundSound
<1> QED
  BY <1>1, <1>2, <1>5, <1>6 DEF Onward, Quiet, Place

\* The record a node leaves is the one agreed to, if it says one was.
AgreedIn(t, u) ==
  /\ "amber" \in u.sig =>
       /\ t.s.prompt = <<"S2", "amber">> /\ t.s.needs # NoHash
       /\ u.s.suitability = t.s.suitability
  /\ "elected" \in u.sig =>
       \/ "amber" \in u.sig
       \/ t.s.prompt = <<"S2", "elect">> /\ u.s.suitability = t.s.suitability

\* A yes to the election, and below to the amber question.
LEMMA ElectedSound ==
  ASSUME NEW t, Sound(t), t.s.state = "S2", t.sig = {}, At(t, "elect")
  PROVE  Onward(t, Elected(t)) /\ AgreedIn(t, Elected(t))
<1> DEFINE u == With(t, "elected")
<1>1. Sound(u) /\ u.s = t.s /\ u.sl = t.sl /\ u.sig = {"elected"}
  BY WithSound DEF Signals
<1>2. Elected(t) = Bridge(u, TRUE)
  BY DEF Elected
<1> HIDE DEF u
<1>3. Onward(u, Bridge(u, TRUE)) /\ Bridge(u, TRUE).sig = u.sig /\ Held(Bridge(u, TRUE)) = Held(u)
  BY <1>1, BridgeSound
<1> DEFINE v == Bridge(u, TRUE)
<1>4. v.sig = {"elected"} /\ v.s.suitability = t.s.suitability
  BY <1>1, <1>3 DEF Held
<1>5. t.s.prompt = <<"S2", "elect">>
  BY DEF At
<1> HIDE DEF v
<1>6. AgreedIn(t, v)
  BY <1>4, <1>5 DEF AgreedIn
<1>7. Onward(t, v)
  BY <1>1, <1>3 DEF v, Onward, Place
<1> QED
  BY <1>2, <1>6, <1>7 DEF v

LEMMA AmberConfirmedSound ==
  ASSUME NEW t, Sound(t), t.s.state = "S2", t.sig = {}, At(t, "amber"), t.s.needs # NoHash
  PROVE  Onward(t, AmberConfirmed(t)) /\ AgreedIn(t, AmberConfirmed(t))
<1> DEFINE w == With(t, "amber")
           u == Replied(w)
<1>1. Sound(w) /\ w.s = t.s /\ w.sl = t.sl /\ w.sig = {"amber"}
  BY WithSound DEF Signals
<1>2. AmberConfirmed(t) \in {u, With(u, "elected")}
  BY Zenon DEF AmberConfirmed, u, w
<1> HIDE DEF w
<1>3. /\ Sound(u) /\ Place(u) = Place(w) /\ Held(u) = Held(w) /\ u.sl = w.sl
      /\ u.sig = w.sig
  BY <1>1, RepliedSound
<1> HIDE DEF u
<1>4. /\ Sound(With(u, "elected")) /\ With(u, "elected").s = u.s /\ With(u, "elected").sl = u.sl
      /\ With(u, "elected").sig = {"amber", "elected"}
  BY <1>1, <1>3, WithSound DEF Signals
<1> QED
  BY <1>1, <1>2, <1>3, <1>4 DEF Onward, AgreedIn, Held, Place, At

LEMMA S2AnswerSound ==
  ASSUME NEW t, Sound(t), t.s.state = "S2", t.sig = {}, NEW in, NEW m,
         in.needs \in Hashes \union {NoHash}
  PROVE  Onward(t, S2Answer(t, in, m)) /\ AgreedIn(t, S2Answer(t, in, m))
<1> DEFINE u == TakeNeeds(t, in)
           v == S2Answer(t, in, m)
           bound == t.s.suitability # NotAssessed /\ t.s.needs # NoHash
<1>1. Onward(t, u) /\ u.sig = {}
  BY TakeNeedsSound
<1>2. \/ At(t, "elect") /\ v = Elected(t)
      \/ At(t, "amber") /\ t.s.needs # NoHash /\ v = AmberConfirmed(t)
      \/ At(t, "readback") /\ v = Confirmed(t, m)
      \/ v \in {Prompted(t, "ask"), Replied(t), AskAgain(u, m), ProceedNeeds(u, m)}
  BY Zenon DEF S2Answer, u, bound
<1> HIDE DEF u, v
<1>3. u.s.state = "S2" /\ Sound(u)
  BY <1>1 DEF Onward, Place
<1>4. CASE At(t, "elect") /\ v = Elected(t)
  BY <1>4, ElectedSound DEF v
<1>5. CASE At(t, "amber") /\ t.s.needs # NoHash /\ v = AmberConfirmed(t)
  BY <1>5, AmberConfirmedSound DEF v
<1>6. CASE At(t, "readback") /\ v = Confirmed(t, m)
  <2>1. t.s.prompt = <<"S2", "readback">>
    BY <1>6 DEF At
  <2> QED
    BY <1>6, <2>1, ConfirmedSound DEF v, Quiet, AgreedIn
<1>7. CASE v \in {Prompted(t, "ask"), Replied(t)}
  BY <1>7, PromptedSound, RepliedSound DEF v, Onward, AgreedIn, Whiches, Engaged
<1>8. CASE v = AskAgain(u, m)
  BY <1>1, <1>3, <1>8, AskAgainSound DEF v, Onward, AgreedIn, Engaged
<1>9. CASE v = ProceedNeeds(u, m)
  <2>1. Onward(u, v) /\ Quiet(u, v)
    BY <1>3, <1>9, ProceedNeedsSound
  <2> QED
    BY <1>1, <2>1 DEF v, Onward, AgreedIn, Quiet
<1> QED
  BY <1>2, <1>4, <1>5, <1>6, <1>7, <1>8, <1>9

----------------------------------------------------------------------------
\* A turn in S2 or S3 leaves the customer advisable, unless it sends S1's rows for the answers.
Advised(t) ==
  \/ Advisable(t.sl)
  \/ "minor" \in t.sig
  \/ "elig" \in t.sig /\ "down" \notin t.sig /\ "timer" \notin t.sig

\* A correction of the profile ends advice on the old one.
LEMMA CorrectedSound ==
  ASSUME NEW t, Sound(t), ~t.ready, t.sig = {}, Advisable(t.sl), NEW in,
         in.profile \in Profiles \union {NoProfile}
  PROVE  LET u == Corrected(t, in) IN
         /\ Sound(u) /\ Place(u) = Place(t) /\ Advised(u) /\ u.sig \subseteq {"minor", "elig"}
         /\ u.sig = {} => u.s = t.s /\ u.sl = t.sl
         /\ (u.s = t.s /\ u.sl = t.sl) \/ u.sl.status = "said"
<1> DEFINE k == Take(t, in.profile)
           u == [k EXCEPT !.filled = FALSE]
<1>1. /\ Sound(k) /\ Place(k) = Place(t) /\ k.sig = {} /\ (k.sl = t.sl => k.s = t.s)
      /\ k.sl = t.sl \/ k.sl.status = "said"
  BY TakeSound
<1>2. \/ Corrected(t, in) = With(u, "minor")
      \/ u.sl # t.sl /\ Corrected(t, in) = With(u, "elig")
      \/ u.sl = t.sl /\ Corrected(t, in) = u
  BY Zenon DEF Corrected, u, k
<1> HIDE DEF k
<1>3. Sound(u) /\ u.s = k.s /\ u.sl = k.sl /\ u.sig = {}
  BY <1>1, FilledSound
<1> HIDE DEF u
<1>4. \A x \in {"minor", "elig"} :
        /\ Sound(With(u, x)) /\ With(u, x).s = u.s /\ With(u, x).sl = u.sl
        /\ With(u, x).sig = {x}
  BY <1>3, WithSound DEF Signals
<1>5. CASE Corrected(t, in) = With(u, "minor")
  BY <1>1, <1>3, <1>4, <1>5 DEF Advised, Place
<1>6. CASE u.sl # t.sl /\ Corrected(t, in) = With(u, "elig")
  BY <1>1, <1>3, <1>4, <1>6 DEF Advised, Place
<1>7. CASE u.sl = t.sl /\ Corrected(t, in) = u
  <2>1. u.s = t.s /\ Place(u) = Place(t) /\ Advised(u)
    BY <1>1, <1>3, <1>7 DEF Advised, Place
  <2> QED
    BY <1>3, <1>7, <2>1
<1> QED
  BY <1>2, <1>5, <1>6, <1>7

\* The node of S2, and below its enter hook.
LEMMA S2NodeSound ==
  ASSUME NEW t, Sound(t), t.s.state = "S2", ~t.ready, t.sig = {}, Advisable(t.sl), NEW in, NEW m,
         in.profile \in Profiles \union {NoProfile}, in.needs \in Hashes \union {NoHash}
  PROVE  LET v == S2Node(t, in, m) IN
         Sound(v) /\ Place(v) = Place(t) /\ Advised(v) /\ AgreedIn(t, v)
<1> DEFINE u == Corrected(t, in)
           v == S2Node(t, in, m)
<1>1. /\ Sound(u) /\ Place(u) = Place(t) /\ Advised(u) /\ u.sig \subseteq {"minor", "elig"}
      /\ u.sig = {} => u.s = t.s /\ u.sl = t.sl
  BY CorrectedSound
<1>2. \/ v \in {t, u, With(t, "down")}
      \/ u.sig = {} /\ v = S2Answer(u, in, m)
  BY Zenon DEF S2Node, u
<1> HIDE DEF u, v
<1>3. CASE v = t
  BY <1>3 DEF Advised, AgreedIn, v
<1>4. CASE v = u
  BY <1>1, <1>4 DEF AgreedIn, v
<1>5. CASE v = With(t, "down")
  BY <1>5, WithSound DEF AgreedIn, Advised, Place, Signals, v
<1>6. CASE u.sig = {} /\ v = S2Answer(u, in, m)
  <2>1. u.s.state = "S2" /\ u.s = t.s /\ u.sl = t.sl
    BY <1>1, <1>6
  <2>2. Onward(u, v) /\ AgreedIn(u, v)
    BY <1>1, <1>6, <2>1, S2AnswerSound
  <2>3. Sound(v) /\ Place(v) = Place(t) /\ Advised(v)
    BY <1>1, <2>1, <2>2 DEF Onward, Advised, Advisable
  <2> QED
    BY <2>1, <2>2, <2>3 DEF AgreedIn, v
<1> QED
  BY <1>2, <1>3, <1>4, <1>5, <1>6

LEMMA S2EnterSound ==
  ASSUME NEW t, Sound(t), t.s.state = "S2", NEW m
  PROVE  LET u == S2Enter(t, m) IN Onward(t, u) /\ u.sl = t.sl
BY ProceedNeedsSound DEF S2Enter, Onward

----------------------------------------------------------------------------
(* S3. *)

\* A step of S3: the offer may change, what it is ranked from does not.
Along(t, u) ==
  /\ Sound(u) /\ Where(u) = Where(t) /\ u.sl = t.sl
  /\ u.s.needs = t.s.needs /\ u.s.suitability = t.s.suitability

\* It takes no intake.
Idle(t, u) == "handed" \in u.sig <=> "handed" \in t.sig

\* S3: the options, the hand-off, the choice.
LEMMA OfferSound ==
  ASSUME NEW t, Sound(t), NEW r \in Offers \union {NoOffer}
  PROVE  LET u == [t EXCEPT !.s.recommendation = r] IN
         /\ Sound(u) /\ Where(u) = Where(t) /\ Held(u) = Held(t) /\ u.sl = t.sl /\ u.sig = t.sig
         /\ u.s.recommendation = r
<1> DEFINE u == [t EXCEPT !.s.recommendation = r]
<1>1. /\ u \in Scratches /\ Where(u) = Where(t) /\ Held(u) = Held(t) /\ u.s.prompt = t.s.prompt
      /\ u.sl = t.sl /\ u.sig = t.sig /\ u.ready = t.ready /\ u.s.recommendation = r
  BY DEF Where, Held, Scratches, Session, Sound
<1> HIDE DEF u
<1>2. Sound(u)
  BY <1>1 DEF Held, Sound, HeldFor, JudgedFor, BoundTo, PromptsHeld
<1> QED
  BY <1>1, <1>2 DEF u

\* A step that leaves the offer and what it is ranked from.
LEMMA OfferStays ==
  ASSUME NEW t, NEW u, Place(u) = Place(t)
  PROVE  Where(u) = Where(t) /\ u.s.recommendation = t.s.recommendation /\ Idle(t, u)
BY DEF Place, Where, Idle

LEMMA PresentSound ==
  ASSUME NEW t, Sound(t), NEW m
  PROVE  LET v == Present(t, m) IN Along(t, v) /\ OfferFor(v.s, v.sl) /\ Idle(t, v)
<1> DEFINE n == [t EXCEPT !.s.recommendation = NoOffer]
           u == Recomputed(n)
           offer == [profile |-> u.s.eligibility.profile, suitability |-> u.s.suitability,
                     chosen |-> FALSE, acked |-> FALSE]
           w == [u EXCEPT !.s.recommendation = offer]
           v == Present(t, m)
           bound == u.s.needs # NoHash /\ u.s.needs = u.s.suitability.result.hash
           Shown0(x) == Along(t, x) /\ OfferFor(x.s, x.sl) /\ Idle(t, x)
<1>1. /\ Sound(n) /\ Where(n) = Where(t) /\ Held(n) = Held(t) /\ n.sl = t.sl /\ n.sig = t.sig
      /\ n.s.recommendation = NoOffer
  BY OfferSound
<1>2. \/ v \in {With(n, "down"), u, With(u, "down"), With(u, "no_options"), Replied(u)}
      \/ /\ "elig" \notin u.sig /\ bound /\ u.s.eligibility.result.uins # {}
         /\ v = Replied(w)
  BY Zenon DEF Present, n, u, offer, w, bound
<1> HIDE DEF n, v
<1>3. /\ Onward(n, u) /\ u.sl = n.sl
      /\ u.s.needs = n.s.needs /\ u.s.suitability = n.s.suitability
      /\ "elig" \notin u.sig => u.s.eligibility # NotJudged
  BY <1>1, RecomputedSound
<1> HIDE DEF u
<1>4. Along(t, u) /\ Idle(t, u) /\ u.s.recommendation = NoOffer
  <2>1. Where(u) = Where(n) /\ u.s.recommendation = NoOffer /\ Idle(n, u)
    BY <1>1, <1>3, OfferStays DEF Onward
  <2> QED
    BY <1>1, <1>3, <2>1 DEF Onward, Along, Idle, Held
<1>5. Shown0(u)
  BY <1>4 DEF OfferFor
<1>6. Shown0(With(n, "down"))
  BY <1>1, WithSound DEF Along, Idle, OfferFor, Held, Where, Signals
<1>7. \A x \in {"down", "no_options"} : Shown0(With(u, x))
  BY <1>4, WithSound DEF Along, Idle, OfferFor, Where, Signals
<1>8. Shown0(Replied(u))
  <2> DEFINE r == Replied(u)
  <2>1. /\ Sound(r) /\ Place(r) = Place(u) /\ Held(r) = Held(u) /\ r.sl = u.sl /\ r.sig = u.sig
    BY <1>4, RepliedSound DEF Along
  <2> HIDE DEF r
  <2>2. Where(r) = Where(u) /\ r.s.recommendation = NoOffer
    BY <1>4, <2>1, OfferStays
  <2> QED
    BY <1>4, <2>1, <2>2 DEF r, Along, Idle, OfferFor, Held
<1>9. ASSUME "elig" \notin u.sig, bound, u.s.eligibility.result.uins # {}
      PROVE  Shown0(Replied(w))
  <2>1. /\ u.s.eligibility # NotJudged /\ u.sl.profile \in Profiles /\ u.s.suitability \in Assessment
        /\ u.s.eligibility = [profile |-> u.sl.profile, result |-> EligibilityOf[u.sl.profile]]
    BY <1>3, <1>9 DEF Onward, Sound, HeldFor, JudgedFor, Scratches, Session
  <2>2. offer \in Offers \union {NoOffer} /\ offer.profile = u.sl.profile
        /\ offer.suitability = u.s.suitability
    BY <2>1 DEF Offers
  <2>3. EligibilityOf[u.sl.profile].uins # {}
    BY <1>9, <2>1
  <2> HIDE DEF offer
  <2>4. /\ Sound(w) /\ Where(w) = Where(u) /\ Held(w) = Held(u) /\ w.sl = u.sl /\ w.sig = u.sig
        /\ w.s.recommendation = offer
    BY <1>4, <2>2, OfferSound DEF Along
  <2> HIDE DEF w
  <2> DEFINE r == Replied(w)
  <2>5. /\ Sound(r) /\ Place(r) = Place(w) /\ Held(r) = Held(w) /\ r.sl = w.sl /\ r.sig = w.sig
    BY <2>4, RepliedSound
  <2> HIDE DEF r
  <2>6. Where(r) = Where(w) /\ r.s.recommendation = offer
    BY <2>4, <2>5, OfferStays
  <2>7. /\ r.s.eligibility = u.s.eligibility /\ r.s.needs = u.s.needs
        /\ r.s.suitability = u.s.suitability /\ r.sl = u.sl /\ r.sig = u.sig
    BY <2>4, <2>5 DEF Held
  <2>8. OfferFor(r.s, r.sl)
    BY <1>9, <2>1, <2>2, <2>3, <2>6, <2>7 DEF OfferFor
  <2>9. Along(t, r) /\ Idle(t, r)
    BY <1>4, <2>4, <2>5, <2>6, <2>7 DEF Along, Idle
  <2> QED
    BY <2>8, <2>9 DEF r
<1> QED
  BY <1>2, <1>5, <1>6, <1>7, <1>8, <1>9 DEF v

\* A choice or an acknowledgment of an offer: the offer stays the same but for that, and with both
\* the intake may be taken.
Choosing(t, u) ==
  /\ Sound(u) /\ Where(u) = Where(t) /\ Held(u) = Held(t) /\ u.sl = t.sl
  /\ u.s.recommendation.profile = t.s.recommendation.profile
  /\ u.s.recommendation.suitability = t.s.recommendation.suitability
  /\ u.sig \in {t.sig, t.sig \union {"handed"}}

LEMMA HandOffSound ==
  ASSUME NEW t, NEW u, Choosing(t, u), u.sig = t.sig, NEW m
  PROVE  Choosing(t, HandOff(u, m))
<1>1. HandOff(u, m) \in {u, With(u, "handed")}
  BY DEF HandOff
<1>2. Choosing(t, With(u, "handed"))
  BY WithSound DEF Choosing, Where, Held, Signals
<1> QED
  BY <1>1, <1>2

LEMMA ChosenSound ==
  ASSUME NEW t, Sound(t), t.s.recommendation # NoOffer, NEW m
  PROVE  Choosing(t, Chosen(t, m)) /\ Choosing(t, Acknowledged(t, m))
<1> DEFINE rec == t.s.recommendation
           c == [t EXCEPT !.s.recommendation = [rec EXCEPT !.chosen = TRUE]]
           a == [t EXCEPT !.s.recommendation = [rec EXCEPT !.acked = TRUE]]
<1>1. rec \in Offers
  BY DEF Sound, Scratches, Session
<1>2. /\ [rec EXCEPT !.chosen = TRUE] \in Offers /\ [rec EXCEPT !.acked = TRUE] \in Offers
      /\ [rec EXCEPT !.chosen = TRUE].profile = rec.profile
      /\ [rec EXCEPT !.acked = TRUE].profile = rec.profile
      /\ [rec EXCEPT !.chosen = TRUE].suitability = rec.suitability
      /\ [rec EXCEPT !.acked = TRUE].suitability = rec.suitability
  BY <1>1 DEF Offers
<1>3. \A r \in Offers : r.profile = rec.profile /\ r.suitability = rec.suitability =>
        LET u == [t EXCEPT !.s.recommendation = r] IN Choosing(t, u) /\ u.sig = t.sig
  BY OfferSound DEF Choosing
<1>4. c = [t EXCEPT !.s.recommendation.chosen = TRUE]
  OBVIOUS
<1>5. a = [t EXCEPT !.s.recommendation.acked = TRUE]
  OBVIOUS
<1>6. Choosing(t, c) /\ Choosing(t, a) /\ c.sig = t.sig /\ a.sig = t.sig
  BY <1>2, <1>3
<1> HIDE DEF c, a
<1>7. Chosen(t, m) \in {c, HandOff(c, m)}
  BY <1>4, Zenon DEF Chosen
<1>8. Acknowledged(t, m) \in {t, a, HandOff(a, m)}
  BY <1>5, Zenon DEF Acknowledged
<1>9. Choosing(t, HandOff(c, m)) /\ Choosing(t, HandOff(a, m)) /\ Choosing(t, t)
  BY <1>6, HandOffSound DEF Choosing
<1> QED
  BY <1>6, <1>7, <1>8, <1>9

\* The buttons that may take the intake.
Buttons == {"APPLY", "DISCLOSURE_ACK"}

LEMMA S3ChoiceSound ==
  ASSUME NEW t, Sound(t), NEW in, NEW m
  PROVE  LET v == S3Choice(t, in, m) IN
         /\ Along(t, v) /\ (OfferFor(t.s, t.sl) => OfferFor(v.s, v.sl))
         /\ Idle(t, v) \/ (in.act \in Buttons /\ t.s.recommendation # NoOffer /\ Choosing(t, v))
<1> DEFINE v == S3Choice(t, in, m)
<1>1. \/ v \in {Present(t, m), With(t, "down"), t}
      \/ /\ in.act \in Buttons /\ t.s.recommendation # NoOffer
         /\ v \in {Chosen(t, m), Acknowledged(t, m)}
  BY Zenon DEF S3Choice, Buttons
<1>2. CASE v = Present(t, m)
  BY <1>2, PresentSound
<1>3. CASE v = With(t, "down")
  BY <1>3, WithSound DEF Along, Idle, Where, Signals
<1>4. CASE v = t
  BY <1>4 DEF Along, Idle
<1>5. CASE /\ in.act \in Buttons /\ t.s.recommendation # NoOffer
           /\ v \in {Chosen(t, m), Acknowledged(t, m)}
  <2>1. Choosing(t, v)
    BY <1>5, ChosenSound
  <2> HIDE DEF v
  <2>2. Along(t, v)
    BY <2>1 DEF Choosing, Along, Held
  <2>3. OfferFor(t.s, t.sl) => OfferFor(v.s, v.sl)
    BY <1>5, <2>1 DEF Choosing, OfferFor, Held
  <2> QED
    BY <1>5, <2>1, <2>2, <2>3 DEF v
<1> QED
  BY <1>1, <1>2, <1>3, <1>4, <1>5

\* A correction of the needs in S3.
LEMMA NeedsCorrectedSound ==
  ASSUME NEW t, Sound(t), Advised(t), NEW in, in.needs \in Hashes \union {NoHash}
  PROVE  LET v == NeedsCorrected(t, in) IN
         /\ Onward(t, v) /\ Advised(v) /\ v.sig \in {t.sig, t.sig \union {"needs"}}
         /\ (v.s = t.s /\ v.sl = t.sl) \/ v.s.needs = NoHash
         /\ "needs" \notin v.sig /\ in.intent # "confused" => v.s = t.s /\ v.sl = t.sl
<1> DEFINE k == TakeNeeds(t, in)
           u == [k EXCEPT !.filled = FALSE]
           v == NeedsCorrected(t, in)
<1>1. /\ Onward(t, k) /\ k.sig = t.sig
      /\ (k.s = t.s /\ k.sl = t.sl) \/ k.s.needs = NoHash
      /\ k.sl = t.sl /\ in.intent # "confused" => k.s = t.s
  BY TakeNeedsSound
<1>2. \/ v \in {t, With(u, "needs")}
      \/ v = u /\ u.sl = t.sl
  BY Zenon DEF NeedsCorrected, u, k
<1> HIDE DEF k, v
<1>3. Sound(u) /\ u.s = k.s /\ u.sl = k.sl /\ u.sig = k.sig
  BY <1>1, FilledSound DEF Onward
<1> HIDE DEF u
<1>4. /\ Sound(With(u, "needs")) /\ With(u, "needs").s = u.s /\ With(u, "needs").sl = u.sl
      /\ With(u, "needs").sig = u.sig \union {"needs"}
  BY <1>3, WithSound DEF Signals
<1>5. Onward(t, v) /\ v.sig \in {t.sig, t.sig \union {"needs"}}
  BY <1>1, <1>2, <1>3, <1>4 DEF Onward, Place
<1>6. Advised(v)
  BY <1>5 DEF Onward, Advised, Advisable
<1>7. /\ (v.s = t.s /\ v.sl = t.sl) \/ v.s.needs = NoHash
      /\ "needs" \notin v.sig /\ in.intent # "confused" => v.s = t.s /\ v.sl = t.sl
  BY <1>1, <1>2, <1>3, <1>4
<1> QED
  BY <1>5, <1>6, <1>7 DEF v

\* A turn that may stay in S3 has an offer that is of what it holds.
OfferKept(u) == Advisable(u.sl) /\ u.s.needs # NoHash => OfferFor(u.s, u.sl)

\* What a turn that took an intake had, and left.
Handing(t, u) ==
  "handed" \in u.sig =>
    /\ u.sig = {"handed"} /\ t.s.state = "S3" /\ t.s.consent = "valid" /\ u.s.consent = "valid"
    /\ t.s.recommendation # NoOffer /\ OfferFor(t.s, t.sl)
    /\ u.s.recommendation.profile = t.s.recommendation.profile
    /\ Held(u) = Held(t) /\ u.sl = t.sl

\* The node of S3, and below its enter hook.
LEMMA S3NodeSound ==
  ASSUME NEW t, Sound(t), t.s.state = "S3", ~t.ready, t.sig = {}, Advisable(t.sl),
         OfferFor(t.s, t.sl), NEW in, NEW m,
         in.profile \in Profiles \union {NoProfile}, in.needs \in Hashes \union {NoHash},
         in.act \in Buttons => in.intent = "none"
  PROVE  LET v == S3Node(t, in, m) IN
         /\ Sound(v) /\ Where(v) = Where(t) /\ Advised(v)
         /\ OfferKept(v) /\ Handing(t, v) /\ ("handed" \in v.sig => in.intent = "none")
<1> DEFINE c == Corrected(t, in)
           u == NeedsCorrected(c, in)
           v == S3Node(t, in, m)
<1>1. /\ Sound(c) /\ Place(c) = Place(t) /\ Advised(c) /\ c.sig \subseteq {"minor", "elig"}
      /\ c.sig = {} => c.s = t.s /\ c.sl = t.sl
      /\ (c.s = t.s /\ c.sl = t.sl) \/ c.sl.status = "said"
  BY CorrectedSound
<1> HIDE DEF c
<1>2. /\ Onward(c, u) /\ Advised(u) /\ u.sig \in {c.sig, c.sig \union {"needs"}}
      /\ (u.s = c.s /\ u.sl = c.sl) \/ u.s.needs = NoHash
      /\ "needs" \notin u.sig /\ in.intent # "confused" => u.s = c.s /\ u.sl = c.sl
  BY <1>1, NeedsCorrectedSound
<1>3. \/ v = t
      \/ v = u
      \/ u.sig = {} /\ v \in {With(u, "need_time"), With(u, "all_rejected")}
      \/ u.sig = {} /\ t.s.consent = "valid" /\ v = S3Choice(u, in, m)
  BY Zenon DEF S3Node, Valid, u, c
<1> HIDE DEF u, v
<1>4. Where(u) = Where(t) /\ "handed" \notin u.sig
  <2>1. Place(u) = Place(t)
    BY <1>1, <1>2 DEF Onward
  <2> QED
    BY <1>1, <1>2, <2>1, OfferStays
<1>5. OfferKept(u)
  <2>1. CASE u.s.needs = NoHash
    BY <2>1 DEF OfferKept
  <2>2. CASE u.sl.status = "said"
    BY <2>2 DEF OfferKept, Advisable
  <2>3. CASE u.s = t.s /\ u.sl = t.sl
    BY <2>3 DEF OfferKept
  <2> QED
    BY <1>1, <1>2, <2>1, <2>2, <2>3 DEF Onward
<1>6. CASE v = t
  BY <1>6 DEF Advised, OfferKept, Handing, v
<1>7. CASE v = u
  BY <1>2, <1>4, <1>5, <1>7 DEF Onward, Handing, v
<1>8. CASE u.sig = {} /\ v \in {With(u, "need_time"), With(u, "all_rejected")}
  <2>1. /\ Sound(v) /\ v.s = u.s /\ v.sl = u.sl /\ v.sig \in {{"need_time"}, {"all_rejected"}}
    BY <1>2, <1>8, WithSound DEF Onward, Signals
  <2>2. Advised(v) /\ OfferKept(v) /\ Where(v) = Where(t)
    BY <1>2, <1>4, <1>5, <1>8, <2>1 DEF Advised, OfferKept, Where
  <2> QED
    BY <2>1, <2>2 DEF Handing, v
<1>9. CASE u.sig = {} /\ t.s.consent = "valid" /\ v = S3Choice(u, in, m)
  <2>1. /\ Along(u, v) /\ (OfferFor(u.s, u.sl) => OfferFor(v.s, v.sl))
        /\ Idle(u, v) \/ (in.act \in Buttons /\ u.s.recommendation # NoOffer /\ Choosing(u, v))
    BY <1>2, <1>9, S3ChoiceSound DEF Onward
  <2>2. Sound(v) /\ Where(v) = Where(t) /\ Advisable(v.sl)
    BY <1>2, <1>4, <1>9, <2>1 DEF Along, Advised
  <2>3. OfferKept(v)
    BY <1>5, <2>1 DEF Along, OfferKept
  <2>4. ASSUME "handed" \in v.sig PROVE Handing(t, v) /\ in.intent = "none"
    <3>1. in.act \in Buttons /\ u.s.recommendation # NoOffer /\ Choosing(u, v)
      BY <1>9, <2>1, <2>4 DEF Idle
    <3>2. in.intent = "none"
      BY <3>1
    <3>3. u.s = t.s /\ u.sl = t.sl
      BY <1>1, <1>2, <1>9, <3>2
    <3>4. v.s.consent = "valid" /\ v.sig = {"handed"}
      BY <1>9, <2>2, <2>4, <3>1 DEF Where, Choosing
    <3>5. Held(v) = Held(t)
      BY <3>1, <3>3 DEF Choosing, Held
    <3> QED
      BY <1>9, <3>1, <3>2, <3>3, <3>4, <3>5 DEF Handing, Choosing
  <2> QED
    BY <2>2, <2>3, <2>4 DEF Advised, Handing, v
<1> QED
  BY <1>3, <1>6, <1>7, <1>8, <1>9

LEMMA S3EnterSound ==
  ASSUME NEW t, Sound(t), NEW m
  PROVE  LET v == S3Enter(t, m) IN Along(t, v) /\ OfferFor(v.s, v.sl) /\ Idle(t, v)
BY PresentSound DEF S3Enter

----------------------------------------------------------------------------
(* S0 and PAUSE: they leave the answers and what is held of them. *)

\* A step that leaves the answers and what is held of them.
Untouched(t, u) ==
  /\ Sound(u) /\ Held(u) = Held(t) /\ u.sl = t.sl
  /\ u.s.state = t.s.state /\ u.s.stack = t.s.stack /\ u.s.loops = t.s.loops /\ Idle(t, u)

LEMMA ConsentSound ==
  ASSUME NEW t, Sound(t), NEW c \in Consents
  PROVE  LET u == [t EXCEPT !.s.consent = c] IN
         Untouched(t, u) /\ u.sig = t.sig /\ u.ready = t.ready /\ u.s.consent = c
         /\ u.s.prompt = t.s.prompt
<1> DEFINE u == [t EXCEPT !.s.consent = c]
<1>1. /\ u \in Scratches /\ Held(u) = Held(t) /\ u.s.prompt = t.s.prompt /\ u.s.consent = c
      /\ u.s.state = t.s.state /\ u.s.stack = t.s.stack /\ u.s.loops = t.s.loops
      /\ u.sl = t.sl /\ u.sig = t.sig /\ u.ready = t.ready
  BY DEF Held, Scratches, Session, Sound
<1> HIDE DEF u
<1>2. Sound(u)
  BY <1>1 DEF Held, Sound, HeldFor, JudgedFor, BoundTo, PromptsHeld
<1> QED
  BY <1>1, <1>2 DEF u, Untouched, Idle

LEMMA S0NodeSound ==
  ASSUME NEW t, Sound(t), t.s.state = "S0", NEW in, NEW m
  PROVE  Untouched(t, S0Node(t, in, m))
<1> DEFINE r == Replied(t)
           c == [r EXCEPT !.s.consent = "valid"]
<1>1. Untouched(t, r)
  BY RepliedSound DEF Untouched, Place, Idle
<1>2. Untouched(t, c)
  BY <1>1, ConsentSound DEF Untouched, Consents, Idle
<1>3. Untouched(t, With(c, "recorded"))
  <2> HIDE DEF c
  <2> QED
    BY <1>2, WithSound DEF Untouched, Held, Signals, Idle
<1>4. \A x \in {"consent", "age"} : Untouched(t, Prompted(t, x))
  BY PromptedSound DEF Untouched, Place, Idle, Whiches, Engaged
<1>5. \A x \in {"minor", "refused", "new_purchase"} : Untouched(t, With(t, x))
  BY WithSound DEF Untouched, Held, Signals, Idle
<1>6. Untouched(t, t)
  BY DEF Untouched, Idle
<1>7. RecordConsent(t, m) \in {t, Prompted(t, "consent"), With(c, "recorded")}
  BY Zenon DEF RecordConsent, c, r
<1>8. S0Consent(t, in, m) \in {t, Prompted(t, "consent"), Prompted(t, "age"), With(t, "minor"),
                             With(t, "refused"), RecordConsent(t, m)}
  BY Zenon DEF S0Consent
<1>9. S0Node(t, in, m) \in {t, r, With(t, "minor"), With(t, "new_purchase"), S0Consent(t, in, m)}
  BY Zenon DEF S0Node, r
<1> HIDE DEF r, c
<1>10. Untouched(t, S0Consent(t, in, m))
  BY <1>3, <1>4, <1>5, <1>6, <1>7, <1>8
<1> QED
  BY <1>1, <1>5, <1>6, <1>9, <1>10

LEMMA S0EnterSound ==
  ASSUME NEW t, Sound(t), t.s.state = "S0", NEW m
  PROVE  Untouched(t, S0Enter(t, m))
<1>1. Untouched(t, Replied(t))
  BY RepliedSound DEF Untouched, Place, Idle
<1>2. Untouched(t, Prompted(t, "consent"))
  BY PromptedSound DEF Untouched, Place, Idle, Whiches, Engaged
<1>3. Untouched(t, t)
  BY DEF Untouched, Idle
<1>4. S0Enter(t, m) \in {t, Replied(t), Prompted(t, "consent")}
  BY Zenon DEF S0Enter
<1> QED
  BY <1>1, <1>2, <1>3, <1>4

\* Resuming reads the Consent Service again, so a consent that is valid then is valid there.
LEMMA ResumeSound ==
  ASSUME NEW t, Sound(t), NEW l \in Consents
  PROVE  LET u == Resume(t, l) IN
         /\ Untouched(t, u) /\ u.sig = t.sig
         /\ u.s.consent = "valid" => l = "valid"
<1> DEFINE c == IF t.s.consent = "none" THEN t.s.consent ELSE l
<1>1. c \in Consents /\ (c = "valid" => l = "valid")
  BY DEF Sound, Scratches, Session
<1>2. Resume(t, l) = [t EXCEPT !.s.consent = c]
  BY DEF Resume
<1> HIDE DEF c
<1> QED
  BY <1>1, <1>2, ConsentSound

----------------------------------------------------------------------------
(* A turn. *)

\* What the node of a turn makes of a session in good standing.
Turned(t, u) ==
  /\ Sound(u) /\ u.s.state = t.s.state
  /\ t.s.state \in {"S2", "S3"} => Advised(u)
  /\ t.s.state = "S2" => AgreedIn(t, u)
  /\ t.s.state = "S3" => OfferKept(u)
  /\ t.s.state = "PAUSE" => u.sl = t.sl /\ u.sig = {}
  /\ Handing(t, u)

\* What a turn starts on.
Fresh(t) ==
  /\ Sound(t) /\ t.s.state \in Active /\ t.sig = {} /\ ~t.ready
  /\ t.s.state \in {"S2", "S3"} => Advisable(t.sl)
  /\ OfferFor(t.s, t.sl)

\* Whichever the state, its node.
LEMMA NodeSound ==
  ASSUME NEW t, Fresh(t), NEW in, NEW m, ledger \in Consents,
         in.profile \in Profiles \union {NoProfile}, in.needs \in Hashes \union {NoHash},
         in.act \in Buttons => in.intent = "none"
  PROVE  LET u == Node(t, in, m) IN
         /\ Turned(t, u) /\ u.s.stack = t.s.stack /\ ("handed" \in u.sig => in.intent = "none")
         /\ t.s.state = "PAUSE" /\ u.s.consent = "valid" => ledger = "valid"
<1> DEFINE u == Node(t, in, m)
<1> USE DEF Fresh
<1>1. CASE t.s.state = "S0"
  <2>1. u = S0Node(t, in, m)
    BY <1>1 DEF Node
  <2> QED
    BY <1>1, <2>1, S0NodeSound DEF Untouched, Turned, Idle, Handing
<1>2. CASE t.s.state = "S1"
  <2>1. u = S1Node(t, in, m)
    BY <1>2 DEF Node
  <2> QED
    BY <1>2, <2>1, S1NodeSound DEF Turned, Place, Handing
<1>3. CASE t.s.state = "QUOTE_ONLY"
  <2>1. u = QONode(t, in, m)
    BY <1>3 DEF Node
  <2> QED
    BY <1>3, <2>1, QONodeSound DEF Turned, Place, Handing
<1>4. CASE t.s.state = "S2"
  <2>1. u = S2Node(t, in, m)
    BY <1>4 DEF Node
  <2>2. Sound(u) /\ Place(u) = Place(t) /\ Advised(u) /\ AgreedIn(t, u)
    BY <1>4, <2>1, S2NodeSound
  <2> QED
    BY <1>4, <2>2 DEF Turned, Place, Handing
<1>5. CASE t.s.state = "S3"
  <2>1. u = S3Node(t, in, m)
    BY <1>5 DEF Node
  <2>2. /\ Sound(u) /\ Where(u) = Where(t) /\ Advised(u)
        /\ OfferKept(u) /\ Handing(t, u) /\ ("handed" \in u.sig => in.intent = "none")
    BY <1>5, <2>1, S3NodeSound
  <2> QED
    BY <1>5, <2>2 DEF Turned, Where
<1>6. CASE t.s.state = "PAUSE"
  <2>1. u = Resume(t, ledger)
    BY <1>6 DEF Node
  <2> QED
    BY <1>6, <2>1, ResumeSound DEF Untouched, Turned, Handing
<1> QED
  BY <1>1, <1>2, <1>3, <1>4, <1>5, <1>6 DEF Active, Engaged

\* A frame pushed or popped.
LEMMA StackSound ==
  ASSUME NEW t, Sound(t), NEW q \in Seq(FsmState)
  PROVE  LET u == [t EXCEPT !.s.stack = q] IN
         /\ Sound(u) /\ Held(u) = Held(t) /\ u.sl = t.sl /\ u.sig = t.sig /\ u.ready = t.ready
         /\ u.s.state = t.s.state /\ u.s.stack = q /\ u.s.consent = t.s.consent
         /\ u.s.prompt = t.s.prompt /\ u.s.recommendation = t.s.recommendation
<1> DEFINE u == [t EXCEPT !.s.stack = q]
<1>1. /\ u \in Scratches /\ Held(u) = Held(t) /\ u.s.prompt = t.s.prompt
      /\ u.s.consent = t.s.consent /\ u.s.state = t.s.state /\ u.s.stack = q
      /\ u.s.recommendation = t.s.recommendation
      /\ u.sl = t.sl /\ u.sig = t.sig /\ u.ready = t.ready
  BY DEF Held, Scratches, Session, Sound
<1> HIDE DEF u
<1>2. Sound(u)
  BY <1>1 DEF Held, Sound, HeldFor, JudgedFor, BoundTo, PromptsHeld
<1> QED
  BY <1>1, <1>2 DEF u

\* What the inputs of a turn say: of the catalogued answers, and the END reply only in S1.
LEMMA InputsTyped ==
  ASSUME NEW at \in Active, NEW in \in Inputs(at)
  PROVE  /\ in.profile \in Profiles \union {NoProfile} /\ in.needs \in Hashes \union {NoHash}
         /\ in.act = "END" => at # "PAUSE"
         /\ in.act \in Buttons => in.intent = "none"
         /\ at = "PAUSE" => in.intent # "need_time"
<1>1. CASE \E a \in Acts[at] : in = Act(a)
  <2>1. PICK a \in Acts[at] : in = Act(a)
    BY <1>1
  <2>2. in.profile = NoProfile /\ in.needs = NoHash /\ in.act = a /\ in.intent = "none"
    BY <2>1 DEF Act, Said
  <2>3. at = "PAUSE" => a \in {}
    BY <2>1 DEF Acts
  <2> QED
    BY <2>2, <2>3
<1>2. CASE in = Act("FACT")
  BY <1>2 DEF Act, Said
<1>3. CASE \E p \in Profiles \union {NoProfile} : \E h \in Hashes \union {NoHash} :
             \E y : \E i \in Intents[at] \union Compound : in = Said(p, h, y, i)
  <2>1. at = "PAUSE" => "need_time" \notin Intents[at] \union Compound
    BY DEF Intents, Compound
  <2> QED
    BY <1>3, <2>1 DEF Said, Buttons
<1>4. \/ \E a \in Acts[at] : in = Act(a)
      \/ in = Act("FACT")
      \/ \E y \in {"yes", "no"} : in = Said(NoProfile, NoHash, y, "none")
      \/ \E i \in Intents[at] : in = Said(NoProfile, NoHash, "none", i)
      \/ \E p \in Profiles : \E i \in Compound : in = Said(p, NoHash, "none", i)
      \/ \E h \in Hashes : \E i \in Compound : in = Said(NoProfile, h, "none", i)
  BY DEF Inputs
<1>5. "none" \in Compound
  BY DEF Compound
<1> QED
  BY <1>1, <1>2, <1>3, <1>4, <1>5

\* What decide is left with: the promises of the node, a stack within its bound, the intent of a
\* turn that took an intake, and of one that resumes.
Played(t, u, intent) ==
  /\ Turned(t, u)
  /\ \/ u.s.stack = t.s.stack
     \/ u.s.stack = Append(t.s.stack, t.s.state) /\ Len(t.s.stack) < MaxStack
  /\ "handed" \in u.sig => intent = "none"
  /\ t.s.state = "PAUSE" => intent # "need_time"
  /\ t.s.state = "PAUSE" /\ u.s.consent = "valid" => intent = "withdraw" \/ ledger = "valid"

\* A side question or another interruption leaves the node's promises.
LEMMA RoutedSound ==
  ASSUME NEW t, Fresh(t), NEW in \in Inputs(t.s.state), NEW m, ledger \in Consents
  PROVE  Played(t, Routed(t, in, m), in.intent)
<1> DEFINE asked == [t EXCEPT !.s.stack = Append(@, t.s.state)]
           after == Node(asked, in, m)
           u == Routed(t, in, m)
           room == Len(t.s.stack) < MaxStack
<1>1. /\ in.profile \in Profiles \union {NoProfile} /\ in.needs \in Hashes \union {NoHash}
      /\ in.act = "END" => t.s.state # "PAUSE"
      /\ in.act \in Buttons => in.intent = "none"
      /\ t.s.state = "PAUSE" => in.intent # "need_time"
  BY InputsTyped DEF Fresh
<1>2. \/ in.intent = "withdraw" /\ u = t
      \/ t.s.state # "PAUSE" /\ u \in {With(t, "end"), With(t, "need_time")}
      \/ u = Node(t, in, m)
      \/ room /\ u = after
      \/ u = [after EXCEPT !.s.stack = t.s.stack]
  <2>1. Deferred(t, in) => t.s.state # "PAUSE"
    BY DEF Deferred
  <2>2. AskedAside(t, in) => room
    BY DEF AskedAside
  <2> HIDE DEF room
  <2> QED
    BY <1>1, <2>1, <2>2, Zenon DEF Routed, asked, after, u
<1>3. /\ Fresh(asked) /\ asked.s.state = t.s.state /\ asked.sl = t.sl
      /\ asked.s.stack = Append(t.s.stack, t.s.state) /\ asked.s.consent = t.s.consent
      /\ asked.s.prompt = t.s.prompt /\ Held(asked) = Held(t)
      /\ asked.s.recommendation = t.s.recommendation
      /\ OfferFor(asked.s, asked.sl) <=> OfferFor(t.s, t.sl)
  <2>1. Append(t.s.stack, t.s.state) \in Seq(FsmState)
    BY DEF Fresh, Sound, Scratches, Session
  <2>2. /\ Sound(asked) /\ Held(asked) = Held(t) /\ asked.sl = t.sl /\ asked.sig = t.sig
        /\ asked.ready = t.ready /\ asked.s.state = t.s.state
        /\ asked.s.stack = Append(t.s.stack, t.s.state) /\ asked.s.consent = t.s.consent
        /\ asked.s.prompt = t.s.prompt /\ asked.s.recommendation = t.s.recommendation
    BY <2>1, StackSound DEF Fresh
  <2> HIDE DEF asked
  <2>3. OfferFor(asked.s, asked.sl) <=> OfferFor(t.s, t.sl)
    BY <2>2 DEF Held, OfferFor
  <2> QED
    BY <2>2, <2>3 DEF Fresh
<1> HIDE DEF asked, room
<1>4. /\ Turned(asked, after) /\ after.s.stack = asked.s.stack
      /\ "handed" \in after.sig => in.intent = "none"
      /\ asked.s.state = "PAUSE" /\ after.s.consent = "valid" => ledger = "valid"
  BY <1>1, <1>3, NodeSound
<1> HIDE DEF after, u
<1>5. Turned(t, after)
  <2>1. Handing(t, after)
    BY <1>3, <1>4 DEF Turned, Handing, Held
  <2>2. t.s.state = "S2" => AgreedIn(t, after)
    BY <1>3, <1>4 DEF Turned, AgreedIn, Held
  <2> QED
    BY <1>3, <1>4, <2>1, <2>2 DEF Turned
<1>6. CASE in.intent = "withdraw" /\ u = t
  BY <1>1, <1>6 DEF Fresh, Played, Turned, Advised, AgreedIn, OfferKept, Handing, u
<1>7. CASE t.s.state # "PAUSE" /\ u \in {With(t, "end"), With(t, "need_time")}
  <2>1. Sound(u) /\ u.s = t.s /\ u.sl = t.sl /\ u.sig \in {{"end"}, {"need_time"}}
    BY <1>7, WithSound DEF Fresh, Signals
  <2> QED
    BY <1>7, <2>1 DEF Fresh, Played, Turned, Advised, AgreedIn, OfferKept, Handing, u
<1>8. CASE u = Node(t, in, m)
  BY <1>1, <1>8, NodeSound DEF Played, u
<1>9. CASE room /\ u = after
  BY <1>1, <1>3, <1>4, <1>5, <1>9 DEF Played, room, u
<1>10. CASE u = [after EXCEPT !.s.stack = t.s.stack]
  <2>1. t.s.stack \in Seq(FsmState) /\ Sound(after)
    BY <1>4 DEF Fresh, Turned, Sound, Scratches, Session
  <2>2. /\ Sound(u) /\ Held(u) = Held(after) /\ u.sl = after.sl /\ u.sig = after.sig
        /\ u.s.state = after.s.state /\ u.s.stack = t.s.stack /\ u.s.consent = after.s.consent
        /\ u.s.recommendation = after.s.recommendation
    BY <1>10, <2>1, StackSound
  <2>3. OfferKept(u) <=> OfferKept(after)
    BY <2>2 DEF OfferKept, OfferFor, Held
  <2>4. Handing(t, after) => Handing(t, u)
    BY <2>2 DEF Handing
  <2>5. AgreedIn(t, after) => AgreedIn(t, u)
    BY <2>2 DEF AgreedIn, Held
  <2>6. Turned(t, u)
    BY <1>5, <2>2, <2>3, <2>4, <2>5 DEF Turned, Advised
  <2> QED
    BY <1>1, <1>3, <1>4, <2>2, <2>6 DEF Played, u
<1> QED
  BY <1>2, <1>6, <1>7, <1>8, <1>9, <1>10 DEF u

----------------------------------------------------------------------------
(* decide. *)

\* The plan handed off is a product.
Picked(u) == "handed" \in u.sig => Plan(u.s.recommendation) \in Uins

\* It is one of those the profile is eligible for.
LEMMA TurnPicks ==
  ASSUME NEW t, Sound(t), NEW u, Turned(t, u)
  PROVE  /\ Picked(u)
         /\ "handed" \in u.sig =>
              Plan(u.s.recommendation) \in u.s.eligibility.result.uins
<1> SUFFICES ASSUME "handed" \in u.sig
             PROVE  /\ Plan(u.s.recommendation) \in u.s.eligibility.result.uins
                    /\ Plan(u.s.recommendation) \in Uins
  BY DEF Picked
<1>1. /\ t.s.recommendation # NoOffer /\ OfferFor(t.s, t.sl)
      /\ u.s.recommendation.profile = t.s.recommendation.profile
      /\ Held(u) = Held(t)
  BY DEF Turned, Handing
<1> DEFINE p == t.sl.profile
<1>2. p \in Profiles /\ t.s.eligibility = [profile |-> p, result |-> EligibilityOf[p]]
  BY <1>1 DEF OfferFor, Sound, HeldFor, JudgedFor
<1>3. EligibilityOf[p].uins \subseteq Uins /\ EligibilityOf[p].uins # {}
  BY <1>1, <1>2, StateNodesAssumption DEF OfferFor, Eligibility
<1>4. u.s.recommendation.profile = p /\ u.s.eligibility.result = EligibilityOf[p]
  BY <1>1, <1>2 DEF OfferFor, Held
<1> QED
  BY <1>3, <1>4 DEF Plan

\* The facts decide reads of a sound turn are facts.
LEMMA FactsTyped ==
  ASSUME NEW t, Sound(t), t.s.state \in Active, Picked(t), NEW intent
  PROVE  FactsOf(t, intent) \in Facts
<1>1. t.s.consent \in Consents /\ t.s.needs \in Hashes \union {NoHash} /\ t.s.loops \in Nat
  BY DEF Sound, Scratches, Session
<1>2. t.s.eligibility.result \in Eligibility \union {NoEligibility}
  BY DEF Sound, Scratches, Session, Judgement, NotJudged
<1>3. t.s.suitability.result \in Suitability \union {NoSuitability}
  BY DEF Sound, Scratches, Session, Assessment, NotAssessed
<1> DEFINE plan == IF "handed" \in t.sig
                   THEN [uin |-> Plan(t.s.recommendation), quote_valid |-> TRUE] ELSE NoSelected
<1>5. plan \in Selected \union {NoSelected}
  BY DEF Picked, Selected
<1> DEFINE top == IF t.s.state = "PAUSE" /\ t.s.stack # <<>>
                  THEN t.s.stack[Len(t.s.stack)] ELSE "none"
<1>6. top \in FsmState \union {"none"}
  BY DEF Sound, Scratches, Session
<1>7. IntentOf(t, intent) \in {"none", "new_purchase", "specific_plan", "existing_policy"}
  BY DEF IntentOf, S0Intents
<1> HIDE DEF top, plan
<1> QED
  BY <1>1, <1>2, <1>3, <1>5, <1>6, <1>7 DEF FactsOf, Facts, Consents, top, plan

\* Which part of the turn each fact is read from.
LEMMA FactsRead ==
  ASSUME NEW t, NEW intent
  PROVE  LET f == FactsOf(t, intent) IN
         /\ f.consent = "valid" => t.s.consent = "valid"
         /\ "minor" \in t.sig \/ t.s.eligibility.result.outcome = "DATA_ERASURE_EXIT" <=> f.minor
         /\ f.eligibility = t.s.eligibility.result
         /\ f.suitability = t.s.suitability.result /\ f.needs_hash = t.s.needs
         /\ f.sufficiency_elected <=> "elected" \in t.sig
         /\ f.amber_confirmed <=> "amber" \in t.sig
         /\ f.correction = "eligibility" <=> "elig" \in t.sig
         /\ f.paused_from = IF t.s.state = "PAUSE" THEN PausedFrom(t.s) ELSE "none"
         /\ f.withdraw <=> intent = "withdraw"
         /\ f.inactivity_timeout <=> "timer" \in t.sig
         /\ f.dependency_down <=> "down" \in t.sig
         /\ f.need_time <=> intent = "need_time" \/ "need_time" \in t.sig
         /\ f.selected # NoSelected => "handed" \in t.sig
BY DEF FactsOf, PausedFrom

\* The move decide makes of a turn.
MoveOf(t, intent) == Earned(FactsOf(t, intent), t.s.state)

\* decide moves to S2 or S3 only who may be advised, and to S3 only with a record.
LEMMA MoveAdvises ==
  ASSUME NEW t, Sound(t), t.s.state \in Active, Picked(t), NEW intent,
         t.s.state \in {"S2", "S3"} => Advised(t),
         t.s.state = "PAUSE" /\ PausedFrom(t.s) \in {"S2", "S3"} => Advisable(t.sl)
  PROVE  LET to == MoveOf(t, intent).to IN
         /\ to \in FsmState
         /\ to \in {"S2", "S3"} => Advisable(t.sl)
         /\ to = "PAUSE" /\ t.s.state \in {"S2", "S3"} => Advisable(t.sl)
         /\ to = "S3" => t.s.needs # NoHash
<1> DEFINE f == FactsOf(t, intent)
           to == MoveOf(t, intent).to
<1>1. f \in Facts
  BY FactsTyped
<1>2. /\ f.eligibility = t.s.eligibility.result
      /\ f.suitability = t.s.suitability.result /\ f.needs_hash = t.s.needs
      /\ "minor" \in t.sig => f.minor
      /\ f.correction = "eligibility" <=> "elig" \in t.sig
      /\ f.paused_from = IF t.s.state = "PAUSE" THEN PausedFrom(t.s) ELSE "none"
      /\ f.inactivity_timeout <=> "timer" \in t.sig
      /\ f.dependency_down <=> "down" \in t.sig
  BY FactsRead
<1>3. to = Earned(f, t.s.state).to
  BY DEF MoveOf
<1> HIDE DEF f, to
<1>4. to \in FsmState
  BY <1>1, <1>3, EarnedTyped DEF FsmState
<1>5. "minor" \in t.sig => to = "DATA_ERASURE"
  BY <1>1, <1>2, <1>3, EarnedErases
<1>6. PICK a \in Active : /\ a = t.s.state \/ (t.s.state = "PAUSE" /\ a = ResumeTarget(f))
                          /\ AdvisingMove(f, a, to)
  BY <1>1, <1>3, EarnedAdvises
<1>7. ASSUME to \in {"S2", "S3"} PROVE Advisable(t.sl)
  <2>1. CASE a \in {"S1", "QUOTE_ONLY"} /\ Eligible(f)
    <3>1. t.s.eligibility.result.outcome = "ELIGIBLE"
      BY <1>2, <2>1 DEF Eligible
    <3>2. t.s.eligibility # NotJudged
      BY <3>1 DEF NotJudged, NoEligibility
    <3>3. /\ t.sl.status = "confirmed"
          /\ t.s.eligibility = [profile |-> t.sl.profile, result |-> EligibilityOf[t.sl.profile]]
      BY <3>2 DEF Sound, HeldFor, JudgedFor
    <3> QED
      BY <3>1, <3>3 DEF Advisable
  <2>2. CASE a \in {"S2", "S3"} /\ f.correction # "eligibility"
    <3>1. CASE a = t.s.state
      BY <1>2, <1>5, <1>7, <2>2, <3>1 DEF Advised
    <3>2. CASE t.s.state = "PAUSE" /\ a = ResumeTarget(f)
      <4>1. PausedFrom(t.s) = a
        BY <1>2, <2>2, <3>2 DEF ResumeTarget
      <4> QED
        BY <2>2, <3>2, <4>1
    <3> QED
      BY <1>6, <3>1, <3>2
  <2> QED
    BY <1>6, <1>7, <2>1, <2>2 DEF AdvisingMove
<1>8. ASSUME to = "PAUSE", t.s.state \in {"S2", "S3"} PROVE Advisable(t.sl)
  <2>1. a = t.s.state
    BY <1>6, <1>8
  <2>2. "elig" \in t.sig => "timer" \in t.sig \/ "down" \in t.sig
    BY <1>2, <1>6, <1>8, <2>1 DEF AdvisingMove
  <2> QED
    BY <1>5, <1>8, <2>2 DEF Advised
<1>9. ASSUME to = "S3" PROVE t.s.needs # NoHash
  <2>1. SuitabilityCurrent(f)
    BY <1>1, <1>3, <1>9, EarnedSafe DEF SafeMove
  <2>2. t.s.suitability.result \in Suitability \union {NoSuitability}
    BY DEF Sound, Scratches, Session, Assessment, NotAssessed
  <2>3. t.s.suitability.result \in Suitability /\ t.s.suitability.result.hash = t.s.needs
    BY <1>2, <2>1, <2>2 DEF SuitabilityCurrent
  <2> QED
    BY <2>3, FsmAssumption DEF Suitability
<1> QED
  BY <1>4, <1>7, <1>8, <1>9 DEF to

\* decide hands off only a turn that took an intake.
LEMMA MoveHandsOff ==
  ASSUME NEW t, Sound(t), t.s.state \in Active, Picked(t), NEW intent,
         MoveOf(t, intent).to = "HANDOFF"
  PROVE  "handed" \in t.sig
<1> DEFINE f == FactsOf(t, intent)
<1>1. f \in Facts
  BY FactsTyped
<1>2. f.selected # NoSelected => "handed" \in t.sig
  BY FactsRead
<1>3. Earned(f, t.s.state).to = "HANDOFF"
  BY DEF MoveOf
<1> HIDE DEF f
<1>4. CanHandOff(f)
  BY <1>1, <1>3, EarnedHandsOff DEF FsmState, Active, Engaged
<1> QED
  BY <1>2, <1>4 DEF CanHandOff

\* And every one: nothing the turn left comes before S3.4.
LEMMA MoveTakes ==
  ASSUME NEW t, Fresh(t), NEW u, NEW intent, Played(t, u, intent), "handed" \in u.sig
  PROVE  MoveOf(u, intent).to = "HANDOFF"
<1> DEFINE f == FactsOf(u, intent)
<1>1. /\ u.sig = {"handed"} /\ u.s.state = "S3" /\ u.s.consent = "valid" /\ intent = "none"
      /\ OfferFor(t.s, t.sl) /\ t.s.recommendation # NoOffer /\ Advisable(t.sl)
      /\ u.s.eligibility = t.s.eligibility /\ u.s.needs = t.s.needs
      /\ u.s.suitability = t.s.suitability
  BY DEF Played, Turned, Handing, Held, Fresh
<1>2. t.s.needs # NoHash /\ t.s.suitability.result.hash = t.s.needs
  BY <1>1 DEF OfferFor, Fresh, Sound, HeldFor, BoundTo
<1>3. t.s.eligibility.result = EligibilityOf[t.sl.profile]
  BY <1>1 DEF OfferFor, Fresh, Sound, HeldFor, JudgedFor
<1>4. u.s.eligibility.result.outcome = "ELIGIBLE"
  BY <1>1, <1>3 DEF Advisable
<1>5. Plan(u.s.recommendation) \in u.s.eligibility.result.uins
  BY TurnPicks DEF Played, Fresh
<1>6. u.s.suitability.result # NoSuitability
  BY <1>1, <1>2 DEF NoSuitability
<1>7. Undisturbed(f)
  <2>1. /\ ~f.withdraw /\ ~f.minor /\ ~f.inactivity_timeout /\ ~f.dependency_down
        /\ f.consent = "valid" /\ f.correction = "none" /\ ~f.faq /\ ~f.objection
        /\ ~f.end_requested /\ ~f.no_options /\ ~f.explicit_decline /\ ~f.need_time
        /\ ~f.all_rejected
    BY <1>1, <1>4 DEF FactsOf
  <2>2. ~f.human_request /\ ~f.frustration /\ f.low_confidence_streak = 0 /\ ~f.mandatory_trigger
    BY <1>1 DEF FactsOf
  <2>3. f.suitability = u.s.suitability.result /\ f.needs_hash = u.s.needs
    BY FactsRead
  <2> HIDE DEF f
  <2>4. ~EscalationDue(f)
    BY <2>2, FsmAssumption DEF EscalationDue
  <2>5. ValidP1(f) /\ SuitabilityCurrent(f)
    BY <1>1, <1>2, <1>6, <2>1, <2>3 DEF ValidP1, SuitabilityCurrent
  <2> QED
    BY <2>1, <2>4, <2>5 DEF Undisturbed
<1>8. CanHandOff(f)
  BY <1>1, <1>4, <1>5 DEF CanHandOff, FactsOf, Eligible, NoSelected
<1> HIDE DEF f
<1>9. Earned(f, "S3").to = "HANDOFF"
  BY <1>7, <1>8, EarnedTakes
<1> QED
  BY <1>1, <1>9 DEF MoveOf, f

\* No turn of a pause is spent paused: no row of the state resumed keeps it there.
LEMMA MoveResumes ==
  ASSUME NEW t, Fresh(t), NEW u, NEW intent, Played(t, u, intent), t.s.state = "PAUSE"
  PROVE  MoveOf(u, intent).to # "PAUSE"
<1> DEFINE f == FactsOf(u, intent)
<1>1. /\ u.sig = {} /\ u.s.state = "PAUSE" /\ Sound(u) /\ intent # "need_time"
      /\ Picked(u)
  BY TurnPicks DEF Played, Turned, Fresh
<1>2. f \in Facts
  BY <1>1, FactsTyped DEF Active
<1>3. ~f.inactivity_timeout /\ ~f.dependency_down /\ ~f.need_time
  BY <1>1, FactsRead
<1> HIDE DEF f
<1>4. Earned(f, "PAUSE").to # "PAUSE"
  BY <1>2, <1>3, EarnedPauses DEF Active
<1> QED
  BY <1>1, <1>4 DEF MoveOf, f

\* The move itself, its stack and its loop count.
LEMMA MovedSound ==
  ASSUME NEW t, Sound(t), t.s.state \in Active, NEW move, move.to \in FsmState
  PROVE  LET u == Moved(t, move)
             pausing == move.to = "PAUSE" /\ t.s.state # "PAUSE"
             resuming == t.s.state = "PAUSE" /\ move.to # "PAUSE"
         IN  /\ Sound(u) /\ u.sl = t.sl /\ u.sig = t.sig /\ Held(u) = Held(t)
             /\ u.s.recommendation = t.s.recommendation /\ u.s.state = move.to
             /\ pausing => /\ PausedFrom(u.s) = t.s.state /\ u.s.stack # <<>>
                           /\ Len(u.s.stack) = Len(t.s.stack) + 1
             /\ resuming /\ t.s.stack # <<>> => Len(u.s.stack) = Len(t.s.stack) - 1
             /\ ~pausing /\ ~resuming => u.s.stack = t.s.stack
<1> DEFINE u == Moved(t, move)
           n == IF move.row = "S3.3" THEN t.s.loops + 1 ELSE t.s.loops
           q == IF move.to = "PAUSE" /\ t.s.state # "PAUSE" THEN Append(t.s.stack, t.s.state)
                ELSE IF t.s.state = "PAUSE" /\ move.to # "PAUSE" /\ t.s.stack # <<>>
                THEN SubSeq(t.s.stack, 1, Len(t.s.stack) - 1) ELSE t.s.stack
<1>1. t.s.stack \in Seq(FsmState) /\ t.s.loops \in Nat /\ t.s.state \in FsmState
  BY DEF Sound, Scratches, Session
<1>2. n \in Nat
  BY <1>1
<1>3. q \in Seq(FsmState)
  <2>1. ASSUME t.s.stack # <<>> PROVE SubSeq(t.s.stack, 1, Len(t.s.stack) - 1) \in Seq(FsmState)
    BY <1>1, <2>1
  <2> QED
    BY <1>1, <2>1
<1>4. move.to = "PAUSE" /\ t.s.state # "PAUSE" =>
        q # <<>> /\ q[Len(q)] = t.s.state /\ Len(q) = Len(t.s.stack) + 1
  BY <1>1
<1>5. t.s.state = "PAUSE" /\ move.to # "PAUSE" /\ t.s.stack # <<>> =>
        Len(q) = Len(t.s.stack) - 1
  BY <1>1
<1>6. (move.to = "PAUSE" <=> t.s.state = "PAUSE") => q = t.s.stack
  OBVIOUS
<1>7. u = [t EXCEPT !.s.state = move.to, !.s.loops = n, !.s.stack = q]
  BY DEF Moved
<1> HIDE DEF n, q
<1>8. /\ u \in Scratches /\ Held(u) = Held(t) /\ u.s.prompt = t.s.prompt
      /\ u.s.state = move.to /\ u.s.stack = q /\ u.s.recommendation = t.s.recommendation
      /\ u.sl = t.sl /\ u.sig = t.sig /\ u.ready = t.ready
  <2>1. /\ u.s = [t.s EXCEPT !.state = move.to, !.loops = n, !.stack = q]
        /\ u.sl = t.sl /\ u.sig = t.sig /\ u.ready = t.ready
        /\ u \in [s : {u.s}, sl : {t.sl}, sig : {t.sig}, filled : {t.filled}, ready : {t.ready}]
    BY <1>7 DEF Scratches, Sound
  <2> HIDE DEF u
  <2>2. /\ u.s \in Session /\ Held(u) = Held(t) /\ u.s.prompt = t.s.prompt
        /\ u.s.state = move.to /\ u.s.stack = q /\ u.s.recommendation = t.s.recommendation
    BY <1>2, <1>3, <2>1 DEF Held, Scratches, Session, Sound
  <2> QED
    BY <2>1, <2>2 DEF Scratches, Sound
<1> HIDE DEF u
<1>9. Sound(u)
  BY <1>8 DEF Held, Sound, HeldFor, JudgedFor, BoundTo, PromptsHeld
<1> QED
  BY <1>4, <1>5, <1>6, <1>8, <1>9 DEF PausedFrom, u

\* Whichever the state moved to, its enter hook.
LEMMA EnteredSound ==
  ASSUME NEW t, Sound(t), t.s.state \in FsmState, NEW m
  PROVE  LET u == Entered(t, m) IN
         /\ Sound(u) /\ u.s.state = t.s.state /\ u.s.stack = t.s.stack
         /\ u.sl.profile = t.sl.profile /\ u.sl.status = t.sl.status
         /\ t.s.state = "S3" => u.s.needs = t.s.needs /\ u.s.suitability = t.s.suitability
         /\ t.s.state = "S3" => OfferFor(u.s, u.sl)
         /\ Idle(t, u)
<1> DEFINE u == Entered(t, m)
<1>1. CASE t.s.state = "S0"
  BY <1>1, S0EnterSound DEF Entered, Untouched
<1>2. CASE t.s.state = "S1"
  BY <1>2, S1EnterSound DEF Entered, Place, Idle
<1>3. CASE t.s.state = "QUOTE_ONLY"
  BY <1>3, QOEnterSound DEF Entered, Place, Idle
<1>4. CASE t.s.state = "S2"
  <2>1. u = S2Enter(t, m)
    BY <1>4 DEF Entered
  <2> QED
    BY <1>4, <2>1, S2EnterSound DEF Onward, Place, Idle
<1>5. CASE t.s.state = "S3"
  <2>1. u = S3Enter(t, m)
    BY <1>5 DEF Entered
  <2> QED
    BY <1>5, <2>1, S3EnterSound DEF Along, Where
<1>6. CASE t.s.state \notin Engaged
  BY <1>6 DEF Entered, Engaged, Idle
<1> QED
  BY <1>1, <1>2, <1>3, <1>4, <1>5, <1>6 DEF Engaged

----------------------------------------------------------------------------
(* The inductive invariant. *)

\* A pause has the frame of an open state on top, and a frame more than the others at most.
Framed(s) ==
  /\ s.state \in Engaged => Len(s.stack) <= MaxStack
  /\ s.state = "PAUSE" =>
       Len(s.stack) <= MaxStack + 1 /\ s.stack # <<>> /\ PausedFrom(s) \in Engaged

\* A closed session has no frame.
Unframed(s) == s.state \in Terminal => s.stack = <<>>

\* A session in good standing: who is advised, or paused while advised, may be advised, and an
\* offer on the table is of what the session holds.
Standing(t) ==
  /\ Sound(t) /\ Framed(t.s)
  /\ t.s.state = "S3" => OfferFor(t.s, t.sl)
  /\ t.s.state \in {"S2", "S3"} => Advisable(t.sl)
  /\ t.s.state = "PAUSE" /\ PausedFrom(t.s) \in {"S2", "S3"} => Advisable(t.sl)

\* Options are shown on a suitability record.
Shown(s) == s.state = "S3" => s.needs # NoHash

\* No offer is kept outside S3, and an intake is taken once, by the session that is handed off.
OffTable(s) == s.state # "S3" => s.recommendation = NoOffer
TakenOnce == taken <= 1 /\ (taken = 1 <=> session.state = "HANDOFF")

\* The inductive invariant.
JourneyInvariant ==
  /\ TypeOK
  /\ Standing(Scratch(session, slots))
  /\ Shown(session) /\ OffTable(session) /\ Unframed(session)
  /\ TakenOnce

\* What is decided of a turn is in good standing again.
LEMMA Decides ==
  ASSUME NEW t, Fresh(t), Standing(t), NEW u, NEW intent, Played(t, u, intent),
         NEW after \in Decided(u, intent)
  PROVE  /\ Standing(after) /\ Shown(after.s) /\ after.s.state = MoveOf(u, intent).to
         /\ after.s.state = "S3" => after.s.suitability = u.s.suitability
         /\ "handed" \in after.sig <=> "handed" \in u.sig
         /\ "handed" \in after.sig <=> after.s.state = "HANDOFF"
<1> DEFINE move == MoveOf(u, intent)
           w == Moved(u, move)
<1>1. /\ Sound(u) /\ u.s.state = t.s.state /\ t.s.state \in Active
      /\ t.s.stack \in Seq(FsmState) /\ Turned(t, u)
  BY DEF Played, Turned, Fresh, Sound, Scratches, Session
<1>2. /\ u.s.state \in {"S2", "S3"} => Advised(u)
      /\ u.s.state = "S3" => OfferKept(u)
      /\ Picked(u)
  BY <1>1, TurnPicks DEF Turned, Fresh
<1>3. u.s.state = "PAUSE" /\ PausedFrom(u.s) \in {"S2", "S3"} => Advisable(u.sl)
  <2>1. SUFFICES ASSUME u.s.state = "PAUSE", PausedFrom(u.s) \in {"S2", "S3"}
                 PROVE  Advisable(u.sl)
    OBVIOUS
  <2>2. u.sl = t.sl /\ t.s.state = "PAUSE"
    BY <1>1, <2>1 DEF Turned
  <2>3. u.s.stack # Append(t.s.stack, t.s.state)
    <3>1. ASSUME u.s.stack = Append(t.s.stack, "PAUSE") PROVE PausedFrom(u.s) = "PAUSE"
      <4>1. \A q \in Seq(FsmState) : /\ Append(q, "PAUSE") # <<>>
                                    /\ Append(q, "PAUSE")[Len(Append(q, "PAUSE"))] = "PAUSE"
        BY DEF FsmState, Active
      <4> QED
        BY <1>1, <3>1, <4>1 DEF PausedFrom
    <3> QED
      BY <2>1, <2>2, <3>1
  <2>4. PausedFrom(u.s) = PausedFrom(t.s)
    BY <2>3 DEF Played, PausedFrom
  <2> QED
    BY <2>1, <2>2, <2>4 DEF Standing
<1>4. /\ move.to \in FsmState
      /\ move.to \in {"S2", "S3"} => Advisable(u.sl)
      /\ move.to = "PAUSE" /\ u.s.state \in {"S2", "S3"} => Advisable(u.sl)
      /\ move.to = "S3" => u.s.needs # NoHash
  BY <1>1, <1>2, <1>3, MoveAdvises
<1>5. \/ after = w /\ w.s.state = u.s.state
      \/ \E m : after = Entered(w, m)
  BY DEF Decided, MoveOf
<1>6. /\ "handed" \in u.sig <=> move.to = "HANDOFF"
      /\ u.s.state = "PAUSE" => move.to # "PAUSE"
  BY <1>1, <1>2, MoveHandsOff, MoveTakes, MoveResumes
<1> HIDE DEF move
<1>7. /\ Sound(w) /\ w.sl = u.sl /\ w.sig = u.sig /\ Held(w) = Held(u)
      /\ w.s.recommendation = u.s.recommendation /\ w.s.state = move.to
      /\ move.to = "PAUSE" =>
           /\ PausedFrom(w.s) = u.s.state /\ w.s.stack # <<>>
           /\ Len(w.s.stack) = Len(u.s.stack) + 1
      /\ u.s.state = "PAUSE" /\ u.s.stack # <<>> => Len(w.s.stack) = Len(u.s.stack) - 1
      /\ u.s.state # "PAUSE" /\ move.to # "PAUSE" => w.s.stack = u.s.stack
  BY <1>1, <1>4, <1>6, MovedSound
<1> HIDE DEF w
<1>8. /\ Sound(after) /\ after.s.state = w.s.state /\ after.s.stack = w.s.stack
      /\ after.sl.profile = w.sl.profile /\ after.sl.status = w.sl.status
      /\ w.s.state = "S3" => after.s.needs = w.s.needs /\ after.s.suitability = w.s.suitability
      /\ Idle(w, after)
  <2>1. CASE after = w
    BY <1>7, <2>1 DEF Idle
  <2>2. CASE \E m : after = Entered(w, m)
    BY <1>4, <1>7, <2>2, EnteredSound
  <2> QED
    BY <1>5, <2>1, <2>2
<1>9. after.s.state \in {"S2", "S3"} => Advisable(after.sl)
  BY <1>4, <1>7, <1>8 DEF Advisable
<1>10. ASSUME after.s.state = "PAUSE", PausedFrom(after.s) \in {"S2", "S3"}
       PROVE  Advisable(after.sl)
  BY <1>4, <1>7, <1>8, <1>10 DEF Advisable, PausedFrom
<1>11. Shown(after.s)
  BY <1>4, <1>7, <1>8 DEF Shown, Held
<1>12. ASSUME after.s.state = "S3" PROVE OfferFor(after.s, after.sl)
  <2>1. CASE after = w /\ w.s.state = u.s.state
    <3>1. OfferKept(u) /\ Advisable(u.sl) /\ u.s.needs # NoHash
      BY <1>2, <1>4, <1>7, <1>12, <2>1
    <3> QED
      BY <1>7, <2>1, <3>1 DEF OfferKept, OfferFor, Held
  <2>2. CASE \E m : after = Entered(w, m)
    BY <1>4, <1>7, <1>8, <1>12, <2>2, EnteredSound
  <2> QED
    BY <1>5, <2>1, <2>2
<1>13. Framed(after.s)
  <2> DEFINE n == Len(t.s.stack)
             k == Len(u.s.stack)
  <2>1. /\ (k = n \/ (k = n + 1 /\ n < MaxStack)) /\ n \in Nat /\ k \in Nat
        /\ t.s.stack # <<>> => u.s.stack # <<>>
    <3>1. \A x : Append(t.s.stack, x) # <<>>
      BY <1>1
    <3> QED
      BY <1>1, <3>1 DEF Played, FsmState
  <2>2. /\ t.s.state \in Engaged => n <= MaxStack
        /\ t.s.state = "PAUSE" => n <= MaxStack + 1 /\ t.s.stack # <<>>
    BY DEF Standing, Framed
  <2> HIDE DEF n, k
  <2>3. after.s.state = move.to /\ after.s.stack = w.s.stack
    BY <1>7, <1>8
  <2>4. CASE u.s.state = "PAUSE"
    <3>1. Len(w.s.stack) = k - 1 /\ move.to # "PAUSE"
      BY <1>1, <1>6, <1>7, <2>1, <2>2, <2>4 DEF k
    <3> QED
      BY <1>1, <2>1, <2>2, <2>3, <2>4, <3>1, JourneyAssumption DEF Framed
  <2>5. CASE u.s.state # "PAUSE"
    <3>1. u.s.state \in Engaged /\ k <= MaxStack
      BY <1>1, <2>1, <2>2, <2>5, JourneyAssumption DEF Active
    <3>2. CASE move.to = "PAUSE"
      BY <1>7, <2>3, <3>1, <3>2, JourneyAssumption, <2>1 DEF Framed, PausedFrom, Engaged, k
    <3>3. CASE move.to # "PAUSE"
      BY <1>7, <2>3, <2>5, <3>1, <3>3 DEF Framed, k
    <3> QED
      BY <3>2, <3>3
  <2> QED
    BY <2>4, <2>5
<1>14. /\ after.s.state = "S3" => after.s.suitability = u.s.suitability
       /\ "handed" \in after.sig <=> "handed" \in u.sig
       /\ "handed" \in after.sig <=> after.s.state = "HANDOFF"
  BY <1>6, <1>7, <1>8 DEF Held, Idle
<1> QED
  BY <1>7, <1>8, <1>9, <1>10, <1>11, <1>12, <1>13, <1>14 DEF Standing, move

\* What a turn loads, from the checkpoint or from the tables, is a fresh start.
LEMMA LoadedFresh ==
  ASSUME JourneyInvariant, session.state \in Active, NEW t \in Loaded
  PROVE  /\ Fresh(t) /\ Standing(t) /\ t.s.state = session.state /\ t.s.stack = session.stack
         /\ t.s.prompt # NoPrompt => t.s = session
         /\ t.s.recommendation # NoOffer => t.s = session
         /\ t.sl = slots
<1> DEFINE h == Hydrated
<1>1. CASE t = Scratch(session, slots)
  <2>1. /\ t.s = session /\ t.sl = slots /\ t.sig = {} /\ ~t.ready
    BY <1>1 DEF Scratch
  <2>2. Standing(t) /\ OffTable(t.s)
    BY <1>1, <2>1 DEF JourneyInvariant
  <2>3. OfferFor(t.s, t.sl)
    BY <2>2 DEF Standing, OffTable, OfferFor
  <2> QED
    BY <2>1, <2>2, <2>3 DEF Fresh, Standing
<1>2. CASE t = Scratch(h, slots)
  <2>1. session \in Session /\ slots \in Slots /\ ledger \in Consents
    BY DEF JourneyInvariant, TypeOK
  <2>2. /\ h \in Session /\ h.state = session.state /\ h.stack = session.stack
        /\ h.prompt = NoPrompt /\ h.eligibility = NotJudged /\ h.needs = NoHash
        /\ h.recommendation = NoOffer
    BY <2>1 DEF Hydrated, Session, Judgement, Assessment, Prompts, NoPrompt
  <2> HIDE DEF h
  <2>3. t.s = h /\ t.sl = slots /\ t.sig = {} /\ ~t.ready /\ t \in Scratches
    BY <1>2, <2>1, <2>2 DEF Scratch, Scratches
  <2>4. AnswersHeld(slots)
    BY DEF JourneyInvariant, Standing, Sound, HeldFor, Scratch
  <2>5. HeldFor(h, slots)
    BY <2>2, <2>4 DEF HeldFor, JudgedFor, BoundTo, PromptsHeld, NoPrompt
  <2>6. Sound(t)
    BY <2>3, <2>5 DEF Sound
  <2>7. OfferFor(t.s, t.sl)
    BY <2>2, <2>3 DEF OfferFor
  <2>8. Framed(t.s)
    BY <2>2, <2>3 DEF JourneyInvariant, Standing, Scratch, Framed, PausedFrom
  <2> QED
    BY <2>2, <2>3, <2>6, <2>7, <2>8 DEF JourneyInvariant, Standing, Fresh, Scratch, PausedFrom
<1> QED
  BY <1>1, <1>2 DEF Loaded

\* A turn, taken apart: what was loaded, what its node made of it, what was committed.
LEMMA TurnsApart ==
  ASSUME JourneyInvariant, CustomerTurn \/ TimerTurn
  PROVE  \E t \in Loaded : \E u, intent : \E after \in Decided(u, intent) :
           Played(t, u, intent) /\ session.state \in Active /\ Committed(after)
<1>1. ledger \in Consents
  BY DEF JourneyInvariant, TypeOK
<1>2. CASE CustomerTurn
  <2>1. PICK t \in Loaded : \E o \in Outcomes(t) : \E after \in Decided(o.turn, o.intent) :
          session.state \in Active /\ Committed(after)
    BY <1>2 DEF CustomerTurn
  <2>2. PICK o \in Outcomes(t) : \E after \in Decided(o.turn, o.intent) :
          session.state \in Active /\ Committed(after)
    BY <2>1
  <2>3. PICK in \in Inputs(t.s.state) : \E m :
          o = [turn |-> Routed(t, in, m), intent |-> in.intent]
    BY DEF Outcomes
  <2>4. PICK m : o.turn = Routed(t, in, m) /\ o.intent = in.intent
    BY <2>3
  <2>5. Fresh(t)
    BY <2>2, LoadedFresh
  <2> QED
    BY <1>1, <2>2, <2>4, <2>5, RoutedSound
<1>3. CASE TimerTurn
  <2>1. PICK t \in Loaded : \E after \in Decided(With(t, "timer"), "none") :
          session.state \in Engaged /\ Committed(after)
    BY <1>3 DEF TimerTurn
  <2>2. Fresh(t) /\ t.s.state \in Engaged
    BY <2>1, LoadedFresh DEF Active
  <2> DEFINE u == With(t, "timer")
  <2>3. Sound(u) /\ u.s = t.s /\ u.sl = t.sl /\ u.sig = {"timer"}
    BY <2>2, WithSound DEF Fresh, Signals
  <2> HIDE DEF u
  <2>4. Turned(t, u) /\ t.s.state # "PAUSE"
    BY <2>2, <2>3 DEF Fresh, Turned, Advised, AgreedIn, Engaged, OfferKept, Handing
  <2>5. Played(t, u, "none")
    BY <2>3, <2>4 DEF Played
  <2> QED
    BY <2>1, <2>5 DEF u, Active
<1> QED
  BY <1>2, <1>3

\* A closed session keeps nothing.
LEMMA BlankSound ==
  ASSUME NEW at \in Terminal
  PROVE  /\ Standing(Scratch(Blank(at), NoSlots)) /\ Shown(Blank(at)) /\ OffTable(Blank(at))
         /\ Unframed(Blank(at))
         /\ Blank(at) \in Session /\ NoSlots \in Slots /\ Blank(at).state = at
<1> DEFINE b == Blank(at)
           t == Scratch(b, NoSlots)
<1>1. b \in Session
  BY DEF Blank, Session, FsmState, Prompts, NoPrompt, Consents, Judgement, Assessment
<1>2. NoSlots \in Slots
  BY DEF NoSlots, Slots, Status
<1>3. /\ b.state = at /\ b.eligibility = NotJudged /\ b.needs = NoHash
      /\ b.prompt = NoPrompt /\ b.recommendation = NoOffer /\ b.stack = <<>>
  BY DEF Blank
<1>4. HeldFor(b, NoSlots)
  BY <1>3 DEF HeldFor, AnswersHeld, JudgedFor, BoundTo, PromptsHeld, NoPrompt, NoSlots
<1> HIDE DEF b
<1>5. t \in Scratches /\ t.s = b /\ t.sl = NoSlots /\ ~t.ready
  BY <1>1, <1>2 DEF Scratch, Scratches
<1>6. Sound(t)
  BY <1>4, <1>5 DEF Sound
<1> QED
  BY <1>1, <1>2, <1>3, <1>5, <1>6
  DEF Standing, Framed, Unframed, Shown, OffTable, Terminal, Engaged, b

\* What is committed is the invariant's next state.
LEMMA CommittedSound ==
  ASSUME JourneyInvariant, session.state \in Active, NEW t, Standing(t), Shown(t.s),
         t.s.state \in FsmState, Committed(t),
         "handed" \in t.sig <=> t.s.state = "HANDOFF"
  PROVE  /\ JourneyInvariant' /\ session'.state = t.s.state
         /\ t.s.state = "S3" => session'.suitability = t.s.suitability
         /\ taken' # taken => "handed" \in t.sig
<1> DEFINE k == session'
           l == slots'
<1>1. ledger' \in Consents
  BY DEF JourneyInvariant, TypeOK, Committed, Consents
<1>2. taken = 0
  BY DEF JourneyInvariant, TypeOK, TakenOnce, Active, Engaged
<1>3. taken' = IF t.s.state = "HANDOFF" THEN 1 ELSE 0
  BY <1>2 DEF Committed
<1>4. /\ Standing(Scratch(k, l)) /\ Shown(k) /\ OffTable(k) /\ Unframed(k)
      /\ k \in Session /\ l \in Slots
      /\ k.state = t.s.state /\ (t.s.state = "S3" => k.suitability = t.s.suitability)
  <2>1. CASE t.s.state \in Terminal
    <3>1. k = Blank(t.s.state) /\ l = NoSlots
      BY <2>1 DEF Committed, Kept
    <3> QED
      BY <2>1, <3>1, BlankSound DEF Terminal
  <2>2. CASE t.s.state \notin Terminal
    <3> DEFINE w == IF t.s.state = "S3" THEN t ELSE [t EXCEPT !.s.recommendation = NoOffer]
    <3>1. /\ Sound(w) /\ Where(w) = Where(t) /\ Held(w) = Held(t) /\ w.sl = t.sl
          /\ w.s.recommendation = IF t.s.state = "S3" THEN t.s.recommendation ELSE NoOffer
      BY OfferSound DEF Standing
    <3>2. k = w.s /\ l = w.sl
      BY <2>2 DEF Committed, Kept, Standing, Sound, Scratches
    <3> HIDE DEF w
    <3>3. Sound(Scratch(k, l)) /\ Scratch(k, l).s = k /\ Scratch(k, l).sl = l
      BY <3>1, <3>2 DEF Sound, Scratch, Scratches
    <3>4. Framed(k) /\ PausedFrom(k) = PausedFrom(t.s)
      BY <3>1, <3>2 DEF Standing, Framed, Where, PausedFrom
    <3>5. k.state = "S3" => OfferFor(k, l)
      BY <3>1, <3>2 DEF Standing, OfferFor, Where, Held
    <3>6. Unframed(k)
      BY <2>2, <3>1, <3>2 DEF Unframed, Where
    <3> QED
      BY <3>1, <3>2, <3>3, <3>4, <3>5, <3>6
      DEF Standing, Shown, OffTable, Where, Held, Sound, Scratches
  <2> QED
    BY <2>1, <2>2
<1>5. (TypeOK /\ TakenOnce)'
  BY <1>1, <1>3, <1>4 DEF TypeOK, TakenOnce
<1>6. (Standing(Scratch(session, slots)))' /\ Shown(session)' /\ OffTable(session)'
      /\ Unframed(session)'
  BY <1>4 DEF Standing, Sound, Scratch, Shown, OffTable, Unframed, PausedFrom
<1> QED
  BY <1>2, <1>3, <1>4, <1>5, <1>6 DEF JourneyInvariant

----------------------------------------------------------------------------
(* The theorems. *)

LEMMA InitInvariant == Init => JourneyInvariant
<1> SUFFICES ASSUME Init PROVE JourneyInvariant
  OBVIOUS
<1> DEFINE b == Blank("S0")
           t == Scratch(b, NoSlots)
<1>1. b \in Session
  BY DEF Blank, Session, FsmState, Active, Engaged, Prompts, NoPrompt, Consents, Judgement, Assessment
<1>2. NoSlots \in Slots
  BY DEF NoSlots, Slots, Status
<1>3. /\ b.state = "S0" /\ b.eligibility = NotJudged /\ b.needs = NoHash
      /\ b.prompt = NoPrompt /\ b.recommendation = NoOffer /\ b.stack = <<>>
  BY DEF Blank
<1>4. HeldFor(b, NoSlots)
  BY <1>3 DEF HeldFor, AnswersHeld, JudgedFor, BoundTo, PromptsHeld, NoPrompt, NoSlots
<1>5. session = b /\ slots = NoSlots /\ ledger = "none" /\ taken = 0
  BY DEF Init
<1> HIDE DEF b
<1>6. t \in Scratches /\ t.s = b /\ t.sl = NoSlots /\ ~t.ready
  BY <1>1, <1>2 DEF Scratch, Scratches
<1>7. Sound(t)
  BY <1>4, <1>6 DEF Sound
<1> QED
  <2>1. Framed(b)
    BY <1>3, JourneyAssumption DEF Framed
  <2> QED
    BY <1>1, <1>2, <1>3, <1>5, <1>6, <1>7, <2>1
    DEF JourneyInvariant, TypeOK, Standing, Shown, OffTable, Unframed, TakenOnce, Consents

\* What a turn commits is decided on what its node made of what was loaded.
LEMMA TurnSound ==
  ASSUME JourneyInvariant, CustomerTurn \/ TimerTurn
  PROVE  /\ JourneyInvariant'
         /\ \E t \in Loaded : \E u, intent :
              /\ Played(t, u, intent)
              /\ session.state \in Active /\ session'.state = MoveOf(u, intent).to
              /\ session'.state = "S3" => session'.suitability = u.s.suitability
              /\ taken' # taken => "handed" \in u.sig
<1>1. PICK t \in Loaded : \E u, intent : \E after \in Decided(u, intent) :
        Played(t, u, intent) /\ session.state \in Active /\ Committed(after)
  BY TurnsApart
<1>2. PICK u, intent : \E after \in Decided(u, intent) :
        Played(t, u, intent) /\ session.state \in Active /\ Committed(after)
  BY <1>1
<1>3. PICK after \in Decided(u, intent) : Committed(after)
  BY <1>2
<1>4. Fresh(t) /\ Standing(t)
  BY <1>2, LoadedFresh
<1>5. /\ Standing(after) /\ Shown(after.s) /\ after.s.state = MoveOf(u, intent).to
      /\ after.s.state = "S3" => after.s.suitability = u.s.suitability
      /\ "handed" \in after.sig <=> "handed" \in u.sig
      /\ "handed" \in after.sig <=> after.s.state = "HANDOFF"
  BY <1>2, <1>4, Decides
<1>6. after.s.state \in FsmState
  BY <1>5 DEF Standing, Sound, Scratches, Session
<1>7. /\ JourneyInvariant' /\ session'.state = after.s.state
      /\ after.s.state = "S3" => session'.suitability = after.s.suitability
      /\ taken' # taken => "handed" \in after.sig
  BY <1>2, <1>3, <1>5, <1>6, CommittedSound
<1> QED
  BY <1>2, <1>5, <1>7

LEMMA NextInvariant == JourneyInvariant /\ [Next]_vars => JourneyInvariant'
<1> SUFFICES ASSUME JourneyInvariant, [Next]_vars PROVE JourneyInvariant'
  OBVIOUS
<1>1. CASE CustomerTurn \/ TimerTurn
  BY <1>1, TurnSound
<1>2. CASE Lapse
  BY <1>2 DEF Lapse, JourneyInvariant, TypeOK, TakenOnce, Consents
<1>3. CASE UNCHANGED vars
  BY <1>3 DEF vars, JourneyInvariant, TypeOK, TakenOnce
<1> QED
  BY <1>1, <1>2, <1>3 DEF Next

LEMMA AlwaysInvariant == Spec => []JourneyInvariant
BY InitInvariant, NextInvariant, PTL DEF Spec

\* The session, the answers and the ledger stay well formed over any number of turns, timers and
\* lapses, whatever is asked, corrected or hydrated (graph/nodes.py: load, route, decide, commit).
THEOREM JourneyTyped == Spec => []TypeOK
<1>1. JourneyInvariant => TypeOK
  BY DEF JourneyInvariant
<1> QED
  BY <1>1, AlwaysInvariant, PTL

\* The types, and the frames: fact cards, whose frames nothing pops, leave the stack within its
\* bound, and a pause has where it resumes on top (graph/nodes.py route and decide), whichever the
\* states fact cards are asked in.
THEOREM FramesStaySound == Spec => []TypesAndFrames
<1>1. ASSUME JourneyInvariant PROVE TypesAndFrames
  <2>1. /\ TypeOK /\ Framed(session) /\ OffTable(session)
    BY <1>1 DEF JourneyInvariant, Standing, Scratch
  <2>2. Len(session.stack) \in Nat
    BY <2>1 DEF TypeOK, Session
  <2>3. session.state \in Terminal => session.stack = <<>>
    BY <1>1 DEF JourneyInvariant, Unframed
  <2>4. Len(session.stack) <= MaxStack + 1
    BY <2>1, <2>2, <2>3, JourneyAssumption DEF Framed, TypeOK, Session, FsmState, Active
  <2> QED
    BY <2>1, <2>4 DEF TypesAndFrames, FramesAreSound, Framed, PausedFrom
<1> QED
  BY <1>1, AlwaysInvariant, PTL

\* In S2 and S3 the customer is eligible and confirmed, an eligibility result is of the profile the
\* session has now, and a record bound in S3 is of the confirmed needs, however answers were corrected
\* in between (graph/states/s1.py take, s2.py take_needs, s3.py correct: which records each drops).
THEOREM AdviceStaysCurrent == Spec => []AdviceIsCurrent
<1>1. ASSUME JourneyInvariant PROVE AdviceIsCurrent
  <2>1. HeldFor(session, slots)
    BY <1>1 DEF JourneyInvariant, Standing, Sound, Scratch
  <2>2. session.state \in {"S2", "S3"} => Advisable(slots)
    BY <1>1 DEF JourneyInvariant, Standing, Scratch
  <2>3. BoundIsConfirmed
    BY <1>1, <2>1, <2>2
    DEF BoundIsConfirmed, JourneyInvariant, Shown, HeldFor, BoundTo, Advisable
  <2>4. JudgedIsSaid
    BY <2>1 DEF JudgedIsSaid, HeldFor, JudgedFor
  <2>5. AdvisedIsEligible
    BY <2>2 DEF AdvisedIsEligible, Advisable
  <2> QED
    BY <2>3, <2>4, <2>5 DEF AdviceIsCurrent
<1> QED
  BY <1>1, AlwaysInvariant, PTL

\* A turn that resumes a pause into a state of P1 found the consent valid at the Consent Service.
LEMMA TurnResumesConsented ==
  ASSUME JourneyInvariant, CustomerTurn \/ TimerTurn, session.state = "PAUSE",
         session'.state \in NeedsP1
  PROVE  ledger = "valid"
<1>1. PICK t \in Loaded : \E u, intent :
        /\ Played(t, u, intent)
        /\ session.state \in Active /\ session'.state = MoveOf(u, intent).to
  BY TurnSound
<1>2. PICK u, intent :
        /\ Played(t, u, intent)
        /\ session.state \in Active /\ session'.state = MoveOf(u, intent).to
  BY <1>1
<1> DEFINE f == FactsOf(u, intent)
<1>3. /\ t.s.state = "PAUSE" /\ u.s.state \in Active /\ Sound(u) /\ Picked(u)
      /\ u.s.consent = "valid" => intent = "withdraw" \/ ledger = "valid"
  BY <1>2, LoadedFresh, TurnPicks DEF Played, Turned, Fresh
<1>4. f \in Facts
  BY <1>3, FactsTyped
<1>5. f.consent = "valid" => u.s.consent = "valid"
  BY FactsRead
<1>6. intent = "withdraw" => f.withdraw
  BY FactsRead
<1>7. session'.state = Earned(f, u.s.state).to
  BY <1>2 DEF MoveOf
<1> HIDE DEF f
<1>8. ValidP1(f)
  BY <1>3, <1>4, <1>7, EarnedSafe DEF SafeMove
<1>9. intent # "withdraw"
  BY <1>3, <1>4, <1>6, <1>7, EarnedErases DEF NeedsP1
<1> QED
  BY <1>3, <1>5, <1>8, <1>9 DEF ValidP1

\* A turn that enters S3 goes back to it or was agreed to: sufficient, or elected and confirmed.
LEMMA TurnShowsAgreed ==
  ASSUME JourneyInvariant, CustomerTurn \/ TimerTurn, session.state # "S3",
         session'.state = "S3"
  PROVE  \/ session.state = "PAUSE" /\ session.stack[Len(session.stack)] = "S3"
         \/ Agreed(session'.suitability)
<1>1. PICK t \in Loaded : \E u, intent :
        /\ Played(t, u, intent)
        /\ session.state \in Active /\ session'.state = MoveOf(u, intent).to
        /\ session'.suitability = u.s.suitability
  BY TurnSound
<1>2. PICK u, intent :
        /\ Played(t, u, intent)
        /\ session.state \in Active /\ session'.state = MoveOf(u, intent).to
        /\ session'.suitability = u.s.suitability
  BY <1>1
<1> DEFINE f == FactsOf(u, intent)
           judged == u.s.suitability
<1>3. /\ u.s.state = session.state /\ u.s.state \in Active /\ Sound(u)
      /\ Fresh(t) /\ t.s.state = session.state /\ t.s.stack = session.stack
      /\ t.s.prompt # NoPrompt => t.s = session
      /\ Picked(u) /\ Turned(t, u)
      /\ u.s.stack \in {t.s.stack, Append(t.s.stack, t.s.state)}
  BY <1>2, LoadedFresh, TurnPicks DEF Played, Turned, Fresh
<1>4. f \in Facts
  BY <1>3, FactsTyped
<1>5. /\ f.suitability = judged.result
      /\ f.sufficiency_elected <=> "elected" \in u.sig
      /\ f.amber_confirmed <=> "amber" \in u.sig
      /\ f.paused_from = IF u.s.state = "PAUSE" THEN PausedFrom(u.s) ELSE "none"
  BY FactsRead
<1>6. session'.state = Earned(f, u.s.state).to
  BY <1>2 DEF MoveOf
<1> HIDE DEF f
<1>7. PICK a \in Active : /\ a = u.s.state \/ (u.s.state = "PAUSE" /\ a = ResumeTarget(f))
                          /\ AdvisingMove(f, a, "S3")
  BY <1>3, <1>4, <1>6, EarnedAdvises
<1>8. CASE a = "S3"
  <2>1. u.s.state = "PAUSE" /\ PausedFrom(u.s) = "S3"
    BY <1>3, <1>5, <1>7, <1>8 DEF ResumeTarget
  <2>2. t.s.stack \in Seq(FsmState)
    BY <1>3 DEF Fresh, Sound, Scratches, Session
  <2>3. \A q \in Seq(FsmState) : Append(q, "PAUSE")[Len(Append(q, "PAUSE"))] = "PAUSE"
    BY DEF FsmState, Active
  <2>4. u.s.stack = t.s.stack
    BY <1>3, <2>1, <2>2, <2>3 DEF PausedFrom
  <2> QED
    BY <1>3, <2>1, <2>4 DEF PausedFrom
<1>9. CASE a # "S3"
  <2>1. a = "S2" /\ Suitable(f)
    BY <1>7, <1>9 DEF AdvisingMove
  <2>2. /\ judged.result.sufficient \/ "elected" \in u.sig
        /\ judged.result.amber => "amber" \in u.sig
    BY <1>5, <2>1 DEF Suitable
  <2>3. CASE u.s.state = "S2"
    <3>1. AgreedIn(t, u)
      BY <1>3, <2>3 DEF Turned
    <3>2. CASE "amber" \in u.sig
      <4>1. t.s = session /\ session.prompt = <<"S2", "amber">> /\ session.suitability = judged
            /\ session.needs # NoHash
        BY <1>3, <3>1, <3>2 DEF AgreedIn, NoPrompt
      <4>2. judged.result.amber
        BY <4>1 DEF JourneyInvariant, Standing, Sound, HeldFor, PromptsHeld, Scratch
      <4> QED
        BY <1>2, <4>1, <4>2 DEF Agreed
    <3>3. CASE "amber" \notin u.sig /\ "elected" \in u.sig
      <4>1. t.s = session /\ session.prompt = <<"S2", "elect">> /\ session.suitability = judged
        BY <1>3, <3>1, <3>3 DEF AgreedIn, NoPrompt
      <4> QED
        BY <1>2, <2>2, <3>3, <4>1 DEF Agreed
    <3>4. CASE "amber" \notin u.sig /\ "elected" \notin u.sig
      BY <1>2, <2>2, <3>4 DEF Agreed
    <3> QED
      BY <3>2, <3>3, <3>4
  <2>4. CASE u.s.state = "PAUSE"
    <3>1. u.sig = {}
      BY <1>3, <2>4 DEF Turned
    <3> QED
      BY <1>2, <2>2, <3>1 DEF Agreed
  <2> QED
    BY <1>7, <2>1, <2>3, <2>4
<1> QED
  BY <1>8, <1>9

\* A pause resumes into a state of P1 only on a consent valid at the Consent Service at that moment
\* (graph/handlers/pause.py), and S3 is entered only on a record the customer agreed to, or from a
\* pause of S3 itself (graph/states/s2.py elect, amber).
THEOREM EntriesStayEarned == Spec => EntriesAreEarned
<1>1. JourneyInvariant /\ [Next]_vars =>
        [session.state = "PAUSE" /\ session'.state \in NeedsP1 => ledger = "valid"]_vars
  <2> SUFFICES ASSUME JourneyInvariant, Next, session.state = "PAUSE", session'.state \in NeedsP1
               PROVE  ledger = "valid"
    OBVIOUS
  <2>1. CASE CustomerTurn \/ TimerTurn
    BY <2>1, TurnResumesConsented
  <2>2. CASE Lapse
    BY <2>2 DEF Lapse
  <2> QED
    BY <2>1, <2>2 DEF Next
<1>2. JourneyInvariant /\ [Next]_vars =>
        [session'.state = "S3" /\ session.state # "S3" =>
           \/ session.state = "PAUSE" /\ session.stack[Len(session.stack)] = "S3"
           \/ Agreed(session'.suitability)]_vars
  <2> SUFFICES ASSUME JourneyInvariant, Next, session'.state = "S3", session.state # "S3"
               PROVE  \/ session.state = "PAUSE" /\ session.stack[Len(session.stack)] = "S3"
                      \/ Agreed(session'.suitability)
    OBVIOUS
  <2>1. CASE CustomerTurn \/ TimerTurn
    BY <2>1, TurnShowsAgreed
  <2>2. CASE Lapse
    BY <2>2 DEF Lapse
  <2> QED
    BY <2>1, <2>2 DEF Next
<1> QED
  BY <1>1, <1>2, AlwaysInvariant, PTL DEF Spec, EntriesAreEarned, ResumedIsConsented, S3IsAgreed

\* A turn that takes an intake took it of the options on the table, for the session and the answers
\* it was loaded with.
LEMMA TurnHandsConfirmed ==
  ASSUME JourneyInvariant, CustomerTurn \/ TimerTurn, taken' # taken
  PROVE  /\ slots.status = "confirmed" /\ slots.needsStatus = "confirmed"
         /\ session.recommendation.profile = slots.profile
         /\ session.recommendation.suitability.result.hash = slots.needs
         /\ EligibilityOf[slots.profile].outcome = "ELIGIBLE"
         /\ session.consent = "valid"
<1>1. PICK t \in Loaded : \E u, intent :
        Played(t, u, intent) /\ session.state \in Active /\ "handed" \in u.sig
  BY TurnSound
<1>2. PICK u : Handing(t, u) /\ "handed" \in u.sig /\ session.state \in Active
  BY <1>1 DEF Played, Turned
<1>3. /\ t.s.state = "S3" /\ t.s.consent = "valid" /\ t.s.recommendation # NoOffer
      /\ OfferFor(t.s, t.sl)
  BY <1>2 DEF Handing
<1>4. t.s = session /\ t.sl = slots /\ Standing(t)
  BY <1>2, <1>3, LoadedFresh
<1>5. Advisable(slots)
  BY <1>3, <1>4 DEF Standing
<1>6. /\ session.needs # NoHash /\ session.recommendation.profile = slots.profile
      /\ session.recommendation.suitability = session.suitability
  BY <1>3, <1>4 DEF OfferFor
<1>7. /\ session.needs = slots.needs /\ slots.needsStatus = "confirmed"
      /\ session.suitability.result.hash = session.needs
  BY <1>4, <1>6 DEF Standing, Sound, HeldFor, BoundTo
<1> QED
  BY <1>3, <1>4, <1>5, <1>6, <1>7 DEF Advisable

\* An intake is taken only of options ranked from the answers the customer confirmed last, for an
\* eligible customer whose consent is held; it is taken once, and the session is closed as handed
\* off exactly when it is (graph/states/s3.py _hand_off, and the row S3.4 of fsm/rows.py), whatever
\* was corrected, hydrated, paused or lapsed before.
THEOREM HandOffStaysFinal == Spec => HandOffIsFinal
<1>1. JourneyInvariant /\ [Next]_vars =>
        [taken' # taken =>
           /\ slots.status = "confirmed" /\ slots.needsStatus = "confirmed"
           /\ session.recommendation.profile = slots.profile
           /\ session.recommendation.suitability.result.hash = slots.needs
           /\ EligibilityOf[slots.profile].outcome = "ELIGIBLE"
           /\ session.consent = "valid"]_vars
  <2> SUFFICES ASSUME JourneyInvariant, Next, taken' # taken
               PROVE  /\ slots.status = "confirmed" /\ slots.needsStatus = "confirmed"
                      /\ session.recommendation.profile = slots.profile
                      /\ session.recommendation.suitability.result.hash = slots.needs
                      /\ EligibilityOf[slots.profile].outcome = "ELIGIBLE"
                      /\ session.consent = "valid"
    OBVIOUS
  <2>1. CASE CustomerTurn \/ TimerTurn
    BY <2>1, TurnHandsConfirmed
  <2>2. CASE Lapse
    BY <2>2 DEF Lapse
  <2> QED
    BY <2>1, <2>2 DEF Next
<1>2. JourneyInvariant' => (taken' <= 1 /\ (taken' = 1 <=> session'.state = "HANDOFF"))
  BY DEF JourneyInvariant, TakenOnce
<1>3. JourneyInvariant /\ [Next]_vars =>
        [taken' <= 1 /\ (taken' = 1 <=> session'.state = "HANDOFF")]_vars
  BY <1>2, NextInvariant
<1> QED
  BY <1>1, <1>3, AlwaysInvariant, PTL DEF Spec, HandOffIsFinal, HandedAsConfirmed, TakenIsClosed

=============================================================================
