--------------------------- MODULE ErasureProofs ---------------------------
(***************************************************************************)
(* The safety of the erasure, for any number of requests, processes and     *)
(* event loops, any outages, failures and crashes, and any lapses of the    *)
(* valkey lock.  The argument rests on the row lock, on the order of erase   *)
(* and on the chain, which only grows.  At the end, what the valkey lock    *)
(* adds as long as nothing has failed: a session marked erased is inert.    *)
(***************************************************************************)
EXTENDS Erasure, FiniteSetTheorems, SequenceTheorems, TLAPS

----------------------------------------------------------------------------
(* The inductive invariant. *)

\* A turn between its load and its commit holds the row lock, and the row is there.
RowHeld ==
  /\ \A p \in Procs : pc[p] \in {"work", "commit"} => rowLock = p
  /\ rowLock # Free => row.status # "deleted"

\* A turn that has not reached its commit has not committed.
NotYet == \A p \in Procs : pc[p] \in {"acquire", "load", "work", "commit"} => ~job[p].committed

\* The key's turn comes after the delete.
KeyLast == \A p \in Procs : pc[p] = "key" => row.status = "deleted"

\* Whoever erases was asked to, for the reason it works with.
Asked(minor) == \E i \in Requests : audit[i].minor = minor
ErasersAsked ==
  \A p \in Procs :
    pc[p] \in {"children", "session", "key"} \/ (job[p].committed /\ job[p].erases)
      => Asked(job[p].minor)

\* A nonempty set of requests has a last one.
HasLast == Requests # {} => \E i \in Requests : \A k \in Requests : k <= i

\* Whoever takes the consent for withdrawn has it from the Consent Service.
LedgerKnown ==
  /\ row.consent = "withdrawn" => ledger = "withdrawn"
  /\ \A p \in Procs :
       \/ job[p].consent = "withdrawn" \/ job[p].recorded \/ job[p].withdrawal = "done"
       \/ pc[p] = "append"
       => ledger = "withdrawn"

\* While a withdrawal is retried at least one is to do.
ToDo == \A p \in Procs : pc[p] \in {"retry", "append"} => job[p].todo # 0

IInv ==
  /\ TypeOK /\ ToDo
  /\ RowHeld /\ NotYet /\ KeyLast /\ ErasersAsked /\ HasLast /\ LedgerKnown
  /\ KeyOutlivesRows /\ DeletedOnRequest /\ WithdrawnIsRecorded /\ MinorNotScheduled

----------------------------------------------------------------------------
(* The chain. *)

\* Appending to the chain keeps its requests and their order.
LEMMA ChainGrows ==
  ASSUME TypeOK, HasLast, NEW b \in Seq(Event), audit' = audit \o b,
         \A k \in DOMAIN b : b[k].type = "ERASURE_REQUEST" => k = 1
  PROVE  /\ audit' \in Seq(Event)
         /\ Requests \subseteq Requests'
         /\ \A i \in Requests : audit'[i] = audit[i]
         /\ HasLast'
<1> audit \in Seq(Event)
  BY DEF TypeOK
<1>0. /\ Len(audit) \in Nat /\ Len(b) \in Nat
      /\ DOMAIN audit = 1..Len(audit) /\ DOMAIN b = 1..Len(b)
  OBVIOUS
<1>1. /\ audit' \in Seq(Event) /\ Len(audit') = Len(audit) + Len(b)
      /\ \A i \in 1..(Len(audit) + Len(b)) :
           audit'[i] = IF i <= Len(audit) THEN audit[i] ELSE b[i - Len(audit)]
  BY <1>0, ConcatProperties
<1>2. DOMAIN audit' = 1..(Len(audit) + Len(b))
  BY <1>1
<1>3. \A i \in 1..Len(audit) : i \in DOMAIN audit' /\ audit'[i] = audit[i]
  BY <1>0, <1>1, <1>2
<1>4. Requests \subseteq Requests' /\ \A i \in Requests : audit'[i] = audit[i]
  BY <1>0, <1>3 DEF Requests
<1>5. \A i \in Requests' : i \in Requests \/ i = Len(audit) + 1
  <2> SUFFICES ASSUME NEW i \in DOMAIN audit', audit'[i].type = "ERASURE_REQUEST",
                      i \notin Requests
               PROVE  i = Len(audit) + 1
    BY DEF Requests
  <2>1. i \in 1..(Len(audit) + Len(b))
    BY <1>2
  <2>2. i > Len(audit)
    BY <2>1, <1>0, <1>3 DEF Requests
  <2>3. i - Len(audit) \in DOMAIN b /\ audit'[i] = b[i - Len(audit)]
    BY <2>1, <2>2, <1>0, <1>1
  <2>4. i - Len(audit) = 1
    BY <2>3
  <2> QED
    BY <2>1, <2>4, <1>0
<1>6. \A i \in Requests : i \in 1..Len(audit)
  BY <1>0 DEF Requests
<1>7. HasLast'
  <2> SUFFICES ASSUME Requests' # {}
               PROVE  \E i \in Requests' : \A k \in Requests' : k <= i
    BY DEF HasLast
  <2>1. CASE Len(audit) + 1 \in Requests'
    BY <2>1, <1>0, <1>5, <1>6
  <2>2. CASE Len(audit) + 1 \notin Requests'
    BY <2>2, <1>4, <1>5 DEF HasLast
  <2> QED
    BY <2>1, <2>2
<1> QED
  BY <1>1, <1>4, <1>7

\* What a turn appends.
LEMMA Events ==
  ASSUME NEW j \in Job
  PROVE  /\ EventsOf(j) \in Seq(Event)
         /\ \A k \in DOMAIN EventsOf(j) :
              \/ /\ k = 1 /\ j.erases
                 /\ EventsOf(j)[k] = [type |-> "ERASURE_REQUEST", minor |-> j.minor,
                                      withdrawal |-> j.withdrawal]
              \/ j.recorded /\ EventsOf(j)[k] = [type |-> "CONSENT_WITHDRAWN"]
         /\ j.erases =>
              /\ 1 \in DOMAIN EventsOf(j)
              /\ EventsOf(j)[1] = [type |-> "ERASURE_REQUEST", minor |-> j.minor,
                                   withdrawal |-> j.withdrawal]
<1> DEFINE request == [type |-> "ERASURE_REQUEST", minor |-> j.minor, withdrawal |-> j.withdrawal]
           withdrawn == [type |-> "CONSENT_WITHDRAWN"]
<1>1. request \in Event /\ withdrawn \in Event
  BY DEF Event, Job
<1>2. CASE j.erases /\ j.recorded
  <2>1. EventsOf(j) = <<request>> \o <<withdrawn>>
    BY <1>2 DEF EventsOf
  <2>2. <<request>> \in Seq(Event) /\ <<withdrawn>> \in Seq(Event)
        /\ Len(<<request>>) = 1 /\ Len(<<withdrawn>>) = 1
    BY <1>1
  <2>3. /\ EventsOf(j) \in Seq(Event) /\ Len(EventsOf(j)) = 2
        /\ EventsOf(j)[1] = request /\ EventsOf(j)[2] = withdrawn
    BY <2>1, <2>2, ConcatProperties
  <2> QED
    BY <1>2, <2>3
<1>3. CASE j.erases /\ ~j.recorded
  <2>1. EventsOf(j) = <<request>>
    BY <1>3, <1>1, ConcatEmptySeq DEF EventsOf
  <2> QED
    BY <1>1, <1>3, <2>1
<1>4. CASE ~j.erases /\ j.recorded
  <2>1. EventsOf(j) = <<withdrawn>>
    BY <1>4, <1>1, ConcatEmptySeq DEF EventsOf
  <2> QED
    BY <1>1, <1>4, <2>1
<1>5. CASE ~j.erases /\ ~j.recorded
  <2>1. EventsOf(j) = <<>>
    BY <1>5, ConcatEmptySeq DEF EventsOf
  <2> QED
    BY <1>5, <2>1
<1> QED
  BY <1>2, <1>3, <1>4, <1>5

\* The number of pending withdrawals.
LEMMA PendingCounted ==
  ASSUME TypeOK
  PROVE  Cardinality(Pending) \in Nat /\ (Pending # {} => Cardinality(Pending) # 0)
<1>a. audit \in Seq(Event)
  BY DEF TypeOK
<1>1. Len(audit) \in Nat /\ Pending \subseteq 1..Len(audit)
  BY <1>a DEF Pending, Requests
<1>2. IsFiniteSet(1..Len(audit))
  BY <1>1, FS_Interval
<1>3. IsFiniteSet(Pending)
  BY <1>1, <1>2, FS_Subset
<1>4. Cardinality(Pending) \in Nat
  BY <1>3, FS_CardinalityType
<1>5. Cardinality(Pending) = 0 <=> Pending = {}
  BY <1>3, FS_EmptySet
<1> QED
  BY <1>4, <1>5

----------------------------------------------------------------------------
(* The initial state, and one lemma per action. *)

LEMMA InitIInv == Init => IInv
BY ErasureAssumption
   DEF Init, IInv, TypeOK, ToDo, RowHeld, NotYet, KeyLast, ErasersAsked, HasLast, LedgerKnown,
       KeyOutlivesRows, DeletedOnRequest, WithdrawnIsRecorded, MinorNotScheduled, Requests, NewJob,
       Row, Job, Consent, Kinds, Event

\* A step that leaves the chain alone leaves its requests alone.
LEMMA SameChain ==
  ASSUME UNCHANGED audit
  PROVE  Requests' = Requests /\ (HasLast => HasLast') /\ \A minor : Asked(minor)' <=> Asked(minor)
BY DEF Requests, HasLast, Asked

\* A step of one process leaves the others where they are.
LEMMA JobStep ==
  ASSUME TypeOK, NEW p \in Procs, NEW j \in Job, job' = [job EXCEPT ![p] = j]
  PROVE  /\ job' \in [Procs -> Job] /\ job'[p] = j
         /\ \A q \in Procs \ {p} : job'[q] = job[q]
BY DEF TypeOK

LEMMA AuthenticateIInv ==
  ASSUME IInv, NEW p \in Procs, Authenticate(p)
  PROVE  IInv'
<1> USE DEF Authenticate, Goto, Runs, store, locks, bounds
<1>k. PICK kind \in Kinds \ {"sweep"} : job' = [job EXCEPT ![p] = NewJob(kind)]
  OBVIOUS
<1> DEFINE j == NewJob(kind)
<1>a. job[p] \in Job
  BY DEF IInv, TypeOK
<1>1. j \in Job /\ j.consent = "none" /\ ~j.recorded /\ j.withdrawal = "none" /\ ~j.committed
  BY <1>a DEF Job, Consent, Kinds, NewJob
<1>2. job' = [job EXCEPT ![p] = j]
  BY <1>k DEF j
<1> HIDE DEF j
<1>3. /\ job' \in [Procs -> Job] /\ job'[p] = j
      /\ \A q \in Procs \ {p} : job'[q] = job[q]
  BY <1>1, <1>2, JobStep DEF IInv
<1>4. TypeOK' /\ ToDo'
  BY <1>1, <1>3, ErasureAssumption DEF IInv, TypeOK, ToDo
<1>5. RowHeld' /\ NotYet' /\ KeyLast'
  BY <1>1, <1>3, ErasureAssumption DEF IInv, TypeOK, RowHeld, NotYet, KeyLast
<1>6. ErasersAsked' /\ HasLast'
  BY <1>1, <1>3, SameChain DEF IInv, TypeOK, ErasersAsked
<1>7. LedgerKnown'
  BY <1>1, <1>3 DEF IInv, TypeOK, LedgerKnown
<1>8. KeyOutlivesRows' /\ DeletedOnRequest' /\ WithdrawnIsRecorded' /\ MinorNotScheduled'
  BY SameChain DEF IInv, KeyOutlivesRows, DeletedOnRequest, WithdrawnIsRecorded, MinorNotScheduled
<1> QED
  BY <1>4, <1>5, <1>6, <1>7, <1>8 DEF IInv

LEMMA AcquireIInv ==
  ASSUME IInv, NEW p \in Procs, Acquire(p)
  PROVE  IInv'
<1> USE ErasureAssumption DEF IInv, Acquire, Goto, Runs, store, locks, bounds
<1>1. TypeOK' /\ ToDo'
  BY DEF TypeOK, ToDo, Row, Job, Consent, Kinds
<1>2. RowHeld' /\ NotYet' /\ KeyLast'
  BY DEF TypeOK, RowHeld, NotYet, KeyLast
<1>3. ErasersAsked' /\ HasLast'
  BY SameChain DEF TypeOK, store, ErasersAsked
<1>4. LedgerKnown'
  BY DEF TypeOK, LedgerKnown
<1>5. KeyOutlivesRows' /\ DeletedOnRequest' /\ WithdrawnIsRecorded' /\ MinorNotScheduled'
  BY DEF KeyOutlivesRows, DeletedOnRequest, WithdrawnIsRecorded, MinorNotScheduled, Requests
<1> QED
  BY <1>1, <1>2, <1>3, <1>4, <1>5

LEMMA LoadIInv ==
  ASSUME IInv, NEW p \in Procs, Load(p)
  PROVE  IInv'
<1> USE DEF Goto, Runs, store, locks, bounds
<1>1. CASE UNCHANGED <<rowLock, job>> /\ Goto(p, "exit")
  <2> USE <1>1 DEF IInv, Load
  <2>1. TypeOK' /\ ToDo'
    BY DEF TypeOK, ToDo
  <2>2. RowHeld' /\ NotYet' /\ KeyLast' /\ LedgerKnown'
    BY DEF TypeOK, RowHeld, NotYet, KeyLast, LedgerKnown
  <2>3. ErasersAsked' /\ HasLast'
    BY SameChain DEF TypeOK, ErasersAsked
  <2>4. KeyOutlivesRows' /\ DeletedOnRequest' /\ WithdrawnIsRecorded' /\ MinorNotScheduled'
    BY SameChain DEF KeyOutlivesRows, DeletedOnRequest, WithdrawnIsRecorded, MinorNotScheduled
  <2> QED
    BY <2>1, <2>2, <2>3, <2>4
<1>2. CASE /\ row.status # "deleted" /\ rowLock = Free /\ rowLock' = p
           /\ \E consent \in {row.consent, IF row.consent = "none" THEN "none" ELSE ledger} :
                job' = [job EXCEPT ![p].consent = consent]
           /\ Goto(p, "work")
  <2>0. row.consent \in Consent /\ ledger \in Consent /\ job[p] \in Job
    BY DEF IInv, TypeOK, Row
  <2>1. PICK consent \in Consent : /\ job' = [job EXCEPT ![p].consent = consent]
                                   /\ consent \in {row.consent, "none", ledger}
    BY <1>2, <2>0 DEF Consent
  <2> DEFINE j == [job[p] EXCEPT !.consent = consent]
  <2>2. /\ j \in Job /\ j.consent = consent /\ j.minor = job[p].minor
        /\ j.committed = job[p].committed /\ j.erases = job[p].erases
        /\ j.recorded = job[p].recorded /\ j.withdrawal = job[p].withdrawal
    BY <2>0 DEF Job
  <2>3. job' = [job EXCEPT ![p] = j]
    BY <2>1
  <2> HIDE DEF j
  <2>4. /\ job' \in [Procs -> Job] /\ job'[p] = j
        /\ \A q \in Procs \ {p} : job'[q] = job[q]
    BY <2>2, <2>3, JobStep DEF IInv
  <2> USE <1>2 DEF Load
  <2>5. TypeOK' /\ ToDo'
    BY <2>2, <2>4, ErasureAssumption DEF IInv, TypeOK, ToDo
  <2>6. RowHeld' /\ NotYet' /\ KeyLast'
    BY <2>2, <2>4, ErasureAssumption DEF IInv, TypeOK, RowHeld, NotYet, KeyLast
  <2>7. ErasersAsked' /\ HasLast'
    BY <2>2, <2>4, SameChain DEF IInv, TypeOK, ErasersAsked
  <2>8. LedgerKnown'
    BY <2>1, <2>2, <2>4 DEF IInv, TypeOK, LedgerKnown
  <2>9. KeyOutlivesRows' /\ DeletedOnRequest' /\ WithdrawnIsRecorded' /\ MinorNotScheduled'
    BY SameChain DEF IInv, KeyOutlivesRows, DeletedOnRequest, WithdrawnIsRecorded, MinorNotScheduled
  <2> QED
    BY <2>5, <2>6, <2>7, <2>8, <2>9 DEF IInv
<1> QED
  BY <1>1, <1>2 DEF Load

LEMMA WorkIInv ==
  ASSUME IInv, NEW p \in Procs, Work(p)
  PROVE  IInv'
<1> USE ErasureAssumption DEF IInv, Work, Goto, Runs, store, locks, bounds
<1>1. TypeOK' /\ ToDo'
  BY DEF TypeOK, ToDo, Row, Job, Consent, Kinds
<1>2. RowHeld' /\ NotYet' /\ KeyLast'
  BY DEF TypeOK, RowHeld, NotYet, KeyLast
<1>3. ErasersAsked' /\ HasLast'
  BY SameChain DEF TypeOK, store, ErasersAsked
<1>4. LedgerKnown'
  BY DEF TypeOK, LedgerKnown
<1>5. KeyOutlivesRows' /\ DeletedOnRequest' /\ WithdrawnIsRecorded' /\ MinorNotScheduled'
  BY DEF KeyOutlivesRows, DeletedOnRequest, WithdrawnIsRecorded, MinorNotScheduled, Requests
<1> QED
  BY <1>1, <1>2, <1>3, <1>4, <1>5

LEMMA GrantConsentIInv ==
  ASSUME IInv, NEW p \in Procs, GrantConsent(p)
  PROVE  IInv'
<1> USE DEF GrantConsent, Goto, Runs, store, locks, bounds
<1> DEFINE j == [job[p] EXCEPT !.consent = "valid"]
<1>a. job[p] \in Job
  BY DEF IInv, TypeOK
<1>1. j \in Job /\ j.consent = "valid" /\ j.minor = job[p].minor /\ j.committed = job[p].committed
      /\ j.erases = job[p].erases /\ j.recorded = job[p].recorded
      /\ j.withdrawal = job[p].withdrawal
  BY <1>a DEF Job, Consent, Kinds
<1>2. job' = [job EXCEPT ![p] = j]
  BY DEF j
<1> HIDE DEF j
<1>3. /\ job' \in [Procs -> Job] /\ job'[p] = j
      /\ \A q \in Procs \ {p} : job'[q] = job[q]
  BY <1>1, <1>2, JobStep DEF IInv
<1>4. TypeOK' /\ ToDo'
  BY <1>1, <1>3, ErasureAssumption DEF IInv, TypeOK, ToDo, Consent
<1>5. RowHeld' /\ NotYet' /\ KeyLast'
  BY <1>1, <1>3, ErasureAssumption DEF IInv, TypeOK, RowHeld, NotYet, KeyLast
<1>6. ErasersAsked' /\ HasLast'
  BY <1>1, <1>3, SameChain DEF IInv, TypeOK, ErasersAsked
<1>7. LedgerKnown'
  BY <1>1, <1>3 DEF IInv, TypeOK, LedgerKnown
<1>8. KeyOutlivesRows' /\ DeletedOnRequest' /\ WithdrawnIsRecorded' /\ MinorNotScheduled'
  BY SameChain DEF IInv, KeyOutlivesRows, DeletedOnRequest, WithdrawnIsRecorded, MinorNotScheduled
<1> QED
  BY <1>4, <1>5, <1>6, <1>7, <1>8 DEF IInv

LEMMA EraseNodeIInv ==
  ASSUME IInv, NEW p \in Procs, EraseNode(p)
  PROVE  IInv'
<1> USE DEF Goto, Runs, store, locks, bounds
<1>1. PICK withdrawal \in {"none", "done", "pending"}, recorded \in BOOLEAN :
        /\ \/ /\ withdrawal # "done" /\ ~recorded
              /\ ledger' \in {ledger, "withdrawn"}
           \/ /\ job[p].consent = "withdrawn" /\ withdrawal = "done" /\ ~recorded
              /\ ledger' = ledger
           \/ ledger' = "withdrawn"
        /\ job' = [job EXCEPT ![p].withdrawal = withdrawal, ![p].recorded = recorded,
                              ![p].consent = IF recorded THEN "withdrawn" ELSE @,
                              ![p].minor = job[p].kind = "minor", ![p].erases = TRUE]
  BY DEF EraseNode
<1>a. /\ pc[p] = "work" /\ pc' = [pc EXCEPT ![p] = "commit"]
      /\ UNCHANGED <<row, checkpoint, key, audit, sessionLock, rowLock>>
  BY DEF EraseNode
<1> DEFINE j == [job[p] EXCEPT !.withdrawal = withdrawal, !.recorded = recorded,
                               !.consent = IF recorded THEN "withdrawn" ELSE @,
                               !.minor = job[p].kind = "minor", !.erases = TRUE]
<1>2. job[p] \in Job
  BY DEF IInv, TypeOK
<1>3. /\ j \in Job /\ j.withdrawal = withdrawal /\ j.recorded = recorded
      /\ j.consent = (IF recorded THEN "withdrawn" ELSE job[p].consent)
      /\ j.committed = job[p].committed
  BY <1>2 DEF Job, Consent
<1>4. job' = [job EXCEPT ![p] = j]
  BY <1>1, <1>2 DEF IInv, TypeOK
<1> HIDE DEF j
<1>5. /\ job' \in [Procs -> Job] /\ job'[p] = j
      /\ \A q \in Procs \ {p} : job'[q] = job[q]
  BY <1>3, <1>4, JobStep DEF IInv
<1>b. ledger' \in Consent
  BY <1>1 DEF IInv, TypeOK, Consent
<1>6. TypeOK' /\ ToDo'
  BY <1>a, <1>b, <1>3, <1>5 DEF IInv, TypeOK, ToDo
<1>7. RowHeld' /\ NotYet' /\ KeyLast'
  BY <1>a, <1>3, <1>5 DEF IInv, TypeOK, RowHeld, NotYet, KeyLast
<1>8. ErasersAsked' /\ HasLast'
  BY <1>a, <1>3, <1>5, SameChain DEF IInv, TypeOK, ErasersAsked, NotYet
<1>9. ledger = "withdrawn" => ledger' = "withdrawn"
  BY <1>1 DEF IInv, TypeOK
<1>10. LedgerKnown'
  <2>1. j.consent = "withdrawn" \/ j.recorded \/ j.withdrawal = "done" => ledger' = "withdrawn"
    BY <1>1, <1>3, <1>9 DEF IInv, LedgerKnown
  <2>2. pc'[p] # "append" /\ \A q \in Procs \ {p} : pc'[q] = pc[q]
    BY <1>a DEF IInv, TypeOK
  <2>3. ASSUME NEW q \in Procs,
               \/ job'[q].consent = "withdrawn" \/ job'[q].recorded \/ job'[q].withdrawal = "done"
               \/ pc'[q] = "append"
        PROVE  ledger' = "withdrawn"
    <3>1. CASE q = p
      BY <3>1, <2>1, <2>2, <2>3, <1>5
    <3>2. CASE q # p
      BY <3>2, <2>2, <2>3, <1>5, <1>9 DEF IInv, LedgerKnown
    <3> QED
      BY <3>1, <3>2
  <2> QED
    BY <2>3, <1>a, <1>9 DEF IInv, LedgerKnown
<1>11. KeyOutlivesRows' /\ DeletedOnRequest' /\ WithdrawnIsRecorded' /\ MinorNotScheduled'
  BY <1>a, <1>9, SameChain DEF IInv, KeyOutlivesRows, DeletedOnRequest, WithdrawnIsRecorded,
     MinorNotScheduled
<1> QED
  BY <1>6, <1>7, <1>8, <1>10, <1>11 DEF IInv

LEMMA CommitIInv ==
  ASSUME IInv, NEW p \in Procs, Commit(p)
  PROVE  IInv'
<1> USE DEF Goto, Runs, store, locks, bounds
<1> DEFINE j == [job[p] EXCEPT !.committed = TRUE]
           b == EventsOf(job[p])
<1>0. job[p] \in Job /\ row \in Row /\ p # Free /\ audit \in Seq(Event) /\ pc[p] = "commit"
  BY ErasureAssumption DEF IInv, TypeOK, Commit
<1>1. /\ j \in Job /\ j.committed /\ j.erases = job[p].erases /\ j.minor = job[p].minor
      /\ j.consent = job[p].consent /\ j.recorded = job[p].recorded
      /\ j.withdrawal = job[p].withdrawal
  BY <1>0 DEF Job
<1>2. job' = [job EXCEPT ![p] = j] /\ audit' = audit \o b
  BY DEF Commit
<1>3. /\ b \in Seq(Event)
      /\ \A k \in DOMAIN b :
           \/ /\ k = 1 /\ job[p].erases
              /\ b[k] = [type |-> "ERASURE_REQUEST", minor |-> job[p].minor,
                         withdrawal |-> job[p].withdrawal]
           \/ job[p].recorded /\ b[k] = [type |-> "CONSENT_WITHDRAWN"]
      /\ job[p].erases =>
           /\ 1 \in DOMAIN b
           /\ b[1] = [type |-> "ERASURE_REQUEST", minor |-> job[p].minor,
                      withdrawal |-> job[p].withdrawal]
  BY <1>0, Events
<1>4. /\ row' \in Row /\ row'.status \in {"active", "ended", "erased"}
      /\ row'.status = "erased" => job[p].erases
      /\ row'.consent = job[p].consent
  BY <1>0 DEF Commit, Row, Job
<1> HIDE DEF j, b
<1>5. /\ job' \in [Procs -> Job] /\ job'[p] = j
      /\ \A q \in Procs \ {p} : job'[q] = job[q]
  BY <1>1, <1>2, JobStep DEF IInv
<1>b. \A k \in DOMAIN b : b[k].type = "ERASURE_REQUEST" => k = 1
  BY <1>3
<1>6. /\ audit' \in Seq(Event) /\ Requests \subseteq Requests' /\ HasLast'
      /\ \A i \in Requests : audit'[i] = audit[i]
  BY <1>2, <1>3, <1>b, ChainGrows DEF IInv
<1>7. /\ Len(audit') = Len(audit) + Len(b)
      /\ \A i \in 1..(Len(audit) + Len(b)) :
           audit'[i] = IF i <= Len(audit) THEN audit[i] ELSE b[i - Len(audit)]
  BY <1>0, <1>2, <1>3, ConcatProperties
<1>8. /\ rowLock = p /\ rowLock' = Free /\ row.status # "deleted" /\ pc' = [pc EXCEPT ![p] = "exit"]
      /\ UNCHANGED <<key, ledger>>
  BY <1>0 DEF IInv, RowHeld, Commit
<1>9. TypeOK' /\ ToDo'
  BY <1>4, <1>5, <1>6, <1>8 DEF IInv, TypeOK, ToDo, Commit
<1>10. RowHeld' /\ NotYet' /\ KeyLast'
  BY <1>0, <1>4, <1>5, <1>8 DEF IInv, TypeOK, RowHeld, NotYet, KeyLast
<1>11. job[p].erases => Asked(job[p].minor)'
  <2> SUFFICES ASSUME job[p].erases  PROVE Asked(job[p].minor)'
    OBVIOUS
  <2>1. 1 \in DOMAIN b /\ b[1].type = "ERASURE_REQUEST" /\ b[1].minor = job[p].minor
    BY <1>3
  <2>2. Len(b) \in Nat /\ Len(audit) \in Nat /\ Len(b) >= 1 /\ DOMAIN audit' = 1..Len(audit')
    BY <1>0, <1>3, <1>6, <2>1
  <2>3. Len(audit) + 1 \in DOMAIN audit' /\ audit'[Len(audit) + 1] = b[1]
    BY <1>7, <2>2
  <2>4. Len(audit) + 1 \in Requests' /\ audit'[Len(audit) + 1].minor = job[p].minor
    BY <2>1, <2>3 DEF Requests
  <2>5. \E i \in Requests' : audit'[i].minor = job[p].minor
    BY <2>4
  <2>6. job'[p].minor = job[p].minor
    BY <1>1, <1>5
  <2> QED
    BY <2>5, <2>6 DEF Asked
<1>12. \A minor \in BOOLEAN : Asked(minor) => Asked(minor)'
  BY <1>6 DEF Asked
<1>13. \A q \in Procs : job[q].minor \in BOOLEAN
  BY DEF IInv, TypeOK, Job
<1>14. ErasersAsked'
  BY <1>1, <1>5, <1>8, <1>11, <1>12, <1>13 DEF IInv, TypeOK, ErasersAsked
<1>15. LedgerKnown'
  BY <1>1, <1>4, <1>5, <1>8 DEF IInv, TypeOK, LedgerKnown
<1>16. KeyOutlivesRows'
  BY <1>8 DEF IInv, KeyOutlivesRows, Commit
<1>17. DeletedOnRequest' /\ MinorNotScheduled'
  BY <1>4, <1>6, <1>8, <1>11
     DEF IInv, KeyOutlivesRows, DeletedOnRequest, MinorNotScheduled, Asked, Commit
<1>18. WithdrawnIsRecorded'
  <2> SUFFICES ASSUME NEW i \in DOMAIN audit',
                      audit'[i].type = "CONSENT_WITHDRAWN" \/ audit'[i].withdrawal = "done"
               PROVE  ledger = "withdrawn"
    BY DEF WithdrawnIsRecorded, Commit
  <2>1. i \in 1..(Len(audit) + Len(b))
    BY <1>6, <1>7
  <2>2. CASE i <= Len(audit)
    BY <2>1, <2>2, <1>0, <1>7 DEF IInv, WithdrawnIsRecorded
  <2>3. CASE i > Len(audit)
    <3>1. i - Len(audit) \in DOMAIN b /\ audit'[i] = b[i - Len(audit)]
      BY <2>1, <2>3, <1>0, <1>3, <1>7
    <3>2. job[p].recorded \/ (job[p].erases /\ job[p].withdrawal = "done")
      BY <3>1, <1>3
    <3> QED
      BY <3>2 DEF IInv, LedgerKnown
  <2> QED
    BY <2>1, <2>2, <2>3, <1>0
<1> QED
  BY <1>6, <1>9, <1>10, <1>14, <1>15, <1>16, <1>17, <1>18 DEF IInv

LEMMA WriteCheckpointIInv ==
  ASSUME IInv, NEW p \in Procs, WriteCheckpoint(p)
  PROVE  IInv'
<1> USE ErasureAssumption DEF IInv, WriteCheckpoint, Goto, Runs, store, locks, bounds
<1>1. TypeOK' /\ ToDo'
  BY DEF TypeOK, ToDo, Row, Job, Consent, Kinds
<1>2. RowHeld' /\ NotYet' /\ KeyLast'
  BY DEF TypeOK, RowHeld, NotYet, KeyLast
<1>3. ErasersAsked' /\ HasLast'
  BY SameChain DEF TypeOK, store, ErasersAsked
<1>4. LedgerKnown'
  BY DEF TypeOK, LedgerKnown
<1>5. KeyOutlivesRows' /\ DeletedOnRequest' /\ WithdrawnIsRecorded' /\ MinorNotScheduled'
  BY DEF KeyOutlivesRows, DeletedOnRequest, WithdrawnIsRecorded, MinorNotScheduled, Requests
<1> QED
  BY <1>1, <1>2, <1>3, <1>4, <1>5

LEMMA UnlockIInv ==
  ASSUME IInv, NEW p \in Procs, Unlock(p)
  PROVE  IInv'
<1> USE ErasureAssumption DEF IInv, Unlock, Goto, Runs, store, locks, bounds
<1>1. TypeOK' /\ ToDo'
  BY DEF TypeOK, ToDo, Row, Job, Consent, Kinds
<1>2. RowHeld' /\ NotYet' /\ KeyLast'
  BY DEF TypeOK, RowHeld, NotYet, KeyLast
<1>3. ErasersAsked' /\ HasLast'
  BY SameChain DEF TypeOK, store, ErasersAsked
<1>4. LedgerKnown'
  BY DEF TypeOK, LedgerKnown
<1>5. KeyOutlivesRows' /\ DeletedOnRequest' /\ WithdrawnIsRecorded' /\ MinorNotScheduled'
  BY DEF KeyOutlivesRows, DeletedOnRequest, WithdrawnIsRecorded, MinorNotScheduled, Requests
<1> QED
  BY <1>1, <1>2, <1>3, <1>4, <1>5

LEMMA EraseChildrenIInv ==
  ASSUME IInv, NEW p \in Procs, EraseChildren(p)
  PROVE  IInv'
<1> USE DEF EraseChildren, Goto, Runs, store, locks, bounds
<1>k. row.children \in Nat
  BY DEF IInv, TypeOK, Row
<1> DEFINE j == [job[p] EXCEPT !.seen = row.children]
<1>a. job[p] \in Job
  BY DEF IInv, TypeOK
<1>1. /\ j \in Job /\ j.consent = job[p].consent
      /\ j.minor = job[p].minor /\ j.committed = job[p].committed
      /\ j.erases = job[p].erases /\ j.recorded = job[p].recorded
      /\ j.withdrawal = job[p].withdrawal
  BY <1>a, <1>k DEF Job, Consent, Kinds
<1>2. job' = [job EXCEPT ![p] = j]
  BY DEF j
<1> HIDE DEF j
<1>3. /\ job' \in [Procs -> Job] /\ job'[p] = j
      /\ \A q \in Procs \ {p} : job'[q] = job[q]
  BY <1>1, <1>2, JobStep DEF IInv
<1>4. TypeOK' /\ ToDo'
  BY <1>1, <1>3, ErasureAssumption DEF IInv, TypeOK, ToDo
<1>5. RowHeld' /\ NotYet' /\ KeyLast'
  BY <1>1, <1>3, ErasureAssumption DEF IInv, TypeOK, RowHeld, NotYet, KeyLast
<1>6. ErasersAsked' /\ HasLast'
  BY <1>1, <1>3, SameChain DEF IInv, TypeOK, ErasersAsked
<1>7. LedgerKnown'
  BY <1>1, <1>3 DEF IInv, TypeOK, LedgerKnown
<1>8. KeyOutlivesRows' /\ DeletedOnRequest' /\ WithdrawnIsRecorded' /\ MinorNotScheduled'
  BY SameChain DEF IInv, KeyOutlivesRows, DeletedOnRequest, WithdrawnIsRecorded, MinorNotScheduled
<1> QED
  BY <1>4, <1>5, <1>6, <1>7, <1>8 DEF IInv

LEMMA EraseSessionIInv ==
  ASSUME IInv, NEW p \in Procs, EraseSession(p)
  PROVE  IInv'
<1> USE ErasureAssumption DEF Goto, Runs, store, locks, bounds
<1>1. /\ row' \in Row /\ row'.consent = row.consent /\ rowLock = Free /\ rowLock' = Free
      /\ row' = row \/ row'.status = "deleted"
      /\ pc' \in {[pc EXCEPT ![p] = "key"], [pc EXCEPT ![p] = "end"], [pc EXCEPT ![p] = "sweep"]}
      /\ pc'[p] = "key" => row'.status = "deleted"
      /\ pc[p] = "session" /\ checkpoint' \in {checkpoint, "absent"}
      /\ UNCHANGED <<key, ledger, audit, sessionLock, job>>
  <2>1. row \in Row /\ pc \in [Procs -> {"idle", "acquire", "load", "work", "commit", "exit",
          "unlock", "children", "session", "key", "sweep", "pending", "retry", "append", "end"}]
    BY DEF IInv, TypeOK
  <2>2. [row EXCEPT !.status = "deleted", !.children = 0] \in Row
    BY <2>1 DEF Row
  <2>3. CASE row' = [row EXCEPT !.status = "deleted", !.children = 0]
    BY <2>1, <2>2, <2>3 DEF EraseSession, Row
  <2>4. CASE UNCHANGED <<row, checkpoint>> /\ pc'[p] # "key"
    BY <2>1, <2>4 DEF EraseSession
  <2> QED
    BY <2>1, <2>3, <2>4 DEF EraseSession
<1>2. TypeOK' /\ ToDo'
  BY <1>1 DEF IInv, TypeOK, ToDo
<1>3. RowHeld' /\ NotYet' /\ KeyLast'
  BY <1>1 DEF IInv, TypeOK, RowHeld, NotYet, KeyLast
<1>4. ErasersAsked' /\ HasLast'
  BY <1>1, SameChain DEF IInv, TypeOK, ErasersAsked
<1>5. LedgerKnown'
  BY <1>1 DEF IInv, TypeOK, LedgerKnown
<1>6. Requests # {}
  BY <1>1 DEF IInv, ErasersAsked, Asked
<1>7. KeyOutlivesRows' /\ DeletedOnRequest' /\ WithdrawnIsRecorded' /\ MinorNotScheduled'
  BY <1>1, <1>6, SameChain DEF IInv, KeyOutlivesRows, DeletedOnRequest, WithdrawnIsRecorded,
     MinorNotScheduled
<1> QED
  BY <1>2, <1>3, <1>4, <1>5, <1>7 DEF IInv

LEMMA EraseKeyIInv ==
  ASSUME IInv, NEW p \in Procs, EraseKey(p)
  PROVE  IInv'
<1> USE ErasureAssumption DEF Goto, Runs, locks, bounds, AfterErase
<1>1. TypeOK' /\ ToDo'
  BY DEF IInv, TypeOK, ToDo, EraseKey
<1>2. RowHeld' /\ NotYet' /\ KeyLast'
  BY DEF IInv, TypeOK, RowHeld, NotYet, KeyLast, EraseKey
<1>3. ErasersAsked' /\ HasLast'
  BY SameChain DEF IInv, TypeOK, ErasersAsked, EraseKey
<1>4. LedgerKnown'
  BY DEF IInv, TypeOK, LedgerKnown, EraseKey
<1>5. row.status = "deleted" /\ Asked(job[p].minor)
  BY DEF IInv, KeyLast, ErasersAsked, EraseKey
<1>6. KeyOutlivesRows' /\ DeletedOnRequest' /\ WithdrawnIsRecorded'
  BY <1>5, SameChain DEF IInv, KeyOutlivesRows, DeletedOnRequest, WithdrawnIsRecorded, Asked,
     EraseKey
<1>7. key' = "scheduled" => key = "scheduled" \/ ~job[p].minor
  BY DEF EraseKey
<1>8. MinorNotScheduled'
  BY <1>5, <1>7, SameChain DEF IInv, MinorNotScheduled, Asked, EraseKey
<1> QED
  BY <1>1, <1>2, <1>3, <1>4, <1>6, <1>8 DEF IInv

LEMMA StartSweepIInv ==
  ASSUME IInv, NEW p \in Procs, StartSweep(p)
  PROVE  IInv'
<1> USE ErasureAssumption DEF IInv, StartSweep, Goto, Runs, store, locks, bounds, NewJob
<1>1. TypeOK' /\ ToDo'
  BY DEF TypeOK, ToDo, Row, Job, Consent, Kinds
<1>2. RowHeld' /\ NotYet' /\ KeyLast'
  BY DEF TypeOK, RowHeld, NotYet, KeyLast
<1>3. ErasersAsked' /\ HasLast'
  BY SameChain DEF TypeOK, store, ErasersAsked
<1>4. LedgerKnown'
  BY DEF TypeOK, LedgerKnown
<1>5. KeyOutlivesRows' /\ DeletedOnRequest' /\ WithdrawnIsRecorded' /\ MinorNotScheduled'
  BY DEF KeyOutlivesRows, DeletedOnRequest, WithdrawnIsRecorded, MinorNotScheduled, Requests
<1> QED
  BY <1>1, <1>2, <1>3, <1>4, <1>5

LEMMA SelectErasedIInv ==
  ASSUME IInv, NEW p \in Procs, SelectErased(p)
  PROVE  IInv'
<1> USE DEF Goto, Runs, store, locks, bounds
<1> DEFINE m == Requests # {} /\ audit[LastRequest].minor
           j == [job[p] EXCEPT !.sweeping = TRUE, !.minor = m]
<1>1. \A i \in Requests : audit[i].minor \in BOOLEAN
  <2> audit \in Seq(Event)
    BY DEF IInv, TypeOK
  <2>1. \A i \in DOMAIN audit : audit[i] \in Event
    OBVIOUS
  <2> QED
    BY <2>1 DEF Requests, Event
<1>2. Requests # {} => LastRequest \in Requests
  BY DEF IInv, HasLast, LastRequest
<1>3. m \in BOOLEAN /\ (Requests # {} => Asked(m))
  BY <1>1, <1>2 DEF Asked
<1>4. job[p] \in Job
  BY DEF IInv, TypeOK
<1> HIDE DEF m
<1>5. /\ j \in Job /\ j.consent = job[p].consent /\ j.minor = m /\ j.committed = job[p].committed
      /\ j.erases = job[p].erases /\ j.recorded = job[p].recorded
      /\ j.withdrawal = job[p].withdrawal
  BY <1>3, <1>4 DEF Job
<1>6. job' = [job EXCEPT ![p] = j]
  BY DEF SelectErased, m
<1> HIDE DEF j
<1>7. /\ job' \in [Procs -> Job] /\ job'[p] = j
      /\ \A q \in Procs \ {p} : job'[q] = job[q]
  BY <1>5, <1>6, JobStep DEF IInv
<1> USE DEF SelectErased
<1>8. TypeOK' /\ ToDo'
  BY <1>5, <1>7 DEF IInv, TypeOK, ToDo
<1>9. RowHeld' /\ NotYet' /\ KeyLast'
  BY <1>5, <1>7 DEF IInv, TypeOK, RowHeld, NotYet, KeyLast
<1>10. row.status = "erased" \/ (job[p].committed /\ job[p].erases) => Asked(m)
  BY <1>3 DEF IInv, DeletedOnRequest, ErasersAsked, Asked
<1>11. ErasersAsked' /\ HasLast'
  BY <1>5, <1>7, <1>10, SameChain DEF IInv, TypeOK, ErasersAsked
<1>12. LedgerKnown'
  BY <1>5, <1>7 DEF IInv, TypeOK, LedgerKnown
<1>13. KeyOutlivesRows' /\ DeletedOnRequest' /\ WithdrawnIsRecorded' /\ MinorNotScheduled'
  BY SameChain DEF IInv, KeyOutlivesRows, DeletedOnRequest, WithdrawnIsRecorded, MinorNotScheduled
<1> QED
  BY <1>8, <1>9, <1>11, <1>12, <1>13 DEF IInv

LEMMA SelectPendingIInv ==
  ASSUME IInv, NEW p \in Procs, SelectPending(p)
  PROVE  IInv'
<1> USE DEF SelectPending, Goto, Runs, store, locks, bounds
<1> DEFINE j == [job[p] EXCEPT !.todo = Cardinality(Pending)]
<1>a. job[p] \in Job
  BY DEF IInv, TypeOK
<1>1. /\ j \in Job /\ j.consent = job[p].consent /\ j.todo = Cardinality(Pending)
      /\ j.minor = job[p].minor /\ j.committed = job[p].committed
      /\ j.erases = job[p].erases /\ j.recorded = job[p].recorded
      /\ j.withdrawal = job[p].withdrawal
  BY <1>a, PendingCounted DEF Job, Consent, Kinds, IInv
<1>2. job' = [job EXCEPT ![p] = j]
  BY DEF j
<1> HIDE DEF j
<1>3. /\ job' \in [Procs -> Job] /\ job'[p] = j
      /\ \A q \in Procs \ {p} : job'[q] = job[q]
  BY <1>1, <1>2, JobStep DEF IInv
<1>4. TypeOK' /\ ToDo'
  BY <1>1, <1>3, ErasureAssumption, PendingCounted DEF IInv, TypeOK, ToDo
<1>5. RowHeld' /\ NotYet' /\ KeyLast'
  BY <1>1, <1>3, ErasureAssumption, PendingCounted DEF IInv, TypeOK, RowHeld, NotYet, KeyLast
<1>6. ErasersAsked' /\ HasLast'
  BY <1>1, <1>3, SameChain, PendingCounted DEF IInv, TypeOK, ErasersAsked
<1>7. LedgerKnown'
  BY <1>1, <1>3, PendingCounted DEF IInv, TypeOK, LedgerKnown
<1>8. KeyOutlivesRows' /\ DeletedOnRequest' /\ WithdrawnIsRecorded' /\ MinorNotScheduled'
  BY SameChain, PendingCounted
     DEF IInv, KeyOutlivesRows, DeletedOnRequest, WithdrawnIsRecorded, MinorNotScheduled
<1> QED
  BY <1>4, <1>5, <1>6, <1>7, <1>8 DEF IInv

\* NextPending takes one withdrawal off the list.
LEMMA NextPendingStep ==
  ASSUME IInv, NEW p \in Procs, pc[p] \in {"retry", "append"}, NextPending(p)
  PROVE  /\ job' \in [Procs -> Job] /\ \A q \in Procs \ {p} : job'[q] = job[q]
         /\ job'[p].consent = job[p].consent /\ job'[p].recorded = job[p].recorded
         /\ job'[p].withdrawal = job[p].withdrawal /\ job'[p].committed = job[p].committed
         /\ job'[p].erases = job[p].erases /\ job'[p].minor = job[p].minor
         /\ pc' \in {[pc EXCEPT ![p] = "retry"], [pc EXCEPT ![p] = "end"]}
         /\ pc'[p] = "retry" => job'[p].todo # 0
<1> DEFINE j == [job[p] EXCEPT !.todo = job[p].todo - 1]
<1>1. job[p] \in Job /\ job[p].todo \in Nat \ {0} /\ pc \in [Procs -> {"idle", "acquire", "load",
        "work", "commit", "exit", "unlock", "children", "session", "key", "sweep", "pending",
        "retry", "append", "end"}]
  BY DEF IInv, TypeOK, ToDo, Job
<1>2. /\ j \in Job /\ j.todo = job[p].todo - 1 /\ j.consent = job[p].consent
      /\ j.recorded = job[p].recorded /\ j.withdrawal = job[p].withdrawal
      /\ j.committed = job[p].committed /\ j.erases = job[p].erases /\ j.minor = job[p].minor
  BY <1>1 DEF Job
<1>3. job' = [job EXCEPT ![p] = j]
  BY DEF NextPending
<1> HIDE DEF j
<1>4. /\ job' \in [Procs -> Job] /\ job'[p] = j
      /\ \A q \in Procs \ {p} : job'[q] = job[q]
  BY <1>2, <1>3, JobStep DEF IInv
<1>5. pc' = [pc EXCEPT ![p] = IF job[p].todo > 1 THEN "retry" ELSE "end"]
  BY DEF NextPending, Goto
<1>6. /\ pc' \in {[pc EXCEPT ![p] = "retry"], [pc EXCEPT ![p] = "end"]}
      /\ pc'[p] = "retry" => job[p].todo - 1 # 0
  <2>1. CASE job[p].todo > 1
    <3>1. pc' = [pc EXCEPT ![p] = "retry"]
      BY <2>1, <1>5
    <3>2. job[p].todo - 1 # 0
      BY <2>1, <1>1
    <3> QED
      BY <3>1, <3>2
  <2>2. CASE ~(job[p].todo > 1)
    BY <2>2, <1>1, <1>5
  <2> QED
    BY <2>1, <2>2
<1> QED
  BY <1>2, <1>4, <1>6

LEMMA RetryWithdrawalIInv ==
  ASSUME IInv, NEW p \in Procs, RetryWithdrawal(p)
  PROVE  IInv'
<1> USE DEF Goto, Runs, store, locks, bounds
<1>1. /\ pc[p] = "retry" /\ (ledger = "withdrawn" => ledger' = "withdrawn")
      /\ ledger' \in {ledger, "withdrawn"}
      /\ UNCHANGED <<row, checkpoint, key, audit, sessionLock, rowLock>>
  BY DEF RetryWithdrawal
<1>2. CASE ledger' = "withdrawn" /\ UNCHANGED job /\ Goto(p, "append")
  <2>1. TypeOK' /\ ToDo'
    BY <1>1, <1>2 DEF IInv, TypeOK, ToDo, Consent
  <2>2. RowHeld' /\ NotYet' /\ KeyLast' /\ LedgerKnown'
    BY <1>1, <1>2 DEF IInv, TypeOK, RowHeld, NotYet, KeyLast, LedgerKnown
  <2>3. ErasersAsked' /\ HasLast'
    BY <1>1, <1>2, SameChain DEF IInv, TypeOK, ErasersAsked
  <2> QED
    BY <1>1, <2>1, <2>2, <2>3, SameChain
       DEF IInv, KeyOutlivesRows, DeletedOnRequest, WithdrawnIsRecorded, MinorNotScheduled
<1>3. CASE NextPending(p)
  <2>1. TypeOK' /\ ToDo'
    BY <1>1, <1>3, NextPendingStep DEF IInv, TypeOK, ToDo, Consent
  <2>2. RowHeld' /\ NotYet' /\ KeyLast'
    BY <1>1, <1>3, NextPendingStep DEF IInv, TypeOK, RowHeld, NotYet, KeyLast
  <2>4. LedgerKnown'
    <3>1. \A q \in Procs : /\ job'[q].consent = job[q].consent
                           /\ job'[q].recorded = job[q].recorded
                           /\ job'[q].withdrawal = job[q].withdrawal
                           /\ (pc'[q] = "append" => pc[q] = "append")
      BY <1>1, <1>3, NextPendingStep DEF IInv, TypeOK
    <3>2. ASSUME NEW q \in Procs,
                 \/ job'[q].consent = "withdrawn" \/ job'[q].recorded
                 \/ job'[q].withdrawal = "done" \/ pc'[q] = "append"
          PROVE  ledger' = "withdrawn"
      BY <3>1, <3>2, <1>1 DEF IInv, LedgerKnown
    <3> QED
      BY <3>2, <1>1 DEF IInv, LedgerKnown
  <2>3. ErasersAsked' /\ HasLast'
    BY <1>1, <1>3, NextPendingStep, SameChain DEF IInv, TypeOK, ErasersAsked
  <2> QED
    BY <1>1, <2>1, <2>2, <2>3, <2>4, SameChain
       DEF IInv, KeyOutlivesRows, DeletedOnRequest, WithdrawnIsRecorded, MinorNotScheduled
<1> QED
  BY <1>2, <1>3 DEF RetryWithdrawal

LEMMA AppendWithdrawnIInv ==
  ASSUME IInv, NEW p \in Procs, AppendWithdrawn(p)
  PROVE  IInv'
<1> USE DEF Goto, Runs, locks, bounds
<1> DEFINE e == [type |-> "CONSENT_WITHDRAWN"]
<1>1. /\ pc[p] = "append" /\ NextPending(p) /\ ledger = "withdrawn"
      /\ UNCHANGED <<row, checkpoint, key, ledger, sessionLock, rowLock>>
  BY DEF AppendWithdrawn, IInv, LedgerKnown
<1>a. audit \in Seq(Event) /\ e \in Event
  BY DEF IInv, TypeOK, Event
<1>2. /\ audit \in Seq(Event) /\ e \in Event /\ <<e>> \in Seq(Event)
      /\ \A k \in DOMAIN <<e>> : <<e>>[k].type = "ERASURE_REQUEST" => k = 1
  BY <1>a
<1>3. audit' = audit \/ audit' = audit \o <<e>>
  BY <1>2, AppendIsConcat DEF AppendWithdrawn
<1>4. /\ audit' \in Seq(Event) /\ Requests \subseteq Requests' /\ HasLast'
      /\ \A i \in Requests : audit'[i] = audit[i]
  <2>1. CASE audit' = audit
    BY <1>2, <2>1, SameChain DEF IInv
  <2>2. CASE audit' = audit \o <<e>>
    BY <1>2, <2>2, ChainGrows DEF IInv
  <2> QED
    BY <1>3, <2>1, <2>2
<1>5. TypeOK' /\ ToDo'
  BY <1>1, <1>4, NextPendingStep DEF IInv, TypeOK, ToDo
<1>6. RowHeld' /\ NotYet' /\ KeyLast' /\ LedgerKnown'
  BY <1>1, NextPendingStep DEF IInv, TypeOK, RowHeld, NotYet, KeyLast, LedgerKnown
<1>8. \A q \in Procs : job[q].minor \in BOOLEAN
  BY DEF IInv, TypeOK, Job
<1>9. ErasersAsked'
  <2>1. \A q \in Procs : job'[q].minor = job[q].minor
    BY <1>1, NextPendingStep
  <2>2. \A q \in Procs :
          pc'[q] \in {"children", "session", "key"} \/ (job'[q].committed /\ job'[q].erases)
          => pc[q] \in {"children", "session", "key"} \/ (job[q].committed /\ job[q].erases)
    BY <1>1, NextPendingStep DEF IInv, TypeOK
  <2>3. \A q \in Procs : Asked(job[q].minor) => \E i \in Requests' : audit'[i].minor = job[q].minor
    BY <1>4, <1>8 DEF Asked
  <2> QED
    BY <2>1, <2>2, <2>3 DEF IInv, ErasersAsked, Asked
<1>10. KeyOutlivesRows' /\ DeletedOnRequest' /\ WithdrawnIsRecorded' /\ MinorNotScheduled'
  BY <1>1, <1>4 DEF IInv, KeyOutlivesRows, DeletedOnRequest, WithdrawnIsRecorded, MinorNotScheduled
<1> QED
  BY <1>4, <1>5, <1>6, <1>9, <1>10 DEF IInv

LEMMA EndSweepIInv ==
  ASSUME IInv, NEW p \in Procs, EndSweep(p)
  PROVE  IInv'
<1> USE ErasureAssumption DEF IInv, EndSweep, Goto, Runs, store, locks, bounds
<1>1. TypeOK' /\ ToDo'
  BY DEF TypeOK, ToDo, Row, Job, Consent, Kinds
<1>2. RowHeld' /\ NotYet' /\ KeyLast'
  BY DEF TypeOK, RowHeld, NotYet, KeyLast
<1>3. ErasersAsked' /\ HasLast'
  BY SameChain DEF TypeOK, store, ErasersAsked
<1>4. LedgerKnown'
  BY DEF TypeOK, LedgerKnown
<1>5. KeyOutlivesRows' /\ DeletedOnRequest' /\ WithdrawnIsRecorded' /\ MinorNotScheduled'
  BY DEF KeyOutlivesRows, DeletedOnRequest, WithdrawnIsRecorded, MinorNotScheduled, Requests
<1> QED
  BY <1>1, <1>2, <1>3, <1>4, <1>5

LEMMA FailTurnIInv ==
  ASSUME IInv, NEW p \in Procs, FailTurn(p)
  PROVE  IInv'
<1> USE ErasureAssumption DEF IInv, FailTurn, Goto, Runs, store, locks, bounds, Failing
<1>1. TypeOK' /\ ToDo'
  BY DEF TypeOK, ToDo, Row, Job, Consent, Kinds
<1>2. RowHeld' /\ NotYet' /\ KeyLast'
  BY DEF TypeOK, RowHeld, NotYet, KeyLast
<1>3. ErasersAsked' /\ HasLast'
  BY SameChain DEF TypeOK, store, ErasersAsked
<1>4. LedgerKnown'
  BY DEF TypeOK, LedgerKnown
<1>5. KeyOutlivesRows' /\ DeletedOnRequest' /\ WithdrawnIsRecorded' /\ MinorNotScheduled'
  BY DEF KeyOutlivesRows, DeletedOnRequest, WithdrawnIsRecorded, MinorNotScheduled, Requests
<1> QED
  BY <1>1, <1>2, <1>3, <1>4, <1>5

LEMMA FailEraseIInv ==
  ASSUME IInv, NEW p \in Procs, FailErase(p)
  PROVE  IInv'
<1> USE DEF Goto, store, locks, Failing
<1>1. UNCHANGED <<row, checkpoint, key, ledger, audit, sessionLock, rowLock>>
  BY DEF FailErase
<1>2. CASE pc[p] = "append" /\ NextPending(p)
  <2>1. TypeOK' /\ ToDo'
    BY <1>1, <1>2, NextPendingStep DEF IInv, TypeOK, ToDo
  <2>2. RowHeld' /\ NotYet' /\ KeyLast' /\ LedgerKnown'
    BY <1>1, <1>2, NextPendingStep DEF IInv, TypeOK, RowHeld, NotYet, KeyLast, LedgerKnown
  <2>3. ErasersAsked' /\ HasLast'
    BY <1>1, <1>2, NextPendingStep, SameChain DEF IInv, TypeOK, ErasersAsked
  <2> QED
    BY <1>1, <2>1, <2>2, <2>3, SameChain
       DEF IInv, KeyOutlivesRows, DeletedOnRequest, WithdrawnIsRecorded, MinorNotScheduled
<1>3. CASE UNCHANGED job /\ \E label \in {"end", "sweep"} : pc' = [pc EXCEPT ![p] = label]
  <2>1. TypeOK' /\ ToDo'
    BY <1>1, <1>3 DEF IInv, TypeOK, ToDo
  <2>2. RowHeld' /\ NotYet' /\ KeyLast' /\ LedgerKnown'
    BY <1>1, <1>3 DEF IInv, TypeOK, RowHeld, NotYet, KeyLast, LedgerKnown
  <2>3. ErasersAsked' /\ HasLast'
    BY <1>1, <1>3, SameChain DEF IInv, TypeOK, ErasersAsked
  <2> QED
    BY <1>1, <2>1, <2>2, <2>3, SameChain
       DEF IInv, KeyOutlivesRows, DeletedOnRequest, WithdrawnIsRecorded, MinorNotScheduled
<1> QED
  BY <1>2, <1>3 DEF FailErase

LEMMA CrashIInv ==
  ASSUME IInv, NEW h, Crash(h)
  PROVE  IInv'
<1> USE ErasureAssumption DEF store, Failing
<1> DEFINE gone == {p \in Procs : Host[p] = h}
<1>1. /\ pc' = [p \in Procs |-> IF p \in gone THEN "idle" ELSE pc[p]]
      /\ sessionLock' = (IF sessionLock \in gone THEN Orphan ELSE sessionLock)
      /\ rowLock' = (IF rowLock \in gone THEN Free ELSE rowLock)
      /\ UNCHANGED <<row, checkpoint, key, ledger, audit, job>>
  BY DEF Crash
<1>2. gone \subseteq Procs
  OBVIOUS
<1> HIDE DEF gone
<1>3. TypeOK' /\ ToDo'
  BY <1>1, <1>2 DEF IInv, TypeOK, ToDo
<1>4. RowHeld' /\ NotYet' /\ KeyLast' /\ LedgerKnown'
  BY <1>1, <1>2 DEF IInv, TypeOK, RowHeld, NotYet, KeyLast, LedgerKnown
<1>5. ErasersAsked' /\ HasLast'
  BY <1>1, <1>2, SameChain DEF IInv, TypeOK, ErasersAsked
<1> QED
  BY <1>1, <1>3, <1>4, <1>5, SameChain
     DEF IInv, KeyOutlivesRows, DeletedOnRequest, WithdrawnIsRecorded, MinorNotScheduled

LEMMA ExpireIInv ==
  ASSUME IInv, Expire
  PROVE  IInv'
<1>1. UNCHANGED <<row, checkpoint, key, ledger, audit, rowLock, pc, job>> /\ sessionLock' = Free
  BY DEF Expire, store
<1>2. TypeOK' /\ ToDo' /\ RowHeld' /\ NotYet' /\ KeyLast' /\ LedgerKnown'
  BY <1>1 DEF IInv, TypeOK, ToDo, RowHeld, NotYet, KeyLast, LedgerKnown
<1>3. ErasersAsked' /\ HasLast'
  BY <1>1, SameChain DEF IInv, ErasersAsked
<1> QED
  BY <1>1, <1>2, <1>3, SameChain
     DEF IInv, KeyOutlivesRows, DeletedOnRequest, WithdrawnIsRecorded, MinorNotScheduled

----------------------------------------------------------------------------
(* The theorems. *)

LEMMA StutterIInv ==
  ASSUME IInv, UNCHANGED vars
  PROVE  IInv'
<1>1. UNCHANGED <<row, checkpoint, key, ledger, audit, sessionLock, rowLock, pc, job>>
  BY DEF vars, store, locks
<1>2. TypeOK' /\ ToDo' /\ RowHeld' /\ NotYet' /\ KeyLast' /\ LedgerKnown'
  BY <1>1 DEF IInv, TypeOK, ToDo, RowHeld, NotYet, KeyLast, LedgerKnown
<1>3. ErasersAsked' /\ HasLast'
  BY <1>1, SameChain DEF IInv, ErasersAsked
<1> QED
  BY <1>1, <1>2, <1>3, SameChain
     DEF IInv, KeyOutlivesRows, DeletedOnRequest, WithdrawnIsRecorded, MinorNotScheduled

LEMMA StepIInv == IInv /\ [Next]_vars => IInv'
<1> SUFFICES ASSUME IInv, [Next]_vars
             PROVE  IInv'
  OBVIOUS
<1>1. ASSUME NEW p \in Procs, TurnStep(p)
      PROVE  IInv'
  BY <1>1, AcquireIInv, LoadIInv, WorkIInv, GrantConsentIInv, EraseNodeIInv, CommitIInv,
     WriteCheckpointIInv, UnlockIInv DEF TurnStep
<1>2. ASSUME NEW p \in Procs, EraseStep(p)
      PROVE  IInv'
  BY <1>2, EraseChildrenIInv, EraseSessionIInv, EraseKeyIInv DEF EraseStep
<1>3. ASSUME NEW p \in Procs, SweepStep(p)
      PROVE  IInv'
  BY <1>3, SelectErasedIInv, SelectPendingIInv, RetryWithdrawalIInv, AppendWithdrawnIInv,
     EndSweepIInv DEF SweepStep
<1>4. ASSUME NEW p \in Procs, Authenticate(p) \/ StartSweep(p) \/ FailTurn(p) \/ FailErase(p)
      PROVE  IInv'
  BY <1>4, AuthenticateIInv, StartSweepIInv, FailTurnIInv, FailEraseIInv
<1>5. ASSUME NEW p \in Procs, Crash(Host[p])
      PROVE  IInv'
  BY <1>5, CrashIInv
<1>6. CASE Expire
  BY <1>6, ExpireIInv
<1>7. CASE UNCHANGED vars
  BY <1>7, StutterIInv
<1> QED
  BY <1>1, <1>2, <1>3, <1>4, <1>5, <1>6, <1>7 DEF Next

LEMMA Invariance == Spec => []IInv
BY InitIInv, StepIInv, PTL DEF Spec

\* The key goes last, whichever processes erase at once and wherever they fail.
THEOREM KeyGoesLast == Spec => []KeyOutlivesRows
<1>1. IInv => KeyOutlivesRows
  BY DEF IInv
<1> QED
  BY <1>1, Invariance, PTL

\* Nothing is deleted without a request on the chain.
THEOREM OnlyRequestedIsDeleted == Spec => []DeletedOnRequest
<1>1. IInv => DeletedOnRequest
  BY DEF IInv
<1> QED
  BY <1>1, Invariance, PTL

\* The chain claims a withdrawal only of what the Consent Service recorded.
THEOREM ChainTellsTheTruth == Spec => []WithdrawnIsRecorded
<1>1. IInv => WithdrawnIsRecorded
  BY DEF IInv
<1> QED
  BY <1>1, Invariance, PTL

\* The key of a session that only ever asked as a minor's is never merely scheduled.
THEOREM MinorsKeyIsNotKept == Spec => []MinorNotScheduled
<1>1. IInv => MinorNotScheduled
  BY DEF IInv
<1> QED
  BY <1>1, Invariance, PTL

\* Erasure does what the chain asks for, no more, and a minor's key does not outlast it.
THEOREM ErasesAsRequested == Spec => []ErasedAsRequested
<1>1. IInv => ErasedAsRequested
  BY DEF IInv, ErasedAsRequested
<1> QED
  BY <1>1, Invariance, PTL

\* The store, the locks and every job keep their types.
THEOREM ErasureTyped == Spec => []TypeOK
<1>1. IInv => TypeOK
  BY DEF IInv
<1> QED
  BY <1>1, Invariance, PTL

----------------------------------------------------------------------------
(* While nothing has failed and no lock has lapsed, the valkey lock does what it is for. *)

Faultless == failures = 0 /\ lapses = 0

Counted == failures \in 0..MaxFailures /\ lapses \in 0..MaxLapses

\* Only a turn passes through a turn's labels.
TurnsAreTurns ==
  \A p \in Procs :
    pc[p] \in {"acquire", "load", "work", "commit", "exit", "unlock"} => job[p].kind # "sweep"

\* A turn that has the session, its erase and sweep included.
Inside(p) == pc[p] \notin {"idle", "acquire"} /\ job[p].kind # "sweep"

LockHeld == \A p \in Procs : Inside(p) => sessionLock = p

\* A session marked erased is in the hands of the turn that marked it, until its row is deleted:
\* nothing is inserted after it has deleted the child rows.
UnderWay ==
  row.status = "erased" =>
    \E p \in Procs : /\ pc[p] \in {"exit", "children", "session"} /\ Inside(p)
                     /\ job[p].committed /\ job[p].erases
                     /\ pc[p] = "session" => job[p].seen = row.children

FInv == Counted /\ TurnsAreTurns /\ (Faultless => LockHeld /\ UnderWay)

InertStep == row.status = "erased" => row'.status \in {"erased", "deleted"}

LEMMA InitFInv == Init => FInv
BY ErasureAssumption
   DEF Init, FInv, Counted, TurnsAreTurns, LockHeld, UnderWay, Inside

\* A fault leaves its mark in the counters.
LEMMA FaultsCount ==
  ASSUME TypeOK, Counted, [Next]_vars
  PROVE  /\ Counted'
         /\ Faultless' => /\ Faultless
                          /\ ~(\E p \in Procs : FailTurn(p) \/ FailErase(p) \/ Crash(Host[p]))
                          /\ Expire => sessionLock = Orphan
<1> USE ErasureAssumption DEF Counted, Faultless, bounds
<1>0. ASSUME \E p \in Procs : FailTurn(p) \/ FailErase(p) \/ Crash(Host[p])
      PROVE  failures < MaxFailures /\ failures' = failures + 1 /\ lapses' = lapses
  BY <1>0 DEF FailTurn, FailErase, Crash, Failing
<1>1. CASE \E p \in Procs : FailTurn(p) \/ FailErase(p) \/ Crash(Host[p])
  BY <1>0, <1>1
<1>2. CASE Expire
  <2>1. /\ UNCHANGED failures
        /\ sessionLock # Orphan => lapses < MaxLapses /\ lapses' = lapses + 1
        /\ sessionLock = Orphan => lapses' = lapses
    BY <1>2 DEF Expire
  <2>2. Counted'
    BY <2>1
  <2>3. Faultless' => lapses' = lapses /\ sessionLock = Orphan /\ failures = 0
    BY <2>1
  <2>4. failures' # failures + 1
    BY <2>1
  <2> QED
    BY <1>0, <2>2, <2>3, <2>4
<1>3. CASE /\ UNCHANGED <<failures, lapses>>
           /\ ~(\E p \in Procs : FailTurn(p) \/ FailErase(p) \/ Crash(Host[p])) /\ ~Expire
  BY <1>3
<1>4. ASSUME NEW p \in Procs, Authenticate(p) \/ StartSweep(p)
      PROVE  UNCHANGED <<failures, lapses>>
  BY <1>4 DEF Authenticate, StartSweep
<1>5. ASSUME NEW p \in Procs, TurnStep(p) \/ EraseStep(p)
      PROVE  UNCHANGED <<failures, lapses>>
  BY <1>5 DEF TurnStep, Acquire, Load, Work, GrantConsent, EraseNode, Commit, WriteCheckpoint,
              Unlock, EraseStep, EraseChildren, EraseSession, EraseKey
<1>6. ASSUME NEW p \in Procs, SweepStep(p)
      PROVE  UNCHANGED <<failures, lapses>>
  BY <1>6 DEF SweepStep, SelectErased, SelectPending, RetryWithdrawal, AppendWithdrawn, EndSweep
<1>7. UNCHANGED vars => UNCHANGED <<failures, lapses>>
  BY DEF vars
<1> QED
  BY <1>1, <1>2, <1>3, <1>4, <1>5, <1>6, <1>7 DEF Next

\* A step of one process that keeps the session's lock and row.
LEMMA QuietStep ==
  ASSUME TypeOK, FInv, NEW p \in Procs,
         \A q \in Procs \ {p} : pc'[q] = pc[q] /\ job'[q] = job[q],
         sessionLock' = sessionLock, row' = row,
         Inside(p)' => Inside(p),
         pc[p] \in {"exit", "children", "session"} /\ Inside(p) /\ job[p].committed /\ job[p].erases
           => /\ pc'[p] \in {"exit", "children", "session"} /\ Inside(p)'
              /\ job'[p].committed /\ job'[p].erases
              /\ pc'[p] = "session" => job'[p].seen = row.children,
         Faultless' => Faultless
  PROVE  Faultless' => LockHeld' /\ UnderWay' /\ InertStep
<1> SUFFICES ASSUME Faultless' PROVE LockHeld' /\ UnderWay' /\ InertStep
  OBVIOUS
<1>1. LockHeld /\ UnderWay
  BY DEF FInv
<1>2. \A q \in Procs \ {p} : Inside(q)' <=> Inside(q)
  BY DEF Inside
<1>3. LockHeld'
  BY <1>1, <1>2 DEF LockHeld
<1>4. UnderWay'
  <2> SUFFICES ASSUME row.status = "erased" PROVE UnderWay'
    BY DEF UnderWay
  <2>1. PICK q \in Procs : /\ pc[q] \in {"exit", "children", "session"} /\ Inside(q)
                           /\ job[q].committed /\ job[q].erases
                           /\ pc[q] = "session" => job[q].seen = row.children
    BY <1>1 DEF UnderWay
  <2>2. /\ pc'[q] \in {"exit", "children", "session"} /\ Inside(q)'
        /\ job'[q].committed /\ job'[q].erases
        /\ pc'[q] = "session" => job'[q].seen = row'.children
    BY <1>2, <2>1
  <2> QED
    BY <2>2 DEF UnderWay
<1>5. InertStep
  BY DEF InertStep
<1> QED
  BY <1>3, <1>4, <1>5

Inert == TurnsAreTurns' /\ (Faultless' => LockHeld' /\ UnderWay' /\ InertStep)

\* Only one turn is inside; while a session is marked erased, it is the one that marked it.
LEMMA OneInside ==
  ASSUME TypeOK, FInv, Faultless, NEW p \in Procs
  PROVE  /\ Inside(p) => sessionLock = p /\ sessionLock # Free
         /\ row.status = "erased" =>
              \E q \in Procs : /\ sessionLock = q /\ sessionLock # Free
                               /\ pc[q] \in {"exit", "children", "session"} /\ Inside(q)
                               /\ job[q].committed /\ job[q].erases
                               /\ pc[q] = "session" => job[q].seen = row.children
BY ErasureAssumption DEF FInv, LockHeld, UnderWay

LEMMA AcquireInert ==
  ASSUME IInv, FInv, NEW p \in Procs, Acquire(p), Faultless' => Faultless
  PROVE  Inert
<1>0. TypeOK /\ TurnsAreTurns /\ (Faultless => LockHeld /\ UnderWay)
  BY DEF IInv, FInv
<1>1. /\ pc[p] = "acquire" /\ job' = job /\ row' = row
      /\ pc'[p] \in {"load", "idle"} /\ \A q \in Procs \ {p} : pc'[q] = pc[q]
      /\ \/ sessionLock = Free /\ sessionLock' = p
         \/ sessionLock' = sessionLock /\ pc'[p] = "idle"
  BY <1>0 DEF TypeOK, Acquire, Runs, Goto, store
<1>2. TurnsAreTurns'
  BY <1>0, <1>1 DEF TurnsAreTurns
<1>3. CASE sessionLock' = sessionLock /\ pc'[p] = "idle"
  BY <1>0, <1>1, <1>2, <1>3, QuietStep DEF Inside, Inert
<1>4. CASE sessionLock = Free /\ sessionLock' = p
  <2> SUFFICES ASSUME Faultless' PROVE LockHeld' /\ UnderWay' /\ InertStep
    BY <1>2 DEF Inert
  <2>1. \A q \in Procs : ~Inside(q)
    BY <1>0, <1>4, OneInside
  <2>2. row.status # "erased"
    BY <1>0, <1>4, OneInside
  <2> QED
    BY <1>1, <1>4, <2>1, <2>2 DEF LockHeld, UnderWay, InertStep, Inside
<1> QED
  BY <1>1, <1>3, <1>4

LEMMA BeforeCommitInert ==
  ASSUME IInv, FInv, NEW p \in Procs, Faultless' => Faultless,
         Load(p) \/ Work(p) \/ GrantConsent(p) \/ EraseNode(p)
  PROVE  Inert
<1>0. TypeOK /\ TurnsAreTurns /\ job[p] \in Job
  BY DEF IInv, FInv, TypeOK
<1>1. /\ pc[p] \in {"load", "work"} /\ row' = row /\ sessionLock' = sessionLock
      /\ pc'[p] \in {"exit", "work", "commit"} /\ \A q \in Procs \ {p} : pc'[q] = pc[q]
  BY <1>0 DEF TypeOK, Load, Work, GrantConsent, EraseNode, Runs, Goto, store, locks
<1>2. job'[p].kind = job[p].kind /\ \A q \in Procs \ {p} : job'[q] = job[q]
  <2>1. CASE Load(p)
    BY <1>0, <2>1 DEF TypeOK, Job, Load
  <2>2. CASE Work(p)
    BY <1>0, <2>2 DEF TypeOK, Work
  <2>3. CASE GrantConsent(p)
    BY <1>0, <2>3 DEF TypeOK, Job, GrantConsent
  <2>4. CASE EraseNode(p)
    <3>1. PICK withdrawal \in {"none", "done", "pending"}, recorded \in BOOLEAN :
            job' = [job EXCEPT ![p].withdrawal = withdrawal, ![p].recorded = recorded,
                               ![p].consent = IF recorded THEN "withdrawn" ELSE @,
                               ![p].minor = job[p].kind = "minor", ![p].erases = TRUE]
      BY <2>4 DEF EraseNode
    <3> QED
      BY <1>0, <3>1 DEF TypeOK, Job
  <2> QED
    BY <2>1, <2>2, <2>3, <2>4
<1>3. TurnsAreTurns'
  BY <1>0, <1>1, <1>2 DEF TurnsAreTurns
<1>4. Inside(p)' => Inside(p)
  BY <1>1, <1>2 DEF Inside
<1> QED
  BY <1>0, <1>1, <1>2, <1>3, <1>4, QuietStep DEF Inert

LEMMA CommitInert ==
  ASSUME IInv, FInv, NEW p \in Procs, Commit(p), Faultless' => Faultless
  PROVE  Inert
<1>0. TypeOK /\ TurnsAreTurns /\ job[p] \in Job /\ (Faultless => LockHeld)
  BY DEF IInv, FInv, TypeOK
<1>1. /\ pc[p] = "commit" /\ sessionLock' = sessionLock
      /\ pc'[p] = "exit" /\ \A q \in Procs \ {p} : pc'[q] = pc[q]
  BY <1>0 DEF TypeOK, Commit, Runs, Goto, locks
<1>a. row'.status = "erased" => job[p].erases
  <2>1. PICK status \in {"active", "ended"} :
          row' = [status |-> IF job[p].erases THEN "erased" ELSE status,
                  children |-> row.children + 1, consent |-> job[p].consent]
    BY DEF Commit
  <2> QED
    BY <2>1
<1>2. /\ job' = [job EXCEPT ![p].committed = TRUE] /\ \A q \in Procs \ {p} : job'[q] = job[q]
  BY <1>0 DEF TypeOK, Commit
<1>3. job'[p].kind = job[p].kind /\ job'[p].erases = job[p].erases /\ job'[p].committed = TRUE
  BY <1>0, <1>2 DEF TypeOK, Job
<1>4. TurnsAreTurns' /\ Inside(p) /\ Inside(p)'
  BY <1>0, <1>1, <1>2, <1>3 DEF TurnsAreTurns, Inside
<1> SUFFICES ASSUME Faultless' PROVE LockHeld' /\ UnderWay' /\ InertStep
  BY <1>4 DEF Inert
<1>5. sessionLock = p /\ row.status # "erased"
  BY <1>0, <1>1, <1>4, OneInside
<1>6. LockHeld'
  BY <1>0, <1>1, <1>2, <1>5 DEF LockHeld, Inside
<1>7. UnderWay'
  BY <1>a, <1>1, <1>3, <1>4 DEF UnderWay
<1> QED
  BY <1>5, <1>6, <1>7 DEF InertStep

LEMMA WriteCheckpointInert ==
  ASSUME IInv, FInv, NEW p \in Procs, WriteCheckpoint(p), Faultless' => Faultless
  PROVE  Inert
<1>0. TypeOK /\ TurnsAreTurns
  BY DEF IInv, FInv
<1>1. /\ pc[p] = "exit" /\ row' = row /\ sessionLock' = sessionLock /\ job' = job
      /\ pc'[p] = IF job[p].committed /\ job[p].erases THEN "children" ELSE "unlock"
      /\ \A q \in Procs \ {p} : pc'[q] = pc[q]
  BY <1>0 DEF TypeOK, WriteCheckpoint, Runs, Goto, store, locks
<1>2. TurnsAreTurns'
  BY <1>0, <1>1 DEF TurnsAreTurns
<1> QED
  BY <1>0, <1>1, <1>2, QuietStep DEF Inert, Inside

LEMMA UnlockInert ==
  ASSUME IInv, FInv, NEW p \in Procs, Unlock(p), Faultless' => Faultless
  PROVE  Inert
<1>0. TypeOK /\ TurnsAreTurns /\ (Faultless => LockHeld)
  BY DEF IInv, FInv
<1>1. /\ pc[p] = "unlock" /\ row' = row /\ job' = job /\ pc'[p] = "idle"
      /\ \A q \in Procs \ {p} : pc'[q] = pc[q]
  BY <1>0 DEF TypeOK, Unlock, Runs, Goto, store
<1>2. TurnsAreTurns' /\ Inside(p)
  BY <1>0, <1>1 DEF TurnsAreTurns, Inside
<1> SUFFICES ASSUME Faultless' PROVE LockHeld' /\ UnderWay' /\ InertStep
  BY <1>2 DEF Inert
<1>3. sessionLock = p /\ row.status # "erased"
  BY <1>0, <1>1, <1>2, OneInside
<1>4. \A q \in Procs : ~Inside(q)'
  BY <1>0, <1>1, <1>3 DEF Inside, LockHeld
<1> QED
  BY <1>1, <1>3, <1>4 DEF LockHeld, UnderWay, InertStep

LEMMA EraseStepInert ==
  ASSUME IInv, FInv, NEW p \in Procs, EraseStep(p), Faultless' => Faultless
  PROVE  Inert
<1>0. TypeOK /\ TurnsAreTurns /\ job[p] \in Job /\ (Faultless => LockHeld)
  BY DEF IInv, FInv, TypeOK
<1>1. CASE EraseChildren(p)
  <2>1. /\ pc[p] = "children" /\ row' = row /\ sessionLock' = sessionLock
        /\ job' = [job EXCEPT ![p].seen = row.children] /\ pc' = [pc EXCEPT ![p] = "session"]
    BY <1>1 DEF EraseChildren, Runs, Goto, store, locks
  <2>2. /\ \A q \in Procs \ {p} : pc'[q] = pc[q] /\ job'[q] = job[q]
        /\ pc'[p] = "session" /\ job'[p].seen = row.children /\ job'[p].kind = job[p].kind
        /\ job'[p].committed = job[p].committed /\ job'[p].erases = job[p].erases
    BY <1>0, <2>1 DEF TypeOK, Job
  <2>3. TurnsAreTurns'
    BY <1>0, <2>1, <2>2 DEF TurnsAreTurns
  <2> QED
    BY <1>0, <2>1, <2>2, <2>3, QuietStep DEF Inert, Inside
<1>2. CASE EraseSession(p)
  <2>1. /\ pc[p] = "session" /\ job' = job /\ sessionLock' = sessionLock
        /\ \A q \in Procs \ {p} : pc'[q] = pc[q]
        /\ \/ row' = [row EXCEPT !.status = "deleted", !.children = 0] /\ pc'[p] = "key"
           \/ /\ row.status # "deleted" /\ row.children # job[p].seen
              /\ row' = row /\ pc'[p] \in {"end", "sweep"}
    BY <1>0, <1>2 DEF TypeOK, EraseSession, Runs, Goto, locks
  <2>2. TurnsAreTurns'
    BY <1>0, <2>1 DEF TurnsAreTurns
  <2>3. CASE row' = [row EXCEPT !.status = "deleted", !.children = 0] /\ pc'[p] = "key"
    <3>1. row'.status = "deleted"
      BY <1>0, <2>3 DEF TypeOK, Row
    <3>2. Faultless' => LockHeld'
      BY <1>0, <2>1, <2>3 DEF LockHeld, Inside
    <3> QED
      BY <2>2, <3>1, <3>2 DEF Inert, UnderWay, InertStep
  <2>4. CASE row.children # job[p].seen /\ row' = row /\ pc'[p] \in {"end", "sweep"}
    <3> SUFFICES ASSUME Faultless' PROVE LockHeld' /\ UnderWay' /\ InertStep
      BY <2>2 DEF Inert
    <3>1. LockHeld'
      BY <1>0, <2>1, <2>4 DEF LockHeld, Inside
    <3>2. CASE row.status # "erased"
      BY <2>4, <3>1, <3>2 DEF UnderWay, InertStep
    <3>3. CASE row.status = "erased"
      <4>1. PICK q \in Procs : /\ pc[q] \in {"exit", "children", "session"} /\ Inside(q)
                               /\ job[q].committed /\ job[q].erases
                               /\ pc[q] = "session" => job[q].seen = row.children
        BY <1>0, <3>3, OneInside
      <4>2. q # p
        BY <2>1, <2>4, <4>1
      <4> QED
        BY <2>1, <2>4, <3>1, <4>1, <4>2 DEF UnderWay, InertStep, Inside
    <3> QED
      BY <3>2, <3>3
  <2> QED
    BY <2>1, <2>3, <2>4
<1>3. CASE EraseKey(p)
  <2>1. /\ pc[p] = "key" /\ row' = row /\ sessionLock' = sessionLock /\ job' = job
        /\ pc'[p] \in {"pending", "sweep"} /\ \A q \in Procs \ {p} : pc'[q] = pc[q]
    BY <1>0, <1>3 DEF TypeOK, EraseKey, AfterErase, Runs, Goto, locks
  <2>2. TurnsAreTurns'
    BY <1>0, <2>1 DEF TurnsAreTurns
  <2> QED
    BY <1>0, <2>1, <2>2, QuietStep DEF Inert, Inside
<1> QED
  BY <1>1, <1>2, <1>3 DEF EraseStep

LEMMA SweepStepInert ==
  ASSUME IInv, FInv, NEW p \in Procs, SweepStep(p), Faultless' => Faultless
  PROVE  Inert
<1>0. TypeOK /\ TurnsAreTurns /\ job[p] \in Job
  BY DEF IInv, FInv, TypeOK
<1>1. /\ pc[p] \in {"sweep", "pending", "retry", "append", "end"}
      /\ row' = row /\ sessionLock' = sessionLock
      /\ pc'[p] \in {"children", "pending", "retry", "append", "end"}
           \/ (pc'[p] = "idle" /\ job[p].kind = "sweep" /\ job' = job)
           \/ (pc'[p] = "unlock" /\ job[p].kind # "sweep" /\ job' = job)
      /\ \A q \in Procs \ {p} : pc'[q] = pc[q]
  BY <1>0 DEF TypeOK, SweepStep, SelectErased, SelectPending, RetryWithdrawal, AppendWithdrawn,
              EndSweep, NextPending, Runs, Goto, store, locks
<1>2. job'[p].kind = job[p].kind /\ \A q \in Procs \ {p} : job'[q] = job[q]
  <2>1. CASE SelectErased(p)
    BY <1>0, <2>1 DEF TypeOK, Job, SelectErased
  <2>2. CASE SelectPending(p)
    BY <1>0, <2>2 DEF TypeOK, Job, SelectPending
  <2>3. CASE RetryWithdrawal(p)
    BY <1>0, <2>3 DEF TypeOK, Job, RetryWithdrawal, NextPending
  <2>4. CASE AppendWithdrawn(p)
    BY <1>0, <2>4 DEF TypeOK, Job, AppendWithdrawn, NextPending
  <2>5. CASE EndSweep(p)
    BY <1>0, <2>5 DEF EndSweep
  <2> QED
    BY <2>1, <2>2, <2>3, <2>4, <2>5 DEF SweepStep
<1>3. TurnsAreTurns'
  BY <1>0, <1>1, <1>2 DEF TurnsAreTurns
<1>4. Inside(p)' => Inside(p)
  BY <1>1, <1>2 DEF Inside
<1> QED
  BY <1>0, <1>1, <1>2, <1>3, <1>4, QuietStep DEF Inert

LEMMA StartInert ==
  ASSUME IInv, FInv, NEW p \in Procs, Authenticate(p) \/ StartSweep(p), Faultless' => Faultless
  PROVE  Inert
<1>0. TypeOK /\ TurnsAreTurns
  BY DEF IInv, FInv
<1>1. PICK kind \in Kinds : /\ job' = [job EXCEPT ![p] = NewJob(kind)]
                            /\ \/ pc' = [pc EXCEPT ![p] = "acquire"] /\ kind # "sweep"
                               \/ pc' = [pc EXCEPT ![p] = "sweep"] /\ kind = "sweep"
  BY DEF Authenticate, StartSweep, Goto, Kinds
<1>2. pc[p] = "idle" /\ row' = row /\ sessionLock' = sessionLock
  BY DEF Authenticate, StartSweep, Runs, store, locks
<1>a. NewJob(kind).kind = kind
  BY DEF NewJob
<1>b. job'[p] = NewJob(kind) /\ \A q \in Procs \ {p} : job'[q] = job[q]
  BY <1>0, <1>1 DEF TypeOK
<1>3. /\ job'[p].kind = kind /\ \A q \in Procs \ {p} : pc'[q] = pc[q] /\ job'[q] = job[q]
      /\ \/ pc'[p] = "acquire" /\ kind # "sweep"
         \/ pc'[p] = "sweep" /\ kind = "sweep"
  BY <1>0, <1>1, <1>a, <1>b DEF TypeOK
<1>4. TurnsAreTurns'
  BY <1>0, <1>3 DEF TurnsAreTurns
<1>5. ~Inside(p)'
  BY <1>3 DEF Inside
<1> QED
  BY <1>0, <1>2, <1>3, <1>4, <1>5, QuietStep DEF Inert

LEMMA FaultInert ==
  ASSUME IInv, FInv, NEW p \in Procs, FailTurn(p) \/ FailErase(p) \/ Crash(Host[p])
  PROVE  TurnsAreTurns'
<1>0. TypeOK /\ TurnsAreTurns /\ job[p] \in Job
  BY DEF IInv, FInv, TypeOK
<1>1. CASE FailTurn(p)
  BY <1>0, <1>1 DEF TypeOK, TurnsAreTurns, FailTurn, Runs, Goto
<1>2. CASE FailErase(p)
  <2>1. /\ \A q \in Procs \ {p} : pc'[q] = pc[q] /\ job'[q] = job[q]
        /\ pc'[p] \in {"end", "sweep", "retry"}
    BY <1>0, <1>2 DEF TypeOK, FailErase, NextPending, Goto
  <2> QED
    BY <1>0, <2>1 DEF TurnsAreTurns
<1>3. CASE Crash(Host[p])
  BY <1>0, <1>3 DEF TypeOK, TurnsAreTurns, Crash
<1> QED
  BY <1>1, <1>2, <1>3

LEMMA StepFInv ==
  ASSUME IInv, FInv, [Next]_vars
  PROVE  FInv' /\ (Faultless' => InertStep)
<1>1. /\ Counted'
      /\ Faultless' => /\ Faultless
                       /\ ~(\E p \in Procs : FailTurn(p) \/ FailErase(p) \/ Crash(Host[p]))
                       /\ Expire => sessionLock = Orphan
  BY FaultsCount DEF IInv, FInv
<1>2. ASSUME NEW p \in Procs, TurnStep(p) PROVE Inert
  BY <1>1, <1>2, AcquireInert, BeforeCommitInert, CommitInert, WriteCheckpointInert, UnlockInert
     DEF TurnStep
<1>3. ASSUME NEW p \in Procs, EraseStep(p) \/ SweepStep(p) \/ Authenticate(p) \/ StartSweep(p)
      PROVE  Inert
  BY <1>1, <1>3, EraseStepInert, SweepStepInert, StartInert
<1>4. ASSUME NEW p \in Procs, FailTurn(p) \/ FailErase(p) \/ Crash(Host[p]) PROVE Inert
  BY <1>1, <1>4, FaultInert DEF Inert
<1>5. ASSUME Expire PROVE Inert
  <2>1. row' = row /\ pc' = pc /\ job' = job
    BY <1>5 DEF Expire, store
  <2>2. TurnsAreTurns'
    BY <2>1 DEF FInv, TurnsAreTurns
  <2> SUFFICES ASSUME Faultless' PROVE LockHeld' /\ UnderWay' /\ InertStep
    BY <2>2 DEF Inert
  <2>3. sessionLock = Orphan /\ TypeOK /\ Faultless
    BY <1>1, <1>5 DEF IInv
  <2>4. \A q \in Procs : ~Inside(q)
    BY <2>3, OneInside, ErasureAssumption
  <2>5. row.status # "erased"
    BY <2>3, <2>4 DEF FInv, UnderWay
  <2> QED
    BY <2>1, <2>4, <2>5 DEF LockHeld, UnderWay, InertStep, Inside
<1>6. ASSUME UNCHANGED vars PROVE Inert
  BY <1>1, <1>6 DEF vars, store, locks, FInv, Inert, TurnsAreTurns, LockHeld, UnderWay, Inside,
                    InertStep, IInv, TypeOK
<1>7. Inert
  BY <1>2, <1>3, <1>4, <1>5, <1>6 DEF Next
<1> QED
  BY <1>1, <1>7 DEF Inert, FInv

LEMMA FInvariance == Spec => [](IInv /\ FInv)
<1>1. Init => IInv /\ FInv
  BY InitIInv, InitFInv
<1>2. IInv /\ FInv /\ [Next]_vars => (IInv /\ FInv)'
  BY StepIInv, StepFInv
<1> QED
  BY <1>1, <1>2, PTL DEF Spec

\* Up to the first failed erase, dead process or lapsed lock, and whatever may fail after it, a
\* session marked erased is inert: no turn authenticated before undoes the mark
\* (data_erasure.py:20), because the turn that set it holds the valkey lock until the row is gone.
THEOREM InertUpToTheFirstFault == Spec => [][Faultless' => InertStep]_vars
<1>1. IInv /\ FInv /\ [Next]_vars => [Faultless' => InertStep]_vars
  BY StepFInv
<1> QED
  BY <1>1, FInvariance, PTL DEF Spec

\* So where none of these happens, it always is.
THEOREM ErasedIsInert ==
  ASSUME MaxFailures = 0, MaxLapses = 0
  PROVE  Spec => ErasedStaysInert
<1>1. ASSUME IInv, FInv, [Next]_vars
      PROVE  [row.status = "erased" => row'.status \in {"erased", "deleted"}]_vars
  <2>1. FInv' /\ (Faultless' => InertStep)
    BY <1>1, StepFInv
  <2>2. Faultless'
    BY <2>1 DEF FInv, Counted, Faultless
  <2> QED
    BY <2>1, <2>2 DEF InertStep
<1> QED
  BY <1>1, FInvariance, PTL DEF Spec, ErasedStaysInert

=============================================================================
