------------------------------ MODULE Erasure ------------------------------
(***************************************************************************)
(* The erasure of one session: the erasure turn (graph/handlers/             *)
(* data_erasure.py node, then Runtime._erase), the sweep that finishes what  *)
(* it could not, the other turns that meet it, the Consent Service's ledger  *)
(* and the subject's key.  TurnRuntime has how a turn is served; here a turn *)
(* is its lock, its load, one piece of work, its commit, its checkpoint and  *)
(* its end.                                                                 *)
(*                                                                         *)
(* Data abstraction: the session's child rows are their number; the          *)
(* checkpoint is absent, holds only a turn key, or holds a session's state;  *)
(* a key scheduled for destruction is not yet destroyed (destroy_due is not  *)
(* modelled).                                                               *)
(***************************************************************************)
EXTENDS Naturals, Sequences, FiniteSets

CONSTANTS
  Procs,               \* requests, and processes that start
  Host,                \* the event loop each of them runs on
  Free, Orphan,        \* lock values: nobody; a turn that is gone
  MaxTurns,            \* bound: turns started
  MaxOutages,          \* bound: Consent Service calls that fail
  MaxFailures,         \* bound: crashes, failed turns, failed database calls
  MaxLapses            \* bound: TTL expiries of a lock whose turn still runs

ASSUME ErasureAssumption ==
  /\ Free \notin Procs /\ Orphan \notin Procs /\ Free # Orphan
  /\ MaxTurns \in Nat /\ MaxOutages \in Nat /\ MaxFailures \in Nat /\ MaxLapses \in Nat

VARIABLES
  row,           \* conv.session: its status ("deleted": no row), its child rows, its consent
  checkpoint,    \* langgraph.*: the session's thread
  key,           \* keyvault.subject_key
  ledger,        \* the Consent Service's record
  audit,         \* the erasure events of the session's chain
  sessionLock, rowLock,
  pc, job,
  turns, outages, failures, lapses

store  == <<row, checkpoint, key, ledger, audit>>
locks  == <<sessionLock, rowLock>>
bounds == <<turns, outages, failures, lapses>>
vars   == <<store, locks, pc, job, bounds>>

Kinds == {"plain", "grant", "withdraw", "minor", "sweep"}
Consent == {"none", "valid", "withdrawn"}

Row == [status : {"active", "ended", "erased", "deleted"}, children : Nat, consent : Consent]

Job == [kind : Kinds,
        consent : Consent,                          \* session.consent, as the turn sees it
        withdrawal : {"none", "done", "pending"},
        recorded : BOOLEAN,                         \* the service recorded it in this turn
        committed : BOOLEAN,
        erases : BOOLEAN,                           \* turn.erasure
        minor : BOOLEAN,
        seen : Nat,                                 \* child rows deleted so far
        todo : Nat,                                 \* pending withdrawals still to retry
        sweeping : BOOLEAN]                         \* erase is called by sweep

Event == [type : {"ERASURE_REQUEST"}, minor : BOOLEAN,
          withdrawal : {"none", "done", "pending"}]
         \union [type : {"CONSENT_WITHDRAWN"}]

NewJob(kind) ==
  [kind |-> kind, consent |-> "none", withdrawal |-> "none", recorded |-> FALSE,
   committed |-> FALSE, erases |-> FALSE, minor |-> FALSE, seen |-> 0,
   todo |-> 0, sweeping |-> kind = "sweep"]

Init ==
  /\ row = [status |-> "active", children |-> 0, consent |-> "none"]
  /\ checkpoint = "absent" /\ key = "live" /\ ledger = "none" /\ audit = <<>>
  /\ sessionLock = Free /\ rowLock = Free
  /\ pc = [p \in Procs |-> "idle"]
  /\ job = [p \in Procs |-> NewJob("plain")]
  /\ turns = 0 /\ outages = 0 /\ failures = 0 /\ lapses = 0

Goto(p, label) == pc' = [pc EXCEPT ![p] = label]

Failing == failures < MaxFailures /\ failures' = failures + 1

\* sweep calls erase on the event loop itself: nothing else of its process runs meanwhile.
LoopBusy(p) ==
  \E q \in Procs \ {p} :
    Host[q] = Host[p] /\ job[q].sweeping /\ pc[q] \in {"children", "session", "key"}

Runs(p, label) == pc[p] = label /\ ~LoopBusy(p)

----------------------------------------------------------------------------
(* A turn. *)

\* authenticate refuses an erased session, and one whose row is gone.
Authenticate(p) ==
  /\ Runs(p, "idle") /\ turns < MaxTurns
  /\ row.status \notin {"erased", "deleted"}
  /\ \E kind \in Kinds \ {"sweep"} : job' = [job EXCEPT ![p] = NewJob(kind)]
  /\ Goto(p, "acquire")
  /\ turns' = turns + 1
  /\ UNCHANGED <<store, locks, outages, failures, lapses>>

\* A bug: SET without NX.
AcquireAny(p) ==
  /\ Runs(p, "acquire")
  /\ sessionLock' = p /\ Goto(p, "load")
  /\ UNCHANGED <<store, rowLock, job, bounds>>

Acquire(p) ==
  /\ Runs(p, "acquire")
  /\ IF sessionLock = Free THEN sessionLock' = p /\ Goto(p, "load")
                           ELSE UNCHANGED sessionLock /\ Goto(p, "idle")
  /\ UNCHANGED <<store, rowLock, job, bounds>>

\* The status is not looked at again: only a missing row or another writer refuses the turn.
\* The session's consent is the checkpoint's, or the ledger's after a hydration.
Load(p) ==
  /\ Runs(p, "load")
  /\ \/ /\ row.status = "deleted" \/ rowLock # Free
        /\ Goto(p, "exit")
        /\ UNCHANGED <<rowLock, job>>
     \/ /\ row.status # "deleted" /\ rowLock = Free
        /\ rowLock' = p
        /\ \E consent \in {row.consent, IF row.consent = "none" THEN "none" ELSE ledger} :
             job' = [job EXCEPT ![p].consent = consent]
        /\ Goto(p, "work")
  /\ UNCHANGED <<store, sessionLock, bounds>>

Closed == row.status # "active"

\* An under-18 signal erases an open session only; a withdrawal erases a closed one too.
Erases(p) == job[p].kind = "withdraw" \/ (job[p].kind = "minor" /\ ~Closed)

\* A turn that neither grants nor erases; a grant that finds consent already given.
Work(p) ==
  /\ Runs(p, "work") /\ ~Erases(p)
  /\ job[p].kind = "grant" => Closed \/ job[p].consent # "none"
  /\ Goto(p, "commit")
  /\ UNCHANGED <<store, locks, job, bounds>>

\* s0._record: the Consent Service records it at once, the session only at the commit.  A turn that
\* was lost in between left a record, which a retry finds again.
GrantConsent(p) ==
  /\ Runs(p, "work") /\ job[p].kind = "grant" /\ ~Closed /\ job[p].consent = "none"
  /\ ledger # "withdrawn"
  /\ ledger' = "valid"
  /\ job' = [job EXCEPT ![p].consent = "valid"]
  /\ Goto(p, "commit")
  /\ UNCHANGED <<row, checkpoint, key, audit, locks, bounds>>

\* node: the withdrawal, whose failure (with or without effect) leaves it pending.
EraseNode(p) ==
  /\ Runs(p, "work") /\ Erases(p)
  /\ \E withdrawal \in {"none", "done", "pending"}, recorded \in BOOLEAN :
       /\ \/ /\ job[p].consent = "none" /\ withdrawal = "none" /\ ~recorded
             /\ UNCHANGED <<ledger, outages>>
          \/ /\ job[p].consent = "withdrawn" /\ withdrawal = "done" /\ ~recorded
             /\ UNCHANGED <<ledger, outages>>
          \/ /\ job[p].consent = "valid" /\ withdrawal = "done" /\ recorded
             /\ ledger' = "withdrawn" /\ UNCHANGED outages
          \/ /\ job[p].consent = "valid" /\ withdrawal = "pending" /\ ~recorded
             /\ outages < MaxOutages /\ outages' = outages + 1
             /\ ledger' \in {ledger, "withdrawn"}
       /\ job' = [job EXCEPT ![p].withdrawal = withdrawal, ![p].recorded = recorded,
                             ![p].consent = IF recorded THEN "withdrawn" ELSE @,
                             ![p].minor = job[p].kind = "minor", ![p].erases = TRUE]
  /\ Goto(p, "commit")
  /\ UNCHANGED <<row, checkpoint, key, audit, locks, turns, failures, lapses>>

\* A bug: the request is only recorded with its withdrawal.
EventsOfRecorded(j) ==
  IF j.recorded THEN <<[type |-> "ERASURE_REQUEST", minor |-> j.minor, withdrawal |-> "done"],
                       [type |-> "CONSENT_WITHDRAWN"]>>
  ELSE <<>>

EventsOf(j) ==
  (IF j.erases THEN <<[type |-> "ERASURE_REQUEST", minor |-> j.minor,
                       withdrawal |-> j.withdrawal]>> ELSE <<>>)
  \o (IF j.recorded THEN <<[type |-> "CONSENT_WITHDRAWN"]>> ELSE <<>>)

\* commit: the turn's rows, the session's status and the events, one transaction.
Commit(p) ==
  /\ Runs(p, "commit")
  /\ \E status \in {"active", "ended"} :
       /\ Closed => status = "ended"
       /\ row' = [status |-> IF job[p].erases THEN "erased" ELSE status,
                  children |-> row.children + 1, consent |-> job[p].consent]
  /\ audit' = audit \o EventsOf(job[p])
  /\ rowLock' = Free
  /\ job' = [job EXCEPT ![p].committed = TRUE]
  /\ Goto(p, "exit")
  /\ UNCHANGED <<checkpoint, key, ledger, sessionLock, bounds>>

\* A turn that did not commit writes back what it read, with its turn key.
WriteCheckpoint(p) ==
  /\ Runs(p, "exit")
  /\ checkpoint' = CASE job[p].committed      -> "state"
                     [] checkpoint = "absent" -> "turn key"
                     [] OTHER                 -> checkpoint
  /\ Goto(p, IF job[p].committed /\ job[p].erases THEN "children" ELSE "unlock")
  /\ UNCHANGED <<row, key, ledger, audit, locks, job, bounds>>

Unlock(p) ==
  /\ Runs(p, "unlock")
  /\ sessionLock' = IF sessionLock = p THEN Free ELSE sessionLock
  /\ Goto(p, "idle")
  /\ UNCHANGED <<store, rowLock, job, bounds>>

----------------------------------------------------------------------------
(* erase: called by the turn that erased (in a thread) and by sweep (on the loop). *)

AfterErase(p) == IF job[p].sweeping THEN "pending" ELSE "sweep"

\* A bug: the key is destroyed before the rows are deleted.
EraseChildrenKeyFirst(p) ==
  /\ Runs(p, "children")
  /\ job' = [job EXCEPT ![p].seen = row.children]
  /\ Goto(p, "key")
  /\ UNCHANGED <<store, locks, bounds>>

\* erase_session deletes the child rows first.
EraseChildren(p) ==
  /\ Runs(p, "children")
  /\ job' = [job EXCEPT ![p].seen = row.children]
  /\ Goto(p, "session")
  /\ UNCHANGED <<store, locks, bounds>>

\* Then the session's row, once no turn holds it, and the checkpoint.  A turn committed in between
\* has inserted a child row: the foreign key refuses and the transaction rolls back.
EraseSession(p) ==
  /\ Runs(p, "session") /\ rowLock = Free
  /\ IF row.status = "deleted" \/ row.children = job[p].seen
     THEN /\ row' = [row EXCEPT !.status = "deleted", !.children = 0]
          /\ checkpoint' = "absent"
          /\ Goto(p, "key")
     ELSE /\ UNCHANGED <<row, checkpoint>>
          /\ Goto(p, IF job[p].sweeping THEN "end" ELSE "sweep")
  /\ UNCHANGED <<key, ledger, audit, locks, job, bounds>>

\* Bugs: only a minor's key is dealt with; every key is only scheduled.
EraseKeyOfMinor(p) ==
  /\ Runs(p, "key")
  /\ key' = IF job[p].minor THEN "destroyed" ELSE key
  /\ Goto(p, AfterErase(p))
  /\ UNCHANGED <<row, checkpoint, ledger, audit, locks, job, bounds>>
EraseKeyLater(p) ==
  /\ Runs(p, "key")
  /\ key' = IF key = "live" THEN "scheduled" ELSE key
  /\ Goto(p, AfterErase(p))
  /\ UNCHANGED <<row, checkpoint, ledger, audit, locks, job, bounds>>

EraseKey(p) ==
  /\ Runs(p, "key")
  /\ key' = IF job[p].minor THEN "destroyed"
            ELSE IF key = "live" THEN "scheduled" ELSE key
  /\ Goto(p, AfterErase(p))
  /\ UNCHANGED <<row, checkpoint, ledger, audit, locks, job, bounds>>

----------------------------------------------------------------------------
(* sweep: after every erasure, and when a process starts. *)

StartSweep(p) ==
  /\ Runs(p, "idle")
  /\ job' = [job EXCEPT ![p] = NewJob("sweep")]
  /\ Goto(p, "sweep")
  /\ UNCHANGED <<store, locks, bounds>>

Requests == {i \in DOMAIN audit : audit[i].type = "ERASURE_REQUEST"}

LastRequest == CHOOSE i \in Requests : \A k \in Requests : k <= i

\* A bug: sweep does not look up the reason.
SelectErasedPlain(p) ==
  /\ Runs(p, "sweep")
  /\ job' = [job EXCEPT ![p].sweeping = TRUE, ![p].minor = FALSE]
  /\ Goto(p, IF row.status = "erased" THEN "children" ELSE "pending")
  /\ UNCHANGED <<store, locks, bounds>>

\* Sessions still marked erased, with the last request's reason.
SelectErased(p) ==
  /\ Runs(p, "sweep")
  /\ job' = [job EXCEPT ![p].sweeping = TRUE,
                        ![p].minor = Requests # {} /\ audit[LastRequest].minor]
  /\ Goto(p, IF row.status = "erased" THEN "children" ELSE "pending")
  /\ UNCHANGED <<store, locks, bounds>>

\* _PENDING: the requests whose withdrawal is pending with no CONSENT_WITHDRAWN after them.
Pending ==
  {i \in Requests : audit[i].withdrawal = "pending"
                     /\ \A k \in DOMAIN audit : k > i => audit[k].type # "CONSENT_WITHDRAWN"}

\* A bug: only the withdrawals of sessions still there are retried.
SelectPendingJoined(p) ==
  /\ Runs(p, "pending")
  /\ job' = [job EXCEPT ![p].todo = Cardinality(Pending)]
  /\ Goto(p, IF Pending # {} /\ row.status # "deleted" THEN "retry" ELSE "end")
  /\ UNCHANGED <<store, locks, bounds>>

SelectPending(p) ==
  /\ Runs(p, "pending")
  /\ job' = [job EXCEPT ![p].todo = Cardinality(Pending)]
  /\ Goto(p, IF Pending # {} THEN "retry" ELSE "end")
  /\ UNCHANGED <<store, locks, bounds>>

\* A bug: one too many.
NextPendingOver(p) ==
  /\ job' = [job EXCEPT ![p].todo = @ - 1]
  /\ Goto(p, IF job[p].todo >= 1 THEN "retry" ELSE "end")

\* The next of the pending withdrawals, whatever became of this one.
NextPending(p) ==
  /\ job' = [job EXCEPT ![p].todo = @ - 1]
  /\ Goto(p, IF job[p].todo > 1 THEN "retry" ELSE "end")

\* A bug: the outage is not noticed.
RetryOptimistic(p) ==
  /\ Runs(p, "retry")
  /\ \/ ledger' = "withdrawn" /\ UNCHANGED outages
     \/ outages < MaxOutages /\ outages' = outages + 1 /\ ledger' \in {ledger, "withdrawn"}
  /\ Goto(p, "append")
  /\ UNCHANGED <<row, checkpoint, key, audit, locks, job, turns, failures, lapses>>

\* The withdrawal is idempotent; an outage leaves it pending.
RetryWithdrawal(p) ==
  /\ Runs(p, "retry")
  /\ \/ ledger' = "withdrawn" /\ Goto(p, "append") /\ UNCHANGED <<job, outages>>
     \/ /\ outages < MaxOutages /\ outages' = outages + 1
        /\ ledger' \in {ledger, "withdrawn"}
        /\ NextPending(p)
  /\ UNCHANGED <<row, checkpoint, key, audit, locks, turns, failures, lapses>>

\* With the key destroyed nothing can be appended, unless this process still caches it.
AppendWithdrawn(p) ==
  /\ Runs(p, "append")
  /\ \/ audit' = Append(audit, [type |-> "CONSENT_WITHDRAWN"])
     \/ key = "destroyed" /\ UNCHANGED audit
  /\ NextPending(p)
  /\ UNCHANGED <<row, checkpoint, key, ledger, locks, bounds>>

\* A bug: sweep repeats until no withdrawal is pending.
EndSweepAgain(p) ==
  /\ Runs(p, "end")
  /\ Goto(p, IF Pending # {} THEN "sweep" ELSE IF job[p].kind = "sweep" THEN "idle" ELSE "unlock")
  /\ UNCHANGED <<store, locks, job, bounds>>

EndSweep(p) ==
  /\ Runs(p, "end")
  /\ Goto(p, IF job[p].kind = "sweep" THEN "idle" ELSE "unlock")
  /\ UNCHANGED <<store, locks, job, bounds>>

----------------------------------------------------------------------------
(* Failures. *)

\* Before the commit: rolled back; what the Consent Service recorded stays.
FailTurn(p) ==
  /\ Failing
  /\ Runs(p, "work") \/ Runs(p, "commit")
  /\ rowLock' = Free
  /\ Goto(p, "exit")
  /\ UNCHANGED <<store, sessionLock, job, turns, outages, lapses>>

\* A database call of erase or sweep, or the key service, fails: logged, left to the next sweep.
FailErase(p) ==
  /\ Failing
  /\ \/ /\ pc[p] \in {"children", "session", "key", "sweep", "pending"}
        /\ Goto(p, IF pc[p] \in {"sweep", "pending"} \/ job[p].sweeping THEN "end" ELSE "sweep")
        /\ UNCHANGED job
     \/ pc[p] = "append" /\ NextPending(p)
  /\ UNCHANGED <<store, locks, turns, outages, lapses>>

\* A process dies with every request of its loop.
Crash(h) ==
  /\ Failing
  /\ LET gone == {p \in Procs : Host[p] = h}
     IN  /\ \E p \in gone : pc[p] # "idle"
         /\ pc' = [p \in Procs |-> IF p \in gone THEN "idle" ELSE pc[p]]
         /\ sessionLock' = IF sessionLock \in gone THEN Orphan ELSE sessionLock
         /\ rowLock' = IF rowLock \in gone THEN Free ELSE rowLock
  /\ UNCHANGED <<store, job, turns, outages, lapses>>

Expire ==
  /\ sessionLock # Free
  /\ IF sessionLock = Orphan THEN UNCHANGED lapses
     ELSE lapses < MaxLapses /\ lapses' = lapses + 1
  /\ sessionLock' = Free
  /\ UNCHANGED <<store, rowLock, pc, job, turns, outages, failures>>

TurnStep(p) ==
  \/ Acquire(p) \/ Load(p) \/ Work(p) \/ GrantConsent(p) \/ EraseNode(p) \/ Commit(p)
  \/ WriteCheckpoint(p) \/ Unlock(p)

EraseStep(p) == EraseChildren(p) \/ EraseSession(p) \/ EraseKey(p)

SweepStep(p) ==
  \/ SelectErased(p) \/ SelectPending(p) \/ RetryWithdrawal(p) \/ AppendWithdrawn(p)
  \/ EndSweep(p)

Next ==
  \/ \E p \in Procs : Authenticate(p) \/ StartSweep(p)
  \/ \E p \in Procs : TurnStep(p) \/ EraseStep(p) \/ SweepStep(p)
  \/ \E p \in Procs : FailTurn(p) \/ FailErase(p)
  \/ \E p \in Procs : Crash(Host[p])
  \/ Expire

Spec == Init /\ [][Next]_vars

\* What was started runs on, TTLs end, and some process starts again some day.
Fairness ==
  /\ WF_vars(Expire)
  /\ \A p \in Procs : WF_vars(TurnStep(p) \/ EraseStep(p) \/ SweepStep(p))
  /\ WF_vars(\E p \in Procs : StartSweep(p))

FairSpec == Spec /\ Fairness

----------------------------------------------------------------------------
(* Properties. *)

TypeOK ==
  /\ row \in Row
  /\ checkpoint \in {"absent", "turn key", "state"}
  /\ key \in {"live", "scheduled", "destroyed"}
  /\ ledger \in Consent
  /\ audit \in Seq(Event)
  /\ sessionLock \in Procs \union {Free, Orphan} /\ rowLock \in Procs \union {Free}
  /\ job \in [Procs -> Job]
  /\ pc \in [Procs -> {"idle", "acquire", "load", "work", "commit", "exit", "unlock", "children",
                       "session", "key", "sweep", "pending", "retry", "append", "end"}]

\* The key goes last: while the session's row is there, its turns can still be read and a turn that
\* loaded it can still encrypt its release, and sweep can still find it.
KeyOutlivesRows == key # "live" => row.status = "deleted"

\* Nothing is deleted, by whichever process, without an ERASURE_REQUEST on the chain.
DeletedOnRequest == row.status \in {"erased", "deleted"} \/ key # "live" => Requests # {}

\* The chain says "withdrawn" (a header's "done", a CONSENT_WITHDRAWN) only of what the Consent
\* Service has recorded, through outages, lost answers, retries and crashes.
WithdrawnIsRecorded ==
  \A i \in DOMAIN audit :
    audit[i].type = "CONSENT_WITHDRAWN" \/ audit[i].withdrawal = "done" => ledger = "withdrawn"

\* A minor's key is destroyed, never merely scheduled, as long as the minor's request is the last.
MinorNotScheduled ==
  key = "scheduled" => ~(\A i \in Requests : audit[i].minor)

\* Erasure does what the requests on the chain ask for, no more, and a minor's key does not outlast it.
ErasedAsRequested == DeletedOnRequest /\ MinorNotScheduled

\* data_erasure.py: a session marked erased is inert until it is deleted.
ErasedStaysInert == [][row.status = "erased" => row'.status \in {"erased", "deleted"}]_vars

\* A committed erasure request ends with nothing left: no rows, no state in the checkpoint (whoever
\* still writes one on its way out), no live key.
NothingLeft == row.status = "deleted" /\ checkpoint # "state" /\ key # "live"
RequestsComplete == Requests # {} ~> []NothingLeft

\* V2: of a minor nothing is retained.
MinorKeyDestroyed == (Requests # {} /\ audit[LastRequest].minor) ~> key = "destroyed"

\* A withdrawal the Consent Service missed reaches it later.
WithdrawalArrives == Pending # {} ~> ledger = "withdrawn"

\* An erasure request is carried out to its end everywhere: rows, checkpoint, key and Consent Service.
ErasureCompletes == RequestsComplete /\ MinorKeyDestroyed /\ WithdrawalArrives

\* Every request and every sweep ends.
TurnsEnd == \A p \in Procs : pc[p] # "idle" ~> pc[p] = "idle"

=============================================================================
