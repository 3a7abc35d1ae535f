----------------------------- MODULE AuditChain -----------------------------
(***************************************************************************)
(* The audit trail: transactions that append to the per-session hash chains  *)
(* (audit/chain.py), the nightly job that verifies and anchors a day         *)
(* (audit/anchor.py, verify.py), and the dossier of a live session           *)
(* (audit/dossier.py).                                                      *)
(*                                                                         *)
(* Data abstraction: a hash is what it was computed from, so a chain hash is *)
(* the sequence of the contents up to its event and a day's Merkle root is   *)
(* the set of its leaves; an event's content is its id and its day.          *)
(***************************************************************************)
EXTENDS Naturals, Sequences, FiniteSets, FiniteSetsExt

CONSTANTS
  Sessions, Writers,   \* chains; transactions of turns, sweeps and releases
  Jobs,                \* runs of the nightly job
  Free,                \* nobody
  ClosedOnly,          \* pilot and prod: only closed days are anchored
  LastDay,             \* bound: the last day of the clock
  MaxEvents,           \* bound: events inserted
  MaxFaults,           \* bound: transactions rolled back, jobs that die, rows damaged on disk
  MaxDossiers          \* bound: dossiers made

ASSUME AuditAssumption ==
  /\ Free \notin Writers /\ ClosedOnly \in BOOLEAN
  /\ LastDay \in Nat \ {0} /\ MaxEvents \in Nat /\ MaxFaults \in Nat
  /\ MaxDossiers \in 0..1

VARIABLES
  table,          \* audit.audit_event: the committed rows
  lock,           \* the advisory lock of each session
  pc, txn,        \* the transactions
  anchors,        \* audit.chain_anchor
  bucket,         \* the object-locked bucket: every version of every object
  jobPc, job,
  dossier,
  day,            \* the clock
  damaged,        \* the rows as they were before they were damaged
  events, faults

appends  == <<table, lock, pc, txn, events>>
anchoring == <<anchors, bucket, jobPc, job>>
vars == <<appends, anchoring, dossier, day, damaged, faults>>

Days == 1..LastDay
Content == [id : 1..MaxEvents, day : Days]
Hash == Seq(Content)
Genesis == <<>>
Row == [session : Sessions, seq : Nat \ {0}, content : Content, prev : Hash, hash : Hash]
Leaf == Sessions \X Hash

Txn == [session : Sessions, rows : SUBSET Row, last : [seq : Nat, hash : Hash]]
Job == [day : Days, leaves : SUBSET Leaf, damaged : SUBSET Row, version : Nat, created : Nat,
        result : {"none", "anchored", "same", "open day", "chain broken", "root changed",
                  "conflict"}]

Empty == [seq |-> 0, hash |-> Genesis]

Init ==
  /\ table = {} /\ lock = [s \in Sessions |-> Free]
  /\ pc = [w \in Writers |-> "idle"]
  /\ txn \in [Writers -> [session : Sessions, rows : {{}}, last : {Empty}]]
  /\ anchors = {} /\ bucket = {}
  /\ jobPc = [j \in Jobs |-> "idle"]
  /\ job \in [Jobs -> [day : Days, leaves : {{}}, damaged : {{}}, version : {0}, created : {0},
                       result : {"none"}]]
  /\ dossier = [stage |-> "idle"]
  /\ day = 1 /\ damaged = {} /\ events = 0 /\ faults = 0

ChainHash(r) == Append(r.prev, r.content)

----------------------------------------------------------------------------
(* A transaction: append is called once or more often, then all of it commits. *)

Goto(w, label) == pc' = [pc EXCEPT ![w] = label]

\* A bug: no lock.
LockNothing(w) ==
  /\ pc[w] \in {"idle", "open"} /\ events < MaxEvents
  /\ Goto(w, "read")
  /\ UNCHANGED <<table, lock, txn, events, anchoring, dossier, day, damaged, faults>>

\* append begins: pg_advisory_xact_lock waits, is held until the transaction ends, and may be
\* taken again by its holder.
Lock(w) ==
  LET s == txn[w].session
  IN  /\ pc[w] \in {"idle", "open"} /\ events < MaxEvents
      /\ lock[s] \in {Free, w}
      /\ lock' = [lock EXCEPT ![s] = w]
      /\ Goto(w, "read")
      /\ UNCHANGED <<table, txn, events, anchoring, dossier, day, damaged, faults>>

Visible(w) == {r \in table \union txn[w].rows : r.session = txn[w].session}

LastOf(rows) ==
  IF rows = {} THEN Empty
  ELSE LET r == CHOOSE r \in rows : \A q \in rows : q.seq <= r.seq
       IN  [seq |-> r.seq, hash |-> r.hash]

\* A bug: the hash comes from what is committed only.
ReadCommittedHash(w) ==
  /\ pc[w] = "read"
  /\ txn' = [txn EXCEPT ![w].last =
       [seq |-> LastOf(Visible(w)).seq,
        hash |-> LastOf({r \in table : r.session = txn[w].session}).hash]]
  /\ Goto(w, "insert")
  /\ UNCHANGED <<table, lock, events, anchoring, dossier, day, damaged, faults>>

\* What is committed when the statement starts, and the transaction's own rows.
ReadLast(w) ==
  /\ pc[w] = "read"
  /\ txn' = [txn EXCEPT ![w].last = LastOf(Visible(w))]
  /\ Goto(w, "insert")
  /\ UNCHANGED <<table, lock, events, anchoring, dossier, day, damaged, faults>>

\* A bug: off by one.
NewRowFromZero(w) ==
  LET last == txn[w].last
      content == [id |-> events + 1, day |-> day]
  IN  [session |-> txn[w].session, seq |-> last.seq, content |-> content,
       prev |-> last.hash, hash |-> Append(last.hash, content)]

NewRow(w) ==
  LET last == txn[w].last
      content == [id |-> events + 1, day |-> day]
  IN  [session |-> txn[w].session, seq |-> last.seq + 1, content |-> content,
       prev |-> last.hash, hash |-> Append(last.hash, content)]

SameKey(r, rows) == \E q \in rows : q.session = r.session /\ q.seq = r.seq

\* UNIQUE (session_id, seq): waits for another transaction's row, and is refused a committed one.
Insert(w) ==
  LET r == NewRow(w)
  IN  /\ pc[w] = "insert" /\ events < MaxEvents
      /\ ~\E v \in Writers \ {w} : SameKey(r, txn[v].rows)
      /\ events' = events + 1
      /\ IF SameKey(r, table \union txn[w].rows) THEN Goto(w, "refused") /\ UNCHANGED txn
         ELSE Goto(w, "open") /\ txn' = [txn EXCEPT ![w].rows = @ \union {r}, ![w].last = Empty]
      /\ UNCHANGED <<table, lock, anchoring, dossier, day, damaged, faults>>

End(w) ==
  /\ Goto(w, "idle")
  /\ lock' = [s \in Sessions |-> IF lock[s] = w THEN Free ELSE lock[s]]
  /\ \E s \in Sessions : txn' = [txn EXCEPT ![w] = [session |-> s, rows |-> {}, last |-> Empty]]

Commit(w) ==
  /\ pc[w] = "open"
  /\ table' = table \union txn[w].rows
  /\ End(w)
  /\ UNCHANGED <<events, anchoring, dossier, day, damaged, faults>>

\* Whatever fails, a key that is destroyed included, takes the whole transaction with it.
Rollback(w) ==
  /\ pc[w] # "idle" /\ faults < MaxFaults
  /\ faults' = faults + 1
  /\ End(w)
  /\ UNCHANGED <<table, events, anchoring, dossier, day, damaged>>

----------------------------------------------------------------------------
(* verify_session. *)

\* A bug: only today's events.
EventsToday(s) == {r \in table : r.session = s /\ r.content.day = day}

Events(s) == {r \in table : r.session = s}

Follows(r, rows) ==
  IF r.seq = 1 THEN r.prev = Genesis
  ELSE \E q \in rows : q.seq = r.seq - 1 /\ r.prev = q.hash

\* A bug: the links are followed, the hashes are not recomputed.
BadLinks(rows) == {r \in rows : ~Follows(r, rows)}

\* Where the chain breaks: a gap, a wrong link, a hash that is not that of the row.
Bad(rows) == {r \in rows : ~Follows(r, rows) \/ ChainHash(r) # r.hash}

Verifies(s) == Bad(Events(s)) = {}

----------------------------------------------------------------------------
(* anchor_day. *)

JobGoto(j, label) == jobPc' = [jobPc EXCEPT ![j] = label]
Ends(j, result) ==
  /\ job' = [job EXCEPT ![j].result = result]
  /\ JobGoto(j, "done")

\* Each session with events on the day, and its last hash before the day ends.
Leaves(d) ==
  {<<s, LastOf({r \in table : r.session = s /\ r.content.day <= d}).hash>> :
     s \in {r.session : r \in {q \in table : q.content.day = d}}}

Collect(j) ==
  /\ jobPc[j] = "idle"
  /\ ClosedOnly => job[j].day < day
  /\ job' = [job EXCEPT ![j].leaves = Leaves(job[j].day), ![j].damaged = damaged \ table]
  /\ JobGoto(j, "verify")
  /\ UNCHANGED <<appends, anchors, bucket, dossier, day, damaged, faults>>

\* Every chain, as it is by now, and no appends of open transactions.  (History: the damage it
\* ought to meet, unless the disk changes while it looks.)
VerifyChains(j) ==
  /\ jobPc[j] = "verify"
  /\ IF \A l \in job[j].leaves : Verifies(l[1])
     THEN /\ JobGoto(j, "compare")
          /\ job' = [job EXCEPT ![j].damaged = IF @ = damaged \ table THEN @ ELSE {}]
     ELSE Ends(j, "chain broken")
  /\ UNCHANGED <<appends, anchors, bucket, dossier, day, damaged, faults>>

\* An anchor stays: the same root is fine, and an anchor of an open day may have missed some.
Compare(j) ==
  LET found == {a \in anchors : a.day = job[j].day}
  IN  /\ jobPc[j] = "compare"
      /\ \/ found = {} /\ JobGoto(j, "put") /\ UNCHANGED job
         \/ \E a \in found :
              Ends(j, IF a.root = job[j].leaves THEN "same"
                      ELSE IF a.created > a.day THEN "root changed" ELSE "open day")
      /\ UNCHANGED <<appends, anchors, bucket, dossier, day, damaged, faults>>

\* A new version of the day's object, whoever else has written one.
PutObject(j) ==
  LET version == Cardinality(bucket) + 1
  IN  /\ jobPc[j] = "put"
      /\ bucket' = bucket \union {[version |-> version, day |-> job[j].day,
                                   root |-> job[j].leaves]}
      /\ job' = [job EXCEPT ![j].version = version, ![j].created = day]
      /\ JobGoto(j, "anchor")
      /\ UNCHANGED <<appends, anchors, dossier, day, damaged, faults>>

\* A bug: the row names the object, not its version.
AnchorLatest(j) ==
  /\ jobPc[j] = "anchor"
  /\ IF \E a \in anchors : a.day = job[j].day THEN Ends(j, "conflict") /\ UNCHANGED anchors
     ELSE /\ anchors' = anchors \union {[day |-> job[j].day, root |-> job[j].leaves,
                          version |-> Max({b.version : b \in {o \in bucket : o.day = job[j].day}}),
                          created |-> job[j].created]}
          /\ Ends(j, "anchored")
  /\ UNCHANGED <<appends, bucket, dossier, day, damaged, faults>>

\* The insert and its commit; anchor_date is the primary key.
InsertAnchor(j) ==
  /\ jobPc[j] = "anchor"
  /\ IF \E a \in anchors : a.day = job[j].day THEN Ends(j, "conflict") /\ UNCHANGED anchors
     ELSE /\ anchors' = anchors \union {[day |-> job[j].day, root |-> job[j].leaves,
                                         version |-> job[j].version, created |-> job[j].created]}
          /\ Ends(j, "anchored")
  /\ UNCHANGED <<appends, bucket, dossier, day, damaged, faults>>

\* It is run again later.
JobDies(j) ==
  /\ jobPc[j] \in {"verify", "compare", "put", "anchor"} /\ faults < MaxFaults
  /\ faults' = faults + 1
  /\ JobGoto(j, "idle")
  /\ UNCHANGED <<appends, anchors, bucket, job, dossier, day, damaged>>

----------------------------------------------------------------------------
(* The dossier: verified first, read second, while the session goes on. *)

VerifyDossier ==
  /\ dossier.stage = "idle" /\ MaxDossiers = 1
  /\ \E s \in Sessions :
       /\ Events(s) # {}
       /\ Verifies(s)
       /\ dossier' = [stage |-> "verified", session |-> s, verified |-> Events(s),
                      checked |-> Cardinality(Events(s))]
  /\ UNCHANGED <<appends, anchoring, day, damaged, faults>>

\* A bug: all that is there by now.
FirstAll(n, rows) == rows

\* The first n of a chain.
First(n, rows) == {r \in rows : Cardinality({q \in rows : q.seq < r.seq}) < n}

ReadDossier ==
  /\ dossier.stage = "verified"
  /\ dossier' = [stage |-> "read", session |-> dossier.session, verified |-> dossier.verified,
                 checked |-> dossier.checked,
                 trail |-> First(dossier.checked, Events(dossier.session))]
  /\ UNCHANGED <<appends, anchoring, day, damaged, faults>>

----------------------------------------------------------------------------
(* The clock and the disk. *)

Midnight ==
  /\ day < LastDay /\ day' = day + 1
  /\ UNCHANGED <<appends, anchoring, dossier, damaged, faults>>

\* A row is lost, or its content is no longer what was written.
Damage(r) ==
  /\ faults < MaxFaults
  /\ faults' = faults + 1
  /\ damaged' = damaged \union {r}
  /\ \/ table' = table \ {r}
     \/ \E c \in Content : c # r.content /\ table' = (table \ {r}) \union {[r EXCEPT !.content = c]}
  /\ UNCHANGED <<lock, pc, txn, events, anchoring, dossier, day>>

WriterStep(w) == Lock(w) \/ ReadLast(w) \/ Insert(w) \/ Commit(w)
JobStep(j) == Collect(j) \/ VerifyChains(j) \/ Compare(j) \/ PutObject(j) \/ InsertAnchor(j)

Next ==
  \/ \E w \in Writers : WriterStep(w) \/ Rollback(w)
  \/ \E j \in Jobs : JobStep(j) \/ JobDies(j)
  \/ VerifyDossier \/ ReadDossier
  \/ Midnight
  \/ \E r \in table : Damage(r)

Spec == Init /\ [][Next]_vars

----------------------------------------------------------------------------
(* Properties. *)

TypeOK ==
  /\ table \subseteq Row
  /\ lock \in [Sessions -> Writers \union {Free}]
  /\ pc \in [Writers -> {"idle", "read", "insert", "open", "refused"}]
  /\ txn \in [Writers -> Txn] /\ job \in [Jobs -> Job]
  /\ day \in Days /\ damaged \subseteq Row /\ events \in 0..MaxEvents

\* The committed events of a session are one chain from the genesis, however transactions overlap,
\* fail and nest their appends.
Chained ==
  damaged = {} =>
    /\ \A r \in table :
         /\ r.hash = ChainHash(r)
         /\ IF r.seq = 1 THEN r.prev = Genesis
            ELSE \E q \in table : q.session = r.session /\ q.seq = r.seq - 1 /\ r.prev = q.hash
    /\ \A q, r \in table : q.session = r.session /\ q.seq = r.seq => q = r

\* The lock makes the constraint superfluous: no append is ever refused.
NeverRefused == damaged = {} => \A w \in Writers : pc[w] # "refused"

\* What an anchor covers: the events its leaves were computed from.
Covers(a, r) ==
  \E l \in a.root : l[1] = r.session /\ \E i \in DOMAIN l[2] : l[2][i] = r.content

\* No run of the job passes over damage, done before it began, to what the day's anchor covers.
DamageIsCaught ==
  \A j \in Jobs, a \in anchors :
    /\ job[j].result \in {"anchored", "same", "open day"}
    /\ a.day = job[j].day /\ a.created > a.day
    => \A r \in job[j].damaged : ChainHash(r) = r.hash => ~Covers(a, r)

\* An anchor names the object that holds its root, whatever other runs of the job have put there.
AnchorNamesItsObject ==
  \A a \in anchors : [version |-> a.version, day |-> a.day, root |-> a.root] \in bucket

\* A dossier holds what was verified and nothing else.
DossierIsVerified ==
  dossier.stage = "read" /\ damaged = {} => dossier.trail = dossier.verified

\* A chain that nobody damaged is never reported broken.
NoFalseBreak ==
  \A j \in Jobs : job[j].result = "chain broken" => damaged # {}

\* Verification tells damage from health, for the nightly job, its anchors and a dossier alike, whoever
\* appends or anchors meanwhile.
VerificationIsSound ==
  DamageIsCaught /\ NoFalseBreak /\ AnchorNamesItsObject /\ DossierIsVerified

=============================================================================
