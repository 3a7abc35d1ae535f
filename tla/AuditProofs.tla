---------------------------- MODULE AuditProofs ----------------------------
(***************************************************************************)
(* Undamaged chains are chains, no append is ever refused, and verification  *)
(* tells damage from health, for any number of sessions, transactions, jobs  *)
(* and faults.  The first rests on the advisory lock: whoever has read the   *)
(* last event still holds it.  The last rests on the hashes: a chain that    *)
(* verifies holds every event its last hash was computed from.               *)
(***************************************************************************)
EXTENDS AuditChain, SequenceTheorems, FiniteSetTheorems, WellFoundedInduction, TLAPS

Typed ==
  /\ table \subseteq Row
  /\ lock \in [Sessions -> Writers \union {Free}]
  /\ pc \in [Writers -> {"idle", "read", "insert", "open", "refused"}]
  /\ txn \in [Writers -> Txn]
  /\ day \in Days /\ events \in 0..MaxEvents

\* A transaction holds its session's lock from its first append to its end.
Held == \A w \in Writers : pc[w] # "idle" => lock[txn[w].session] = w

\* Only what has begun has rows, and they are of its session.
Own ==
  \A w \in Writers : /\ pc[w] = "idle" => txn[w].rows = {}
                     /\ \A r \in txn[w].rows : r.session = txn[w].session

\* One session's rows are a chain with a last event.
Linked(rows) ==
  /\ \A r \in rows :
       /\ r.hash = ChainHash(r)
       /\ IF r.seq = 1 THEN r.prev = Genesis
          ELSE \E q \in rows : q.seq = r.seq - 1 /\ r.prev = q.hash
  /\ \A q, r \in rows : q.seq = r.seq => q = r
  /\ rows # {} => \E r \in rows : \A q \in rows : q.seq <= r.seq

\* So is what a transaction sees, and what is committed.
Chains ==
  /\ \A w \in Writers : Linked(Visible(w))
  /\ \A s \in Sessions : Linked({r \in table : r.session = s})

\* What a transaction has read is still the last event when it inserts.
ReadIsLast == \A w \in Writers : pc[w] = "insert" => txn[w].last = LastOf(Visible(w))

AllAccepted == \A w \in Writers : pc[w] # "refused"

Sound == Typed /\ Held /\ Own /\ Chains /\ ReadIsLast /\ AllAccepted

IInv == damaged = {} => Sound

----------------------------------------------------------------------------
(* The last event and the one after it. *)

LEMMA LastIsLast ==
  ASSUME NEW rows \in SUBSET Row, Linked(rows)
  PROVE  /\ LastOf(rows).seq \in Nat /\ LastOf(rows).hash \in Hash
         /\ LastOf(rows) = [seq |-> LastOf(rows).seq, hash |-> LastOf(rows).hash]
         /\ \A q \in rows : q.seq <= LastOf(rows).seq
         /\ rows = {} => LastOf(rows) = Empty
         /\ rows # {} => \E r \in rows : r.seq = LastOf(rows).seq /\ r.hash = LastOf(rows).hash
<1>1. CASE rows = {}
  BY <1>1 DEF LastOf, Empty, Genesis, Hash
<1>2. CASE rows # {}
  <2> DEFINE r == CHOOSE r \in rows : \A q \in rows : q.seq <= r.seq
  <2>1. r \in rows /\ \A q \in rows : q.seq <= r.seq
    BY <1>2 DEF Linked
  <2>2. LastOf(rows) = [seq |-> r.seq, hash |-> r.hash]
    BY <1>2 DEF LastOf
  <2>3. r.seq \in Nat /\ r.hash \in Hash
    BY <2>1 DEF Row
  <2> HIDE DEF r
  <2> QED
    BY <1>2, <2>1, <2>2, <2>3
<1> QED
  BY <1>1, <1>2

\* One more event, linked to the last, keeps a chain a chain.
LEMMA NextIsLinked ==
  ASSUME NEW rows \in SUBSET Row, Linked(rows), NEW r \in Row,
         r.seq = LastOf(rows).seq + 1, r.prev = LastOf(rows).hash, r.hash = ChainHash(r)
  PROVE  Linked(rows \union {r}) /\ \A q \in rows : q.seq # r.seq
<1>1. \A q \in rows : q.seq \in Nat \ {0}
  BY DEF Row
<1>2. \A q \in rows : q.seq <= LastOf(rows).seq /\ LastOf(rows).seq \in Nat
  BY LastIsLast
<1>3. \A q \in rows : q.seq < r.seq
  BY <1>1, <1>2
<1>4. r.seq = 1 => r.prev = Genesis
  <2>1. CASE rows = {}
    BY <2>1, LastIsLast DEF Empty, Genesis
  <2>2. CASE rows # {}
    BY <2>2, <1>1, <1>3
  <2> QED
    BY <2>1, <2>2
<1>5. r.seq # 1 => \E q \in rows : q.seq = r.seq - 1 /\ r.prev = q.hash
  <2>1. CASE rows = {}
    BY <2>1, LastIsLast DEF Empty
  <2>2. CASE rows # {}
    BY <2>2, LastIsLast
  <2> QED
    BY <2>1, <2>2
<1>6. \A q \in rows \union {r} :
        /\ q.hash = ChainHash(q)
        /\ IF q.seq = 1 THEN q.prev = Genesis
           ELSE \E x \in rows \union {r} : x.seq = q.seq - 1 /\ q.prev = x.hash
  BY <1>4, <1>5 DEF Linked
<1>7. \A q, x \in rows \union {r} : q.seq = x.seq => q = x
  BY <1>1, <1>3 DEF Linked
<1>8. \A q \in rows \union {r} : q.seq <= r.seq
  BY <1>1, <1>3 DEF Row
<1> QED
  BY <1>1, <1>3, <1>6, <1>7, <1>8 DEF Linked

----------------------------------------------------------------------------
(* Steps. *)

LEMMA InitIInv == Init => IInv
<1> SUFFICES ASSUME Init
             PROVE  Sound
  BY DEF IInv
<1> USE DEF Init
<1>1. \A w \in Writers : txn[w].session \in Sessions /\ txn[w].rows = {} /\ txn[w].last = Empty
                          /\ txn[w] = [session |-> txn[w].session, rows |-> {}, last |-> Empty]
  OBVIOUS
<1>2. Empty \in [seq : Nat, hash : Hash]
  BY DEF Empty, Genesis, Hash
<1>3. txn \in [Writers -> Txn]
  BY <1>1, <1>2 DEF Txn
<1>4. Typed
  BY <1>3, AuditAssumption DEF Typed, Days
<1>5. \A rows : rows = {} => Linked(rows)
  BY DEF Linked
<1>6. Chains
  <2>1. \A w \in Writers : Visible(w) = {}
    BY <1>1 DEF Visible
  <2> QED
    BY <1>5, <2>1 DEF Chains
<1> QED
  BY <1>1, <1>4, <1>6 DEF Sound, Held, Own, ReadIsLast, AllAccepted

\* What leaves the table and the transactions alone.
LEMMA Others ==
  ASSUME Sound, UNCHANGED appends, day' \in Days
  PROVE  Sound'
<1> \A w \in Writers : Visible(w)' = Visible(w)
  BY DEF appends, Visible
<1> QED
  BY DEF Sound, Typed, Held, Own, Chains, ReadIsLast, AllAccepted, appends

\* No two transactions are in one session.
LEMMA Apart ==
  ASSUME Sound, NEW v \in Writers, NEW w \in Writers, v # w,
         txn[v].session = txn[w].session, pc[w] # "idle"
  PROVE  pc[v] = "idle" /\ txn[v].rows = {}
BY DEF Sound, Held, Own

LEMMA LockSound ==
  ASSUME Sound, NEW w \in Writers, Lock(w)
  PROVE  Sound'
<1>1. /\ txn[w].session \in Sessions /\ lock[txn[w].session] \in {Free, w}
      /\ lock' = [lock EXCEPT ![txn[w].session] = w] /\ pc' = [pc EXCEPT ![w] = "read"]
      /\ UNCHANGED <<table, txn, events, day>>
  BY DEF Lock, Goto, Sound, Typed, Txn
<1>2. Typed'
  BY <1>1 DEF Sound, Typed
<1>3. Held'
  BY <1>1, AuditAssumption DEF Sound, Typed, Held
<1>4. \A v \in Writers : Visible(v)' = Visible(v)
  BY <1>1 DEF Visible
<1> QED
  BY <1>1, <1>2, <1>3, <1>4 DEF Sound, Typed, Own, Chains, ReadIsLast, AllAccepted

LEMMA VisibleRows ==
  ASSUME Sound, NEW w \in Writers
  PROVE  /\ Visible(w) \in SUBSET Row /\ Linked(Visible(w))
         /\ Visible(w) = {r \in table : r.session = txn[w].session} \union txn[w].rows
         /\ txn[w].session \in Sessions /\ txn[w].rows \in SUBSET Row
BY DEF Sound, Typed, Chains, Visible, Own, Txn

LEMMA ReadSound ==
  ASSUME Sound, NEW w \in Writers, ReadLast(w)
  PROVE  Sound'
<1> DEFINE last == LastOf(Visible(w))
<1>1. /\ pc[w] = "read" /\ pc' = [pc EXCEPT ![w] = "insert"]
      /\ txn' = [txn EXCEPT ![w].last = last]
      /\ UNCHANGED <<table, lock, events, day>>
  BY DEF ReadLast, Goto
<1>2. last \in [seq : Nat, hash : Hash]
  BY VisibleRows, LastIsLast
<1> HIDE DEF last
<1>3. /\ txn' \in [Writers -> Txn] /\ txn'[w].last = last
      /\ \A v \in Writers : txn'[v].session = txn[v].session /\ txn'[v].rows = txn[v].rows
      /\ \A v \in Writers \ {w} : txn'[v] = txn[v]
  BY <1>1, <1>2 DEF Sound, Typed, Txn
<1>4. \A v \in Writers : Visible(v)' = Visible(v)
  BY <1>1, <1>3 DEF Visible
<1>5. Typed' /\ Held' /\ Own' /\ AllAccepted'
  BY <1>1, <1>3 DEF Sound, Typed, Held, Own, AllAccepted
<1>6. Chains'
  BY <1>1, <1>4 DEF Sound, Chains
<1>7. ReadIsLast'
  BY <1>1, <1>3, <1>4 DEF Sound, Typed, ReadIsLast, last
<1> QED
  BY <1>5, <1>6, <1>7 DEF Sound

LEMMA InsertSound ==
  ASSUME Sound, NEW w \in Writers, Insert(w)
  PROVE  Sound'
<1> DEFINE r == NewRow(w)
<1>1. /\ pc[w] = "insert" /\ events < MaxEvents /\ events' = events + 1
      /\ UNCHANGED <<table, lock, day>>
  BY DEF Insert
<1>2. txn[w].last = LastOf(Visible(w))
  BY <1>1 DEF Sound, ReadIsLast
<1>3. /\ r \in Row /\ r.session = txn[w].session
      /\ r.seq = LastOf(Visible(w)).seq + 1 /\ r.prev = LastOf(Visible(w)).hash
      /\ r.hash = ChainHash(r)
  <2> DEFINE content == [id |-> events + 1, day |-> day]
             last == LastOf(Visible(w))
  <2>1. content \in Content
    BY <1>1, AuditAssumption DEF Sound, Typed, Content
  <2>2. last.seq \in Nat /\ last.hash \in Hash
    BY VisibleRows, LastIsLast
  <2> HIDE DEF content, last
  <2>3. Append(last.hash, content) \in Hash
    BY <2>1, <2>2 DEF Hash
  <2>4. r = [session |-> txn[w].session, seq |-> last.seq + 1, content |-> content,
             prev |-> last.hash, hash |-> Append(last.hash, content)]
    BY <1>2 DEF NewRow, content, last
  <2> QED
    BY <2>1, <2>2, <2>3, <2>4, VisibleRows DEF Row, ChainHash, last
<1> HIDE DEF r
<1>4. Linked(Visible(w) \union {r}) /\ \A q \in Visible(w) : q.seq # r.seq
  BY <1>3, VisibleRows, NextIsLinked
<1>5. ~SameKey(r, table \union txn[w].rows)
  BY <1>3, <1>4 DEF SameKey, Visible
<1>6. pc' = [pc EXCEPT ![w] = "open"]
      /\ txn' = [txn EXCEPT ![w].rows = @ \union {r}, ![w].last = Empty]
  BY <1>5 DEF Insert, Goto, r
<1>7. Empty \in [seq : Nat, hash : Hash]
  BY DEF Empty, Genesis, Hash
<1>8. /\ txn' \in [Writers -> Txn] /\ txn'[w].rows = txn[w].rows \union {r}
      /\ \A v \in Writers : txn'[v].session = txn[v].session
      /\ \A v \in Writers \ {w} : txn'[v] = txn[v]
  <2>1. txn \in [Writers -> Txn] /\ txn[w] \in Txn /\ r \in Row
    BY <1>3 DEF Sound, Typed
  <2>2. txn[w].rows \union {r} \in SUBSET Row
    BY <2>1 DEF Txn
  <2>3. [txn[w] EXCEPT !.rows = txn[w].rows \union {r}, !.last = Empty] \in Txn
    BY <2>1, <2>2, <1>7 DEF Txn
  <2>4. txn' = [txn EXCEPT ![w] = [txn[w] EXCEPT !.rows = txn[w].rows \union {r}, !.last = Empty]]
    BY <1>6, <2>1 DEF Txn
  <2>5. txn' \in [Writers -> Txn] /\ \A v \in Writers \ {w} : txn'[v] = txn[v]
    BY <2>1, <2>3, <2>4
  <2>6. txn'[w].rows = txn[w].rows \union {r} /\ txn'[w].session = txn[w].session
    BY <2>1, <2>4 DEF Txn
  <2> QED
    BY <2>5, <2>6
<1>9. /\ Visible(w)' = Visible(w) \union {r}
      /\ \A v \in Writers \ {w} : Visible(v)' = Visible(v)
  BY <1>1, <1>3, <1>8 DEF Visible
<1>10. Typed' /\ Held' /\ Own' /\ AllAccepted'
  BY <1>1, <1>3, <1>6, <1>8, AuditAssumption DEF Sound, Typed, Held, Own, AllAccepted
<1>11. Chains'
  BY <1>1, <1>4, <1>9 DEF Sound, Chains
<1>12. ReadIsLast'
  BY <1>6, <1>8, <1>9 DEF Sound, Typed, ReadIsLast
<1> QED
  BY <1>10, <1>11, <1>12 DEF Sound

\* A transaction ends, its rows committed or not.
LEMMA EndSound ==
  ASSUME Sound, NEW w \in Writers, pc[w] # "idle", End(w), UNCHANGED <<events, day>>,
         table' \in {table, table \union txn[w].rows}
  PROVE  Sound'
<1>1. PICK s \in Sessions : txn' = [txn EXCEPT ![w] = [session |-> s, rows |-> {}, last |-> Empty]]
  BY DEF End
<1>2. Empty \in [seq : Nat, hash : Hash]
  BY DEF Empty, Genesis, Hash
<1>3. /\ txn' \in [Writers -> Txn] /\ txn'[w].rows = {} /\ txn'[w].session = s
      /\ \A v \in Writers \ {w} : txn'[v] = txn[v]
  BY <1>1, <1>2 DEF Sound, Typed, Txn
<1>4. /\ pc' = [pc EXCEPT ![w] = "idle"]
      /\ \A x \in Sessions : lock'[x] = IF lock[x] = w THEN Free ELSE lock[x]
      /\ lock' \in [Sessions -> Writers \union {Free}]
  BY DEF End, Goto, Sound, Typed
<1>5. Typed'
  BY <1>3, <1>4, VisibleRows DEF Sound, Typed
<1>6. Held'
  <2> SUFFICES ASSUME NEW v \in Writers, pc'[v] # "idle"
               PROVE  lock'[txn'[v].session] = v
    BY DEF Held
  <2>1. v # w /\ pc[v] # "idle" /\ txn'[v] = txn[v] /\ txn[v].session \in Sessions
    BY <1>3, <1>4, VisibleRows DEF Sound, Typed
  <2> QED
    BY <2>1, <1>4 DEF Sound, Held
<1>7. Own' /\ AllAccepted'
  BY <1>3, <1>4 DEF Sound, Typed, Own, AllAccepted
<1> DEFINE At(rows, x) == {r \in rows : r.session = x}
<1>8. \A x \in Sessions :
        /\ Linked(At(table', x))
        /\ x # txn[w].session => At(table', x) = At(table, x)
  <2>1. CASE table' = table
    BY <2>1 DEF Sound, Chains
  <2>2. CASE table' = table \union txn[w].rows
    <3>1. At(table', txn[w].session) = Visible(w)
      BY <2>2, VisibleRows DEF Sound, Own
    <3>2. \A x \in Sessions \ {txn[w].session} : At(table', x) = At(table, x)
      BY <2>2 DEF Sound, Own
    <3> QED
      BY <3>1, <3>2 DEF Sound, Chains
  <2> QED
    BY <2>1, <2>2
<1>9. ASSUME NEW v \in Writers
      PROVE  /\ Linked(Visible(v)')
             /\ v # w /\ pc[v] # "idle" => Visible(v)' = Visible(v)
  <2>1. /\ Visible(v) = At(table, txn[v].session) \union txn[v].rows
        /\ txn[v].session \in Sessions
    BY VisibleRows
  <2>2. /\ \A r \in txn'[v].rows : r.session = txn'[v].session
        /\ txn'[v].session \in Sessions
    BY <1>5, <1>7 DEF Own, Typed, Txn
  <2>3. Visible(v)' = At(table', txn'[v].session) \union txn'[v].rows
    BY <2>2 DEF Visible
  <2>4. v # w /\ pc[v] # "idle" => txn[v].session # txn[w].session
    BY Apart
  <2>5. v # w /\ pc[v] # "idle" => Visible(v)' = Visible(v)
    BY <2>1, <2>3, <2>4, <1>3, <1>8
  <2>6. v = w \/ pc[v] = "idle" => txn'[v].rows = {}
    BY <1>3 DEF Sound, Own
  <2> QED
    BY <2>2, <2>3, <2>5, <2>6, <1>8 DEF Sound, Chains
<1>10. Chains'
  BY <1>8, <1>9 DEF Chains
<1>11. ReadIsLast'
  <2> SUFFICES ASSUME NEW v \in Writers, pc'[v] = "insert"
               PROVE  txn'[v].last = LastOf(Visible(v)')
    BY DEF ReadIsLast, LastOf
  <2>1. v # w /\ pc[v] = "insert" /\ txn'[v] = txn[v]
    BY <1>3, <1>4 DEF Sound, Typed
  <2> QED
    BY <2>1, <1>9 DEF Sound, ReadIsLast
<1> QED
  BY <1>5, <1>6, <1>7, <1>10, <1>11 DEF Sound

----------------------------------------------------------------------------
(* The theorems. *)

LEMMA StepIInv == IInv /\ [Next]_vars => IInv'
<1> SUFFICES ASSUME IInv, [Next]_vars, damaged' = {}
             PROVE  Sound'
  BY DEF IInv
<1>1. CASE \E r \in table : Damage(r)
  BY <1>1 DEF Damage
<1>2. ASSUME NEW w \in Writers, WriterStep(w) \/ Rollback(w)
      PROVE  Sound'
  <2>1. damaged' = damaged
    BY <1>2 DEF WriterStep, Lock, ReadLast, Insert, Commit, Rollback
  <2>2. Sound
    BY <2>1 DEF IInv
  <2>3. CASE Commit(w)
    <3>1. pc[w] # "idle"
      BY <2>3 DEF Commit
    <3> QED
      BY <2>2, <2>3, <3>1, EndSound DEF Commit
  <2>4. CASE Rollback(w)
    BY <2>2, <2>4, EndSound DEF Rollback
  <2> QED
    BY <1>2, <2>2, <2>3, <2>4, LockSound, ReadSound, InsertSound DEF WriterStep
<1>3. ASSUME UNCHANGED <<appends, damaged>>, day' \in {day, day + 1}, day' = day \/ day < LastDay
      PROVE  Sound'
  <2>1. Sound
    BY <1>3 DEF IInv
  <2>2. day' \in Days
    BY <2>1, <1>3, AuditAssumption DEF Sound, Typed, Days
  <2> QED
    BY <2>1, <2>2, <1>3, Others
<1>4. CASE \E j \in Jobs : JobStep(j) \/ JobDies(j)
  BY <1>3, <1>4 DEF JobStep, JobDies, Collect, VerifyChains, Compare, PutObject, InsertAnchor
<1>5. CASE VerifyDossier \/ ReadDossier \/ Midnight \/ UNCHANGED vars
  BY <1>3, <1>5 DEF VerifyDossier, ReadDossier, Midnight, vars
<1> QED
  BY <1>1, <1>2, <1>4, <1>5 DEF Next

LEMMA Invariance == Spec => []IInv
BY InitIInv, StepIInv, PTL DEF Spec

\* However transactions overlap, fail and nest their appends, what is committed is one chain.
THEOREM CommittedIsChained == Spec => []Chained
<1>1. IInv => Chained
  <2> SUFFICES ASSUME Sound
               PROVE  /\ \A r \in table :
                           /\ r.hash = ChainHash(r)
                           /\ IF r.seq = 1 THEN r.prev = Genesis
                              ELSE \E q \in table : /\ q.session = r.session
                                                    /\ q.seq = r.seq - 1 /\ r.prev = q.hash
                      /\ \A q, r \in table : q.session = r.session /\ q.seq = r.seq => q = r
    BY DEF IInv, Chained
  <2>1. \A r \in table : r.session \in Sessions
    BY DEF Sound, Typed, Row
  <2> QED
    BY <2>1 DEF Sound, Chains, Linked
<1> QED
  BY <1>1, Invariance, PTL

\* The lock makes the constraint on the sequence numbers superfluous.
THEOREM NoAppendIsRefused == Spec => []NeverRefused
<1>1. IInv => NeverRefused
  BY DEF IInv, Sound, AllAccepted, NeverRefused
<1> QED
  BY <1>1, Invariance, PTL

----------------------------------------------------------------------------
(* Types, which hold of damaged chains too. *)

JobPcs == {"idle", "verify", "compare", "put", "anchor", "done"}

Counted ==
  /\ TypeOK /\ jobPc \in [Jobs -> JobPcs]
  /\ IsFiniteSet(bucket) /\ IsFiniteSet(table)
  /\ \A r \in table : r.seq <= events
  /\ \A w \in Writers : /\ IsFiniteSet(txn[w].rows) /\ txn[w].last.seq <= events
                        /\ \A r \in txn[w].rows : r.seq <= events

LEMMA NatHasLeast ==
  ASSUME NEW T, T \subseteq Nat, T # {}
  PROVE  \E x \in T : \A y \in T : x <= y
<1> DEFINE R == OpToRel(<, Nat)
<1>1. IsWellFoundedOn(R, Nat)
  BY NatLessThanWellFounded
<1>2. \A x, y \in Nat : <<y, x>> \in R <=> y < x
  BY DEF OpToRel
<1> HIDE DEF R
<1>3. PICK x \in T : \A y \in T : ~(<<y, x>> \in R)
  BY <1>1, WFMin
<1>4. ASSUME NEW y \in T PROVE x <= y
  <2>1. x \in Nat /\ y \in Nat /\ ~(<<y, x>> \in R)
    BY <1>3
  <2>2. ~(y < x)
    BY <1>2, <2>1
  <2> QED BY <2>1, <2>2
<1> QED BY <1>4

\* Rows with bounded numbers have a last one, in one chain or not.
LEMMA LastTyped ==
  ASSUME NEW rows \in SUBSET Row, NEW n \in Nat, \A r \in rows : r.seq <= n
  PROVE  /\ LastOf(rows) \in [seq : Nat, hash : Hash] /\ LastOf(rows).seq <= n
         /\ rows # {} => \E r \in rows : r.hash = LastOf(rows).hash
<1>1. CASE rows = {}
  BY <1>1 DEF LastOf, Empty, Genesis, Hash
<1>2. CASE rows # {}
  <2> DEFINE T == {n - r.seq : r \in rows}
             r == CHOOSE r \in rows : \A q \in rows : q.seq <= r.seq
  <2>1. \A q \in rows : q.seq \in Nat /\ q.hash \in Hash
    BY DEF Row
  <2>2. T \subseteq Nat /\ T # {}
    BY <1>2, <2>1
  <2>3. PICK x \in T : \A y \in T : x <= y
    BY <2>2, NatHasLeast
  <2>4. PICK p \in rows : x = n - p.seq
    BY <2>3
  <2>5. ASSUME NEW q \in rows PROVE q.seq <= p.seq
    <3>1. n - q.seq \in T /\ q.seq \in Nat /\ p.seq \in Nat
      BY <2>1
    <3>2. n - p.seq <= n - q.seq
      BY <2>3, <2>4, <3>1
    <3> QED BY <3>1, <3>2
  <2>6. r \in rows /\ LastOf(rows) = [seq |-> r.seq, hash |-> r.hash]
    BY <1>2, <2>5 DEF LastOf
  <2> HIDE DEF r
  <2> QED BY <2>1, <2>6
<1> QED BY <1>1, <1>2

LEMMA InitCounted == Init => Counted
<1> SUFFICES ASSUME Init PROVE Counted
  OBVIOUS
<1> USE DEF Init
<1>1. IInv
  BY InitIInv
<1>2. Typed
  BY <1>1 DEF IInv, Sound
<1>3. \A w \in Writers : txn[w].rows = {} /\ txn[w].last = Empty
  OBVIOUS
<1>4. job \in [Jobs -> Job]
  <2> DEFINE Start == [day : Days, leaves : {{}}, damaged : {{}}, version : {0}, created : {0},
                       result : {"none"}]
  <2>1. ASSUME NEW b \in Start PROVE b \in Job
    <3>1. b = [day |-> b.day, leaves |-> {}, damaged |-> {}, version |-> 0, created |-> 0,
               result |-> "none"] /\ b.day \in Days
      OBVIOUS
    <3> HIDE DEF Init, Start
    <3>2. [day |-> b.day, leaves |-> {}, damaged |-> {}, version |-> 0, created |-> 0,
           result |-> "none"] \in Job
      BY <3>1 DEF Job
    <3> QED BY <3>1, <3>2
  <2> QED BY <2>1
<1>5. Empty.seq = 0
  BY DEF Empty
<1>6. ASSUME NEW w \in Writers
      PROVE  IsFiniteSet(txn[w].rows) /\ txn[w].last.seq <= events
             /\ \A r \in txn[w].rows : r.seq <= events
  <2>1. txn[w].rows = {} /\ txn[w].last.seq = 0 /\ events = 0
    BY <1>3, <1>5
  <2> HIDE DEF Init
  <2> QED BY <2>1, FS_EmptySet
<1>7. TypeOK
  BY <1>2, <1>4 DEF TypeOK, Typed
<1> QED BY <1>6, <1>7, FS_EmptySet DEF Counted, JobPcs

LEMMA SeenRows ==
  ASSUME Counted, NEW w \in Writers
  PROVE  /\ Visible(w) \in SUBSET Row /\ \A r \in Visible(w) : r.seq <= events
         /\ txn[w] \in Txn /\ txn[w].session \in Sessions /\ txn[w].rows \in SUBSET Row
         /\ events \in Nat
BY DEF Counted, TypeOK, Txn, Visible

\* A step of one transaction, and what it leaves counted.
TxnStep(w, t, l) ==
  /\ t \in Txn /\ txn' = [txn EXCEPT ![w] = t] /\ pc' = [pc EXCEPT ![w] = l]
  /\ l \in {"idle", "read", "insert", "open", "refused"}
  /\ lock' \in [Sessions -> Writers \union {Free}]
  /\ events' \in 0..MaxEvents /\ events <= events'
  /\ IsFiniteSet(t.rows) /\ t.last.seq <= events' /\ \A r \in t.rows : r.seq <= events'
  /\ table' \subseteq Row /\ IsFiniteSet(table') /\ \A r \in table' : r.seq <= events'
  /\ UNCHANGED <<job, jobPc, day, damaged, bucket>>

LEMMA TxnCounted ==
  ASSUME Counted, NEW w \in Writers, NEW t, NEW l, TxnStep(w, t, l)
  PROVE  Counted'
<1> USE DEF TxnStep
<1>1. \A v \in Writers : txn'[v] = IF v = w THEN t ELSE txn[v]
  BY DEF Counted, TypeOK
<1>2. txn' \in [Writers -> Txn]
  BY DEF Counted, TypeOK
<1>3. TypeOK'
  BY <1>2 DEF Counted, TypeOK
<1>4. ASSUME NEW v \in Writers
      PROVE  /\ IsFiniteSet(txn'[v].rows) /\ txn'[v].last.seq <= events'
             /\ \A r \in txn'[v].rows : r.seq <= events'
  <2>1. CASE v = w
    BY <1>1, <2>1
  <2>2. CASE v # w
    <3>1. txn'[v] = txn[v] /\ txn[v] \in Txn /\ events \in Nat /\ events' \in Nat
      BY <1>1, <2>2, AuditAssumption DEF Counted, TypeOK
    <3>2. txn[v].last.seq \in Nat /\ \A r \in txn[v].rows : r.seq \in Nat
      BY <3>1 DEF Txn, Row
    <3> QED BY <3>1, <3>2 DEF Counted
  <2> QED BY <2>1, <2>2
<1> QED BY <1>3, <1>4 DEF Counted

LEMMA EmptyTyped == Empty \in [seq : Nat, hash : Hash] /\ Empty.seq = 0
BY DEF Empty, Genesis, Hash

LEMMA NewRowTyped ==
  ASSUME Counted, NEW w \in Writers, events < MaxEvents
  PROVE  /\ NewRow(w) \in Row /\ NewRow(w).seq <= events + 1
         /\ NewRow(w).hash = ChainHash(NewRow(w)) /\ NewRow(w).content.id = events + 1
         /\ NewRow(w).session = txn[w].session
<1> DEFINE last == txn[w].last
           content == [id |-> events + 1, day |-> day]
<1>1. last \in [seq : Nat, hash : Hash] /\ last.seq <= events /\ txn[w].session \in Sessions
      /\ events \in Nat
  BY DEF Counted, TypeOK, Txn
<1>2. content \in Content
  BY AuditAssumption DEF Counted, TypeOK, Content
<1>3. NewRow(w) = [session |-> txn[w].session, seq |-> last.seq + 1, content |-> content,
                   prev |-> last.hash, hash |-> Append(last.hash, content)]
  BY DEF NewRow
<1>4. content.id = events + 1
  OBVIOUS
<1> HIDE DEF last, content
<1>5. last.seq \in Nat /\ last.hash \in Hash /\ Append(last.hash, content) \in Hash
  BY <1>1, <1>2 DEF Hash
<1> QED BY <1>1, <1>2, <1>3, <1>4, <1>5 DEF Row, ChainHash

LEMMA WriterCounted ==
  ASSUME Counted, NEW w \in Writers, WriterStep(w) \/ Rollback(w)
  PROVE  Counted'
<1>0. /\ txn[w] \in Txn /\ txn[w].session \in Sessions /\ txn[w].rows \in SUBSET Row
      /\ txn \in [Writers -> Txn] /\ events \in Nat /\ IsFiniteSet(txn[w].rows)
      /\ txn[w].last \in [seq : Nat, hash : Hash] /\ txn[w].last.seq <= events
      /\ \A r \in txn[w].rows : r.seq <= events
      /\ table \subseteq Row /\ IsFiniteSet(table) /\ \A r \in table : r.seq <= events
      /\ events \in 0..MaxEvents /\ MaxEvents \in Nat
      /\ lock \in [Sessions -> Writers \union {Free}]
  BY AuditAssumption DEF Counted, TypeOK, Txn
<1>1. CASE Lock(w)
  <2>1. /\ txn' = [txn EXCEPT ![w] = txn[w]] /\ pc' = [pc EXCEPT ![w] = "read"]
        /\ lock' = [lock EXCEPT ![txn[w].session] = w]
        /\ UNCHANGED <<table, events, job, jobPc, day, damaged, bucket>>
    BY <1>0, <1>1 DEF Lock, Goto, anchoring
  <2>2. TxnStep(w, txn[w], "read")
    BY <1>0, <2>1 DEF TxnStep
  <2> QED BY <2>2, TxnCounted
<1>2. CASE ReadLast(w)
  <2> DEFINE t == [txn[w] EXCEPT !.last = LastOf(Visible(w))]
  <2>1. LastOf(Visible(w)) \in [seq : Nat, hash : Hash] /\ LastOf(Visible(w)).seq <= events
    BY <1>0, SeenRows, LastTyped
  <2>2. t \in Txn /\ t.rows = txn[w].rows /\ t.last = LastOf(Visible(w))
    BY <1>0, <2>1 DEF Txn
  <2>3. /\ txn' = [txn EXCEPT ![w] = t] /\ pc' = [pc EXCEPT ![w] = "insert"]
        /\ UNCHANGED <<table, lock, events, job, jobPc, day, damaged, bucket>>
    BY <1>0, <1>2 DEF ReadLast, Goto, anchoring
  <2> HIDE DEF t
  <2>4. TxnStep(w, t, "insert")
    BY <1>0, <2>1, <2>2, <2>3 DEF TxnStep
  <2> QED BY <2>4, TxnCounted
<1>3. CASE Insert(w)
  <2> DEFINE r == NewRow(w)
             t == [txn[w] EXCEPT !.rows = @ \union {r}, !.last = Empty]
  <2>1. /\ events < MaxEvents /\ events' = events + 1
        /\ UNCHANGED <<table, lock, job, jobPc, day, damaged, bucket>>
    BY <1>3 DEF Insert, anchoring
  <2>2. r \in Row /\ r.seq <= events + 1
    BY <2>1, NewRowTyped
  <2>3. \A q \in table \union txn[w].rows : q.seq \in Nat /\ q.seq <= events'
    BY <1>0, <2>1 DEF Row
  <2>4. CASE SameKey(r, table \union txn[w].rows)
    <3>1. txn' = [txn EXCEPT ![w] = txn[w]] /\ pc' = [pc EXCEPT ![w] = "refused"]
      BY <1>0, <1>3, <2>4 DEF Insert, Goto
    <3> HIDE DEF r
    <3>2. TxnStep(w, txn[w], "refused")
      BY <1>0, <2>1, <2>3, <3>1 DEF TxnStep, Txn
    <3> QED BY <3>2, TxnCounted
  <2>5. CASE ~SameKey(r, table \union txn[w].rows)
    <3>1. txn' = [txn EXCEPT ![w] = t] /\ pc' = [pc EXCEPT ![w] = "open"]
      BY <1>0, <1>3, <2>5 DEF Insert, Goto
    <3> HIDE DEF r
    <3>2. t \in Txn /\ t.rows = txn[w].rows \union {r} /\ t.last = Empty
      BY <1>0, <2>2, EmptyTyped DEF Txn
    <3>3. IsFiniteSet(t.rows)
      BY <1>0, <3>2, FS_AddElement
    <3>4. t.last.seq <= events' /\ \A q \in t.rows : q.seq <= events'
      BY <1>0, <2>1, <2>2, <2>3, <3>2, EmptyTyped
    <3> HIDE DEF t
    <3>5. TxnStep(w, t, "open")
      BY <1>0, <2>1, <2>3, <3>1, <3>2, <3>3, <3>4 DEF TxnStep
    <3> QED BY <3>5, TxnCounted
  <2> QED BY <2>4, <2>5
<1>4. CASE Commit(w) \/ Rollback(w)
  <2>1. PICK s \in Sessions : txn' = [txn EXCEPT ![w] = [session |-> s, rows |-> {}, last |-> Empty]]
    BY <1>4 DEF Commit, Rollback, End
  <2> DEFINE t == [session |-> s, rows |-> {}, last |-> Empty]
  <2>2. t \in Txn /\ t.rows = {} /\ t.last.seq = 0
    BY EmptyTyped DEF Txn
  <2>3. /\ pc' = [pc EXCEPT ![w] = "idle"] /\ lock' \in [Sessions -> Writers \union {Free}]
        /\ UNCHANGED <<events, job, jobPc, day, damaged, bucket>>
        /\ table' \in {table, table \union txn[w].rows}
    BY <1>0, <1>4 DEF Commit, Rollback, End, Goto, anchoring
  <2>4. /\ table' \subseteq Row /\ \A r \in table' : r.seq <= events
    BY <1>0, <2>3
  <2>5. IsFiniteSet(table')
    <3>1. IsFiniteSet(table \union txn[w].rows)
      BY <1>0, FS_Union
    <3> QED BY <1>0, <2>3, <3>1
  <2>6. txn' = [txn EXCEPT ![w] = t]
    BY <2>1
  <2> HIDE DEF t
  <2>7. TxnStep(w, t, "idle")
    BY <1>0, <2>2, <2>3, <2>4, <2>5, <2>6, FS_EmptySet DEF TxnStep
  <2> QED BY <2>7, TxnCounted
<1> QED BY <1>1, <1>2, <1>3, <1>4 DEF WriterStep

\* What a job's step leaves alone.
LEMMA JobCounted ==
  ASSUME Counted, UNCHANGED <<appends, day, damaged>>, job' \in [Jobs -> Job],
         jobPc' \in [Jobs -> JobPcs], IsFiniteSet(bucket')
  PROVE  Counted'
BY DEF Counted, TypeOK, appends

LEMMA LeavesTyped ==
  ASSUME Counted, NEW d \in Days
  PROVE  /\ Leaves(d) \in SUBSET Leaf
         /\ \A l \in Leaves(d) : \E r \in table : r.session = l[1] /\ r.hash = l[2]
<1> DEFINE Until(s) == {r \in table : r.session = s /\ r.content.day <= d}
<1>1. ASSUME NEW l \in Leaves(d)
      PROVE  l \in Leaf /\ \E r \in table : r.session = l[1] /\ r.hash = l[2]
  <2>1. PICK q \in table : q.content.day = d /\ l = <<q.session, LastOf(Until(q.session)).hash>>
    BY <1>1 DEF Leaves
  <2>2. q \in Until(q.session) /\ q.session \in Sessions
    BY <2>1 DEF Counted, TypeOK, Row, Days
  <2>3. Until(q.session) \in SUBSET Row /\ (\A r \in Until(q.session) : r.seq <= events)
        /\ events \in Nat
    BY DEF Counted, TypeOK
  <2> DEFINE last == LastOf(Until(q.session))
  <2>4. last \in [seq : Nat, hash : Hash] /\ \E r \in Until(q.session) : r.hash = last.hash
    BY <2>2, <2>3, LastTyped
  <2> HIDE DEF last
  <2>5. l = <<q.session, last.hash>>
    BY <2>1 DEF last
  <2> QED BY <2>2, <2>4, <2>5 DEF Leaf
<1> QED BY <1>1

----------------------------------------------------------------------------
(* Where a row comes from: its hash is that of the event first written in it. *)

Ever == table \union damaged \union UNION {txn[w].rows : w \in Writers}

Written(r) == r.hash[Len(r.hash)].id

Original ==
  /\ \A r \in Ever : r.hash # <<>> /\ Written(r) \in 1..events
  /\ \A q, r \in Ever : Written(q) = Written(r) =>
       q.session = r.session /\ q.seq = r.seq /\ q.prev = r.prev /\ q.hash = r.hash

\* An undamaged row's last content is its own.
LEMMA OwnContent ==
  ASSUME NEW r \in Row, r.hash = ChainHash(r)
  PROVE  r.hash # <<>> /\ r.hash[Len(r.hash)] = r.content /\ Written(r) = r.content.id
<1>1. r.prev \in Seq(Content) /\ r.content \in Content
  BY DEF Row, Hash
<1> QED BY <1>1 DEF ChainHash, Written

LEMMA EverTyped == ASSUME Counted PROVE Ever \in SUBSET Row
BY DEF Counted, TypeOK, Txn, Ever

LEMMA InitOriginal == Init => Original
BY DEF Init, Original, Ever

LEMMA OriginalStep ==
  ASSUME Counted, Original, [Next]_vars PROVE Original'
<1>1. ASSUME Ever' \subseteq Ever, events' = events PROVE Original'
  BY <1>1 DEF Original, Written
<1>2. ASSUME NEW w \in Writers, Lock(w) \/ ReadLast(w) \/ Commit(w) \/ Rollback(w) PROVE Original'
  <2>1. events' = events /\ damaged' = damaged /\ table \subseteq table'
        /\ table' \subseteq table \union txn[w].rows
    BY <1>2 DEF Lock, ReadLast, Commit, Rollback
  <2>2. \A v \in Writers : txn'[v].rows \subseteq txn[v].rows
    <3>1. txn \in [Writers -> Txn] /\ \A v \in Writers : txn[v] \in Txn
      BY DEF Counted, TypeOK
    <3>2. CASE Lock(w)
      BY <3>2 DEF Lock
    <3>3. CASE ReadLast(w)
      <4>1. txn' = [txn EXCEPT ![w] = [txn[w] EXCEPT !.last = LastOf(Visible(w))]]
        BY <3>1, <3>3 DEF ReadLast
      <4>2. [txn[w] EXCEPT !.last = LastOf(Visible(w))].rows = txn[w].rows
        BY <3>1 DEF Txn
      <4> QED BY <3>1, <4>1, <4>2
    <3>4. CASE Commit(w) \/ Rollback(w)
      BY <3>1, <3>4 DEF Commit, Rollback, End
    <3> QED BY <1>2, <3>2, <3>3, <3>4
  <2>3. Ever' \subseteq Ever
    BY <2>1, <2>2 DEF Ever
  <2> QED BY <1>1, <2>1, <2>3
<1>3. ASSUME NEW w \in Writers, Insert(w) PROVE Original'
  <2> DEFINE r == NewRow(w)
  <2>1. events < MaxEvents /\ events' = events + 1 /\ UNCHANGED <<table, damaged>>
        /\ events \in Nat
    BY <1>3, AuditAssumption DEF Insert, Counted, TypeOK
  <2>2. r \in Row /\ r.hash = ChainHash(r) /\ r.content.id = events'
    BY <2>1, NewRowTyped
  <2>3. \A v \in Writers : txn'[v].rows \subseteq txn[v].rows \union {r}
    <3>1. txn \in [Writers -> Txn] /\ txn[w] \in Txn
      BY DEF Counted, TypeOK
    <3> DEFINE t == [txn[w] EXCEPT !.rows = @ \union {r}, !.last = Empty]
    <3>2. txn' = txn \/ txn' = [txn EXCEPT ![w] = t]
      BY <1>3, <3>1 DEF Insert
    <3> HIDE DEF r
    <3>3. t.rows = txn[w].rows \union {r}
      BY <3>1 DEF Txn
    <3> HIDE DEF t
    <3> QED BY <3>1, <3>2, <3>3
  <2> HIDE DEF r
  <2>4. Ever' \subseteq Ever \union {r}
    BY <2>1, <2>3 DEF Ever
  <2>5. r.hash # <<>> /\ Written(r) = events + 1
    BY <2>1, <2>2, OwnContent
  <2>6. \A q \in Ever : Written(q) \in 1..events /\ Written(q) # Written(r)
    BY <2>1, <2>5 DEF Original
  <2>7. ASSUME NEW q \in Ever' PROVE q.hash # <<>> /\ Written(q) \in 1..events'
    BY <2>1, <2>4, <2>5 DEF Original
  <2>8. ASSUME NEW p \in Ever', NEW q \in Ever', Written(p) = Written(q)
        PROVE  p.session = q.session /\ p.seq = q.seq /\ p.prev = q.prev /\ p.hash = q.hash
    <3>1. p = r <=> q = r
      BY <2>4, <2>6, <2>8
    <3>2. CASE p = r
      BY <3>1, <3>2
    <3>3. CASE p # r
      BY <2>4, <2>8, <3>1, <3>3 DEF Original
    <3> QED BY <3>2, <3>3
  <2>9. \A q : Written(q)' = Written(q)
    BY DEF Written
  <2> QED BY <2>7, <2>8, <2>9 DEF Original
<1>4. ASSUME NEW r \in table, Damage(r) PROVE Original'
  <2>1. events' = events /\ damaged' = damaged \union {r} /\ txn' = txn
    BY <1>4 DEF Damage
  <2>2. PICK c : table' \subseteq table \union {[r EXCEPT !.content = c]}
    BY <1>4 DEF Damage
  <2> DEFINE p == [r EXCEPT !.content = c]
  <2>3. r \in Row
    BY DEF Counted, TypeOK
  <2>4. p.session = r.session /\ p.seq = r.seq /\ p.prev = r.prev /\ p.hash = r.hash
    BY <2>3 DEF Row
  <2>5. r \in Ever /\ Ever' \subseteq Ever \union {p}
    BY <2>1, <2>2 DEF Ever
  <2> HIDE DEF p
  <2>6. ASSUME NEW q \in Ever'
        PROVE  \E o \in Ever : o.session = q.session /\ o.seq = q.seq /\ o.prev = q.prev
                                /\ o.hash = q.hash /\ Written(o) = Written(q)
    BY <2>4, <2>5 DEF Written
  <2>7. \A q : Written(q)' = Written(q)
    BY DEF Written
  <2>8. ASSUME NEW q \in Ever' PROVE q.hash # <<>> /\ Written(q) \in 1..events'
    BY <2>1, <2>6 DEF Original
  <2>9. ASSUME NEW x \in Ever', NEW y \in Ever', Written(x) = Written(y)
        PROVE  x.session = y.session /\ x.seq = y.seq /\ x.prev = y.prev /\ x.hash = y.hash
    <3>1. PICK a \in Ever : a.session = x.session /\ a.seq = x.seq /\ a.prev = x.prev
                            /\ a.hash = x.hash /\ Written(a) = Written(x)
      BY <2>6
    <3>2. PICK b \in Ever : b.session = y.session /\ b.seq = y.seq /\ b.prev = y.prev
                            /\ b.hash = y.hash /\ Written(b) = Written(y)
      BY <2>6
    <3> QED BY <2>9, <3>1, <3>2 DEF Original
  <2> QED BY <2>7, <2>8, <2>9 DEF Original
<1>5. ASSUME UNCHANGED <<table, txn, events, damaged>> PROVE Original'
  BY <1>1, <1>5 DEF Ever
<1>6. CASE \E j \in Jobs : JobStep(j) \/ JobDies(j)
  BY <1>5, <1>6
     DEF JobStep, JobDies, Collect, VerifyChains, Compare, PutObject, InsertAnchor, appends
<1>7. CASE VerifyDossier \/ ReadDossier \/ Midnight \/ UNCHANGED vars
  BY <1>5, <1>7 DEF VerifyDossier, ReadDossier, Midnight, vars, appends
<1> QED BY <1>2, <1>3, <1>4, <1>6, <1>7 DEF Next, WriterStep

----------------------------------------------------------------------------
(* What a chain that verifies holds, and what a job has seen of it. *)

\* Whatever a hash of a verified chain was computed from is there, undamaged.
LEMMA VerifiedHolds ==
  ASSUME NEW rows \in SUBSET Row, Bad(rows) = {}, NEW x \in rows, NEW i \in DOMAIN x.hash
  PROVE  \E q \in rows : q.hash = ChainHash(q) /\ q.content = x.hash[i]
<1> DEFINE There(c) == \E q \in rows : q.hash = ChainHash(q) /\ q.content = c
           Missing == {y \in rows : \E k \in DOMAIN y.hash : ~There(y.hash[k])}
           T == {Len(y.hash) : y \in Missing}
<1>1. SUFFICES ASSUME Missing # {} PROVE FALSE
  OBVIOUS
<1>2. \A y \in rows : y.hash \in Seq(Content) /\ y.prev \in Seq(Content) /\ y.content \in Content
  BY DEF Row, Hash
<1>3. T \subseteq Nat /\ T # {}
  <2>1. \A y \in rows : Len(y.hash) \in Nat
    BY <1>2
  <2>2. Missing \subseteq rows
    OBVIOUS
  <2> HIDE DEF Missing
  <2> QED BY <1>1, <2>1, <2>2
<1>4. PICK n \in T : \A m \in T : n <= m
  BY <1>3, NatHasLeast
<1>5. PICK y \in Missing : n = Len(y.hash)
  BY <1>4
<1>6. PICK k \in DOMAIN y.hash : ~There(y.hash[k])
  BY <1>5
<1>7. y.hash = Append(y.prev, y.content) /\ y.hash = ChainHash(y) /\ Follows(y, rows)
  BY DEF Bad, ChainHash
<1>8. Len(y.hash) = Len(y.prev) + 1 /\ y.hash[Len(y.prev) + 1] = y.content
      /\ \A m \in 1..Len(y.prev) : y.hash[m] = y.prev[m]
  <2>1. y.prev \in Seq(Content) /\ y.content \in Content
    BY <1>2
  <2>2. ASSUME NEW p \in Seq(Content), NEW c \in Content, NEW h, h = Append(p, c)
        PROVE  /\ Len(h) = Len(p) + 1 /\ h[Len(p) + 1] = c
               /\ \A m \in 1..Len(p) : h[m] = p[m]
    BY <2>2
  <2>3. y.hash = Append(y.prev, y.content)
    BY <1>7
  <2> HIDE DEF Missing
  <2> QED BY <2>1, <2>2, <2>3
<1>9. k # Len(y.prev) + 1
  BY <1>6, <1>7, <1>8
<1>10. k \in 1..Len(y.prev) /\ y.hash[k] = y.prev[k]
  BY <1>2, <1>6, <1>8, <1>9
<1>11. PICK q \in rows : y.prev = q.hash
  BY <1>2, <1>7, <1>10 DEF Follows, Genesis
<1>12. q \in Missing
  BY <1>2, <1>6, <1>10, <1>11
<1>13. n <= Len(q.hash)
  BY <1>4, <1>12
<1> QED BY <1>2, <1>5, <1>8, <1>11, <1>13

\* The job's leaves hold no event that was lost or changed before it began.
Spared(j) ==
  \A r \in job[j].damaged : r.hash = ChainHash(r) =>
    \A l \in job[j].leaves : l[1] = r.session => \A i \in DOMAIN l[2] : l[2][i] # r.content

Named(b) == [version |-> b.version, day |-> b.day, root |-> b.leaves] \in bucket

\* A leaf is the hash of a row that was there; once verified, the leaves are spared; a job
\* that is done has had its anchor, and about to insert one it names its own object.
JobGood(j) ==
  /\ jobPc[j] = "verify" => \A l \in job[j].leaves : \E x \in table \union damaged :
        x.session = l[1] /\ x.hash = l[2] /\ x \notin job[j].damaged
  /\ jobPc[j] \in {"compare", "put", "anchor"} \/ job[j].result \in {"anchored", "same", "open day"} =>
        Spared(j)
  /\ jobPc[j] = "anchor" => Named(job[j])
  /\ job[j].result # "none" => jobPc[j] = "done"
  /\ job[j].result \in {"anchored", "same"} =>
        \E a \in anchors : a.day = job[j].day /\ a.root = job[j].leaves
  /\ job[j].result = "open day" =>
        \E a \in anchors : a.day = job[j].day /\ ~(a.created > a.day)

\* One anchor a day.
OneADay == \A a, b \in anchors : a.day = b.day => a = b

Anchored == OneADay /\ AnchorNamesItsObject /\ \A j \in Jobs : JobGood(j)

LEMMA InitAnchored == Init => Anchored
<1> SUFFICES ASSUME Init PROVE Anchored
  OBVIOUS
<1>1. \A j \in Jobs : jobPc[j] = "idle" /\ job[j].result = "none"
  BY DEF Init
<1> QED BY <1>1 DEF Init, Anchored, OneADay, AnchorNamesItsObject, JobGood

\* A job that does not move stays good while rows, objects and anchors only become more.
LEMMA StaysGood ==
  ASSUME NEW j, JobGood(j), job'[j] = job[j], jobPc'[j] = jobPc[j],
         table \union damaged \subseteq table' \union damaged', bucket \subseteq bucket',
         anchors \subseteq anchors'
  PROVE  JobGood(j)'
<1>1. Spared(j)' <=> Spared(j)
  BY DEF Spared, ChainHash
<1>2. Named(job[j]) => Named(job[j])'
  BY DEF Named
<1> QED BY <1>1, <1>2 DEF JobGood

\* The other jobs, while one moves.
LEMMA OneMoves ==
  ASSUME Anchored, NEW j \in Jobs, JobGood(j)', OneADay', AnchorNamesItsObject',
         \A k \in Jobs \ {j} : job'[k] = job[k] /\ jobPc'[k] = jobPc[k],
         UNCHANGED <<table, damaged>>, bucket \subseteq bucket', anchors \subseteq anchors'
  PROVE  Anchored'
<1>1. \A k \in Jobs \ {j} : JobGood(k)'
  BY StaysGood DEF Anchored
<1> QED BY <1>1 DEF Anchored

\* The job's step as a change of its record.
JobOnly == UNCHANGED <<appends, dossier, day, damaged>>

JobMoves(j, b, l) ==
  /\ job' = [job EXCEPT ![j] = b] /\ jobPc' = [jobPc EXCEPT ![j] = l]
  /\ b \in Job /\ l \in JobPcs
  /\ JobOnly

LEMMA MovedJob ==
  ASSUME Counted, NEW j \in Jobs, NEW b, NEW l, JobMoves(j, b, l)
  PROVE  /\ job' \in [Jobs -> Job] /\ job'[j] = b /\ jobPc' \in [Jobs -> JobPcs] /\ jobPc'[j] = l
         /\ \A k \in Jobs \ {j} : job'[k] = job[k] /\ jobPc'[k] = jobPc[k]
         /\ UNCHANGED <<table, damaged>>
BY DEF Counted, TypeOK, JobMoves, JobOnly, appends

Results == {"anchored", "same", "open day", "chain broken", "root changed", "conflict"}

\* However a job ends.
LEMMA EndsTyped ==
  ASSUME Counted, NEW j \in Jobs, NEW result \in Results,
         job' = [job EXCEPT ![j].result = result], jobPc' = [jobPc EXCEPT ![j] = "done"], JobOnly
  PROVE  \E b \in Job : /\ JobMoves(j, b, "done") /\ b.result = result /\ b.day = job[j].day
                         /\ b.leaves = job[j].leaves /\ b.damaged = job[j].damaged
<1> DEFINE b == [job[j] EXCEPT !.result = result]
<1>1. job[j] \in Job
  BY DEF Counted, TypeOK
<1>2. b \in Job /\ b.result = result /\ b.day = job[j].day /\ b.leaves = job[j].leaves
      /\ b.damaged = job[j].damaged
  BY <1>1 DEF Job, Results
<1>3. JobMoves(j, b, "done")
  BY <1>2 DEF JobMoves, JobOnly, JobPcs
<1> QED BY <1>2, <1>3

LEMMA CollectKeeps ==
  ASSUME Counted, Anchored, NEW j \in Jobs, Collect(j) PROVE Counted' /\ Anchored'
<1> DEFINE b == [job[j] EXCEPT !.leaves = Leaves(job[j].day), !.damaged = damaged \ table]
<1>1. job[j] \in Job /\ job[j].day \in Days /\ damaged \subseteq Row
  BY DEF Counted, TypeOK, Job
<1>2. Leaves(job[j].day) \in SUBSET Leaf
      /\ \A l \in Leaves(job[j].day) : \E r \in table : r.session = l[1] /\ r.hash = l[2]
  BY <1>1, LeavesTyped
<1>3. b \in Job /\ b.leaves = Leaves(job[j].day) /\ b.damaged = damaged \ table
      /\ b.result = job[j].result
  BY <1>1, <1>2 DEF Job
<1>4. jobPc[j] = "idle" /\ JobMoves(j, b, "verify") /\ UNCHANGED <<anchors, bucket>>
  BY <1>1, <1>3 DEF Collect, JobGoto, JobMoves, JobOnly, JobPcs, Job
<1>5. job[j].result = "none"
  BY <1>4 DEF Anchored, JobGood
<1> HIDE DEF b
<1>6. Counted'
  BY <1>4, MovedJob, JobCounted DEF Counted, JobMoves, JobOnly
<1>7. JobGood(j)'
  <2>1. job'[j] = b /\ jobPc'[j] = "verify" /\ table' = table /\ damaged' = damaged
    BY <1>4, MovedJob
  <2> QED BY <1>2, <1>3, <1>5, <2>1 DEF JobGood
<1>8. OneADay' /\ AnchorNamesItsObject'
  BY <1>4 DEF Anchored, OneADay, AnchorNamesItsObject
<1>9. UNCHANGED <<table, damaged>> /\ \A k \in Jobs \ {j} : job'[k] = job[k] /\ jobPc'[k] = jobPc[k]
  BY <1>4, MovedJob
<1> QED BY <1>4, <1>6, <1>7, <1>8, <1>9, OneMoves

\* The heart of it: what is verified, with the disk as it was when the leaves were taken, holds
\* every event of its leaves; so none of them is among the lost or changed.
LEMMA VerifiedSpares ==
  ASSUME Counted, Original, Anchored, NEW j \in Jobs, jobPc[j] = "verify",
         \A l \in job[j].leaves : Verifies(l[1]), job[j].damaged = damaged \ table
  PROVE  Spared(j)
<1> SUFFICES ASSUME NEW r \in job[j].damaged, r.hash = ChainHash(r),
                    NEW l \in job[j].leaves, l[1] = r.session,
                    NEW i \in DOMAIN l[2], l[2][i] = r.content
             PROVE  FALSE
  BY DEF Spared
<1>1. PICK x \in table \union damaged : x.session = l[1] /\ x.hash = l[2] /\ x \notin job[j].damaged
  BY DEF Anchored, JobGood
<1>2. x \in Events(l[1])
  BY <1>1 DEF Events
<1>3. Bad(Events(l[1])) = {} /\ Events(l[1]) \in SUBSET Row
  BY DEF Verifies, Events, Counted, TypeOK
<1>4. PICK q \in Events(l[1]) : q.hash = ChainHash(q) /\ q.content = x.hash[i]
  BY <1>1, <1>2, <1>3, VerifiedHolds
<1>5. q \in table /\ q \in Ever /\ r \in Ever /\ r \notin table /\ q \in Row /\ r \in Row
  BY <1>4, EverTyped DEF Events, Ever, Counted, TypeOK
<1>6. q.content = r.content
  BY <1>1, <1>4
<1>7. Written(q) = Written(r)
  BY <1>4, <1>5, <1>6, OwnContent
<1>8. q.session = r.session /\ q.seq = r.seq /\ q.prev = r.prev /\ q.hash = r.hash
  BY <1>5, <1>7 DEF Original
<1>9. q = r
  BY <1>5, <1>6, <1>8 DEF Row
<1> QED BY <1>5, <1>9

LEMMA VerifyKeeps ==
  ASSUME Counted, Original, Anchored, NEW j \in Jobs, VerifyChains(j) PROVE Counted' /\ Anchored'
<1>1. jobPc[j] = "verify" /\ UNCHANGED <<appends, anchors, bucket, dossier, day, damaged>>
      /\ job[j] \in Job /\ job[j].result = "none"
  BY DEF VerifyChains, Anchored, JobGood, Counted, TypeOK
<1>2. PICK b, l : /\ JobMoves(j, b, l)
                  /\ \/ /\ l = "compare" /\ b.result = "none"
                        /\ \A r \in b.damaged : r.hash = ChainHash(r) =>
                             \A f \in b.leaves : f[1] = r.session =>
                               \A i \in DOMAIN f[2] : f[2][i] # r.content
                     \/ l = "done" /\ b.result = "chain broken"
  <2>1. CASE \A l \in job[j].leaves : Verifies(l[1])
    <3> DEFINE d == IF job[j].damaged = damaged \ table THEN job[j].damaged ELSE {}
               b == [job[j] EXCEPT !.damaged = d]
    <3>1. b \in Job /\ b.damaged = d /\ b.leaves = job[j].leaves /\ b.result = "none"
      BY <1>1 DEF Job
    <3>2. JobMoves(j, b, "compare")
      BY <1>1, <2>1, <3>1 DEF VerifyChains, JobGoto, JobMoves, JobOnly, JobPcs, Job
    <3>3. d = {} \/ (d = job[j].damaged /\ Spared(j))
      BY <1>1, <2>1, VerifiedSpares
    <3> HIDE DEF b, d
    <3>4. \A r \in b.damaged : r.hash = ChainHash(r) =>
            \A f \in b.leaves : f[1] = r.session =>
              \A i \in DOMAIN f[2] : f[2][i] # r.content
      BY <3>1, <3>3 DEF Spared
    <3> QED BY <3>1, <3>2, <3>4
  <2>2. CASE ~\A l \in job[j].leaves : Verifies(l[1])
    <3>1. /\ job' = [job EXCEPT ![j].result = "chain broken"]
          /\ jobPc' = [jobPc EXCEPT ![j] = "done"]
      BY <2>2 DEF VerifyChains, Ends, JobGoto
    <3>2. JobOnly /\ "chain broken" \in Results
      BY <1>1 DEF JobOnly, Results
    <3>3. PICK b \in Job : JobMoves(j, b, "done") /\ b.result = "chain broken"
      BY <3>1, <3>2, EndsTyped
    <3> QED BY <3>3
  <2> QED BY <2>1, <2>2
<1>3. Counted'
  BY <1>1, <1>2, MovedJob, JobCounted DEF Counted, JobMoves, JobOnly
<1>4. job'[j] = b /\ jobPc'[j] = l
  BY <1>2, MovedJob
<1>5. JobGood(j)'
  BY <1>2, <1>4 DEF JobGood, Spared, ChainHash
<1>6. OneADay' /\ AnchorNamesItsObject'
  BY <1>1 DEF Anchored, OneADay, AnchorNamesItsObject
<1>7. UNCHANGED <<table, damaged>> /\ \A k \in Jobs \ {j} : job'[k] = job[k] /\ jobPc'[k] = jobPc[k]
  BY <1>2, MovedJob
<1> QED BY <1>1, <1>3, <1>5, <1>6, <1>7, OneMoves

LEMMA CompareKeeps ==
  ASSUME Counted, Anchored, NEW j \in Jobs, Compare(j) PROVE Counted' /\ Anchored'
<1>1. jobPc[j] = "compare" /\ UNCHANGED <<appends, anchors, bucket, dossier, day, damaged>>
      /\ job[j] \in Job /\ job[j].result = "none" /\ Spared(j)
  BY DEF Compare, Anchored, JobGood, Counted, TypeOK
<1>2. PICK b, l :
        /\ JobMoves(j, b, l) /\ b.day = job[j].day
        /\ b.leaves = job[j].leaves /\ b.damaged = job[j].damaged
        /\ \/ l = "put" /\ b.result = "none"
           \/ /\ l = "done"
              /\ \E a \in anchors : a.day = job[j].day
                   /\ \/ b.result = "same" /\ a.root = job[j].leaves
                      \/ b.result = "open day" /\ ~(a.created > a.day)
                      \/ b.result = "root changed"
  <2>1. CASE JobGoto(j, "put") /\ UNCHANGED job
    <3>1. JobMoves(j, job[j], "put")
      BY <1>1, <2>1 DEF JobGoto, JobMoves, JobOnly, JobPcs, Counted, TypeOK
    <3> QED BY <1>1, <3>1
  <2>2. CASE \E a \in anchors : a.day = job[j].day /\
               Ends(j, IF a.root = job[j].leaves THEN "same"
                       ELSE IF a.created > a.day THEN "root changed" ELSE "open day")
    <3> DEFINE Told(a) == IF a.root = job[j].leaves THEN "same"
                          ELSE IF a.created > a.day THEN "root changed" ELSE "open day"
    <3>1. PICK a \in anchors :
            /\ a.day = job[j].day
            /\ job' = [job EXCEPT ![j].result = Told(a)]
            /\ jobPc' = [jobPc EXCEPT ![j] = "done"]
      BY <2>2 DEF Ends, JobGoto
    <3>2. PICK result \in {"same", "root changed", "open day"} :
            /\ job' = [job EXCEPT ![j].result = result]
            /\ result = "same" => a.root = job[j].leaves
            /\ result = "open day" => ~(a.created > a.day)
      <4>1. CASE a.root = job[j].leaves
        <5>1. Told(a) = "same"
          BY <4>1
        <5> QED BY <3>1, <4>1, <5>1
      <4>2. CASE a.root # job[j].leaves /\ a.created > a.day
        <5>1. Told(a) = "root changed"
          BY <4>2
        <5> QED BY <3>1, <5>1
      <4>3. CASE a.root # job[j].leaves /\ ~(a.created > a.day)
        <5>1. Told(a) = "open day"
          BY <4>3
        <5> QED BY <3>1, <4>3, <5>1
      <4> QED BY <4>1, <4>2, <4>3
    <3>3. PICK b \in Job : /\ JobMoves(j, b, "done") /\ b.result = result /\ b.day = job[j].day
                           /\ b.leaves = job[j].leaves /\ b.damaged = job[j].damaged
      <4>1. JobOnly /\ result \in Results
        BY <1>1 DEF JobOnly, Results
      <4> QED BY <3>1, <3>2, <4>1, EndsTyped
    <3> QED BY <3>1, <3>2, <3>3
  <2> QED BY <2>1, <2>2 DEF Compare
<1>3. Counted'
  BY <1>1, <1>2, MovedJob, JobCounted DEF Counted, JobMoves, JobOnly
<1>4. job'[j] = b /\ jobPc'[j] = l
  BY <1>2, MovedJob
<1>5. JobGood(j)'
  <2>1. Spared(j)'
    BY <1>1, <1>2, <1>4 DEF Spared, ChainHash
  <2> QED BY <1>1, <1>2, <1>4, <2>1 DEF JobGood
<1>6. OneADay' /\ AnchorNamesItsObject'
  BY <1>1 DEF Anchored, OneADay, AnchorNamesItsObject
<1>7. UNCHANGED <<table, damaged>> /\ \A k \in Jobs \ {j} : job'[k] = job[k] /\ jobPc'[k] = jobPc[k]
  BY <1>2, MovedJob
<1> QED BY <1>1, <1>3, <1>5, <1>6, <1>7, OneMoves

LEMMA PutKeeps ==
  ASSUME Counted, Anchored, NEW j \in Jobs, PutObject(j) PROVE Counted' /\ Anchored'
<1> DEFINE v == Cardinality(bucket) + 1
           b == [job[j] EXCEPT !.version = v, !.created = day]
           o == [version |-> v, day |-> job[j].day, root |-> job[j].leaves]
<1>1. jobPc[j] = "put" /\ UNCHANGED <<appends, anchors, dossier, day, damaged>>
      /\ job[j] \in Job /\ job[j].result = "none" /\ Spared(j) /\ bucket' = bucket \union {o}
      /\ IsFiniteSet(bucket) /\ day \in Nat
  <2>1. jobPc[j] = "put" /\ UNCHANGED <<appends, anchors, dossier, day, damaged>>
        /\ bucket' = bucket \union {o}
    BY DEF PutObject
  <2>2. job[j].result = "none" /\ Spared(j)
    BY <2>1 DEF Anchored, JobGood
  <2>3. job[j] \in Job /\ IsFiniteSet(bucket) /\ day \in Nat
    BY AuditAssumption DEF Counted, TypeOK, Days
  <2> QED BY <2>1, <2>2, <2>3
<1>2. v \in Nat
  BY <1>1, FS_CardinalityType
<1>3. job' = [job EXCEPT ![j] = b] /\ jobPc' = [jobPc EXCEPT ![j] = "anchor"]
  BY <1>1 DEF PutObject, JobGoto, Job
<1> HIDE DEF v
<1>4. b \in Job /\ b.version = v /\ b.day = job[j].day /\ b.leaves = job[j].leaves
      /\ b.damaged = job[j].damaged /\ b.result = "none"
  BY <1>1, <1>2 DEF Job
<1> HIDE DEF b
<1>5. JobMoves(j, b, "anchor")
  BY <1>1, <1>3, <1>4 DEF JobMoves, JobOnly, JobPcs
<1>6. IsFiniteSet(bucket')
  BY <1>1, FS_AddElement
<1>7. Counted'
  BY <1>1, <1>5, <1>6, MovedJob, JobCounted DEF JobMoves, JobOnly
<1>8. job'[j] = b /\ jobPc'[j] = "anchor"
  BY <1>5, MovedJob
<1>9. JobGood(j)'
  <2>1. Spared(j)'
    BY <1>1, <1>4, <1>8 DEF Spared, ChainHash
  <2>2. Named(job[j])'
    BY <1>1, <1>4, <1>8 DEF Named
  <2> QED BY <1>4, <1>8, <2>1, <2>2 DEF JobGood
<1>10. OneADay' /\ AnchorNamesItsObject'
  BY <1>1 DEF Anchored, OneADay, AnchorNamesItsObject
<1>11. UNCHANGED <<table, damaged>> /\ \A k \in Jobs \ {j} : job'[k] = job[k] /\ jobPc'[k] = jobPc[k]
  BY <1>5, MovedJob
<1> QED BY <1>1, <1>7, <1>9, <1>10, <1>11, OneMoves

LEMMA InsertAnchorKeeps ==
  ASSUME Counted, Anchored, NEW j \in Jobs, InsertAnchor(j) PROVE Counted' /\ Anchored'
<1> DEFINE n == [day |-> job[j].day, root |-> job[j].leaves,
                 version |-> job[j].version, created |-> job[j].created]
<1>1. jobPc[j] = "anchor" /\ UNCHANGED <<appends, bucket, dossier, day, damaged>>
      /\ Spared(j) /\ Named(job[j])
  BY DEF InsertAnchor, Anchored, JobGood
<1>2. PICK result \in {"anchored", "conflict"} :
        /\ job' = [job EXCEPT ![j].result = result] /\ jobPc' = [jobPc EXCEPT ![j] = "done"]
        /\ result = "conflict" => anchors' = anchors
        /\ result = "anchored" => /\ anchors' = anchors \union {n}
                                 /\ \A a \in anchors : a.day # job[j].day
  BY DEF InsertAnchor, Ends, JobGoto
<1>3. PICK b \in Job : /\ JobMoves(j, b, "done") /\ b.result = result /\ b.day = job[j].day
                       /\ b.leaves = job[j].leaves /\ b.damaged = job[j].damaged
  <2>1. JobOnly /\ result \in Results
    BY <1>1 DEF JobOnly, Results
  <2> QED BY <1>2, <2>1, EndsTyped
<1>4. Counted'
  BY <1>1, <1>3, MovedJob, JobCounted DEF Counted, JobMoves, JobOnly
<1>5. job'[j] = b /\ jobPc'[j] = "done"
  BY <1>3, MovedJob
<1>6. n.day = job[j].day /\ n.root = job[j].leaves /\ n.version = job[j].version
  OBVIOUS
<1> HIDE DEF n
<1>7. JobGood(j)'
  <2>1. Spared(j)'
    BY <1>1, <1>3, <1>5 DEF Spared, ChainHash
  <2> QED BY <1>2, <1>3, <1>5, <1>6, <2>1 DEF JobGood
<1>8. OneADay' /\ AnchorNamesItsObject'
  BY <1>1, <1>2, <1>6 DEF Anchored, OneADay, AnchorNamesItsObject, Named
<1>9. UNCHANGED <<table, damaged>> /\ \A k \in Jobs \ {j} : job'[k] = job[k] /\ jobPc'[k] = jobPc[k]
  BY <1>3, MovedJob
<1>10. anchors \subseteq anchors'
  BY <1>2
<1> QED BY <1>1, <1>4, <1>7, <1>8, <1>9, <1>10, OneMoves

LEMMA DiesKeeps ==
  ASSUME Counted, Anchored, NEW j \in Jobs, JobDies(j) PROVE Counted' /\ Anchored'
<1>1. jobPc[j] # "done" /\ job[j] \in Job /\ UNCHANGED <<anchors, bucket>>
      /\ JobMoves(j, job[j], "idle")
  BY DEF JobDies, JobGoto, JobMoves, JobOnly, JobPcs, Counted, TypeOK
<1>2. Counted'
  BY <1>1, MovedJob, JobCounted DEF Counted, JobMoves, JobOnly
<1>3. JobGood(j)'
  <2>1. job'[j] = job[j] /\ jobPc'[j] = "idle"
    BY <1>1, MovedJob
  <2>2. job[j].result = "none"
    BY <1>1 DEF Anchored, JobGood
  <2> QED BY <2>1, <2>2 DEF JobGood
<1>4. OneADay' /\ AnchorNamesItsObject'
  BY <1>1 DEF Anchored, OneADay, AnchorNamesItsObject
<1>5. UNCHANGED <<table, damaged>> /\ \A k \in Jobs \ {j} : job'[k] = job[k] /\ jobPc'[k] = jobPc[k]
  BY <1>1, MovedJob
<1> QED BY <1>1, <1>2, <1>3, <1>4, <1>5, OneMoves

LEMMA JobKeeps ==
  ASSUME Counted, Original, Anchored, NEW j \in Jobs, JobStep(j) \/ JobDies(j)
  PROVE  Counted' /\ Anchored'
BY CollectKeeps, VerifyKeeps, CompareKeeps, PutKeeps, InsertAnchorKeeps, DiesKeeps DEF JobStep

\* A row that was there may be gone or changed, but it is remembered.
LEMMA DamageKeeps ==
  ASSUME Counted, Anchored, NEW r \in table, Damage(r) PROVE Counted' /\ Anchored'
<1>1. /\ damaged' = damaged \union {r}
      /\ UNCHANGED <<lock, pc, txn, events, job, jobPc, anchors, bucket, day>>
  BY DEF Damage, anchoring
<1>2. r \in Row /\ table \subseteq Row /\ IsFiniteSet(table) /\ \A q \in table : q.seq <= events
  BY DEF Counted, TypeOK
<1>3. /\ table' \subseteq Row /\ IsFiniteSet(table') /\ \A q \in table' : q.seq <= events
      /\ table \ {r} \subseteq table'
  <2>1. IsFiniteSet(table \ {r})
    BY <1>2, FS_RemoveElement
  <2>2. CASE table' = table \ {r}
    BY <1>2, <2>1, <2>2
  <2>3. ASSUME NEW c \in Content, table' = (table \ {r}) \union {[r EXCEPT !.content = c]}
        PROVE  /\ table' \subseteq Row /\ IsFiniteSet(table') /\ \A q \in table' : q.seq <= events
               /\ table \ {r} \subseteq table'
    <3> DEFINE q == [r EXCEPT !.content = c]
    <3>1. q \in Row /\ q.seq = r.seq
      BY <1>2 DEF Row
    <3>2. table' = (table \ {r}) \union {q}
      BY <2>3
    <3> HIDE DEF q
    <3> QED BY <1>2, <2>1, <3>1, <3>2, FS_AddElement
  <2> QED BY <2>2, <2>3 DEF Damage
<1>4. Counted'
  BY <1>1, <1>2, <1>3 DEF Counted, TypeOK
<1>5. \A j \in Jobs : JobGood(j)'
  BY <1>1, <1>3, StaysGood DEF Anchored
<1> QED BY <1>1, <1>4, <1>5 DEF Anchored, OneADay, AnchorNamesItsObject

LEMMA WriterKeeps ==
  ASSUME Anchored, NEW w \in Writers, WriterStep(w) \/ Rollback(w)
  PROVE  Anchored'
<1>1. /\ UNCHANGED <<anchors, bucket, job, jobPc, damaged>> /\ table \subseteq table'
  BY DEF WriterStep, Lock, ReadLast, Insert, Commit, Rollback, anchoring
<1>2. \A j \in Jobs : JobGood(j)'
  BY <1>1, StaysGood DEF Anchored
<1> QED BY <1>1, <1>2 DEF Anchored, OneADay, AnchorNamesItsObject

\* The clock and the dossier.
LEMMA RestKeeps ==
  ASSUME Counted, Anchored, VerifyDossier \/ ReadDossier \/ Midnight \/ UNCHANGED vars
  PROVE  Counted' /\ Anchored'
<1>1. UNCHANGED <<appends, anchoring, damaged>> /\ day' \in Days
  BY AuditAssumption
     DEF VerifyDossier, ReadDossier, Midnight, vars, Counted, TypeOK, Days
<1>2. \A j \in Jobs : JobGood(j)'
  BY <1>1, StaysGood DEF Anchored, appends, anchoring
<1>3. Counted'
  BY <1>1 DEF Counted, TypeOK, appends, anchoring
<1> QED BY <1>1, <1>2, <1>3 DEF Anchored, OneADay, AnchorNamesItsObject, anchoring

LEMMA StepKeeps ==
  ASSUME Counted, Original, Anchored, [Next]_vars
  PROVE  Counted' /\ Original' /\ Anchored'
BY OriginalStep, WriterCounted, WriterKeeps, JobKeeps, DamageKeeps, RestKeeps DEF Next

\* Damage that was done before a run began does not pass it.
LEMMA AnchoredCatches == ASSUME Anchored PROVE DamageIsCaught
<1> SUFFICES ASSUME NEW j \in Jobs, NEW a \in anchors,
                    job[j].result \in {"anchored", "same", "open day"},
                    a.day = job[j].day, a.created > a.day,
                    NEW r \in job[j].damaged, r.hash = ChainHash(r), Covers(a, r)
             PROVE  FALSE
  BY DEF DamageIsCaught
<1>1. JobGood(j) /\ Spared(j)
  BY DEF Anchored, JobGood
<1>2. ASSUME job[j].result = "open day" PROVE FALSE
  <2>1. PICK b \in anchors : b.day = job[j].day /\ ~(b.created > b.day)
    BY <1>1, <1>2 DEF JobGood
  <2>2. a = b
    BY <2>1 DEF Anchored, OneADay
  <2> QED BY <2>1, <2>2
<1>3. PICK b \in anchors : b.day = job[j].day /\ b.root = job[j].leaves
  BY <1>1, <1>2 DEF JobGood
<1>4. a = b
  BY <1>3 DEF Anchored, OneADay
<1> QED BY <1>1, <1>3, <1>4 DEF Covers, Spared

----------------------------------------------------------------------------
(* What holds while no row is damaged: a transaction's rows come after the   *)
(* committed ones, a dossier's rows before whatever was committed since.     *)

Later ==
  \A w \in Writers, q \in table : \A r \in txn[w].rows : q.session = r.session => q.seq < r.seq

DossierGood ==
  \/ dossier.stage = "idle"
  \/ /\ dossier.stage = "verified" /\ dossier.session \in Sessions
     /\ dossier.verified \subseteq Events(dossier.session)
     /\ dossier.checked = Cardinality(dossier.verified)
     /\ \A q \in Events(dossier.session) \ dossier.verified, r \in dossier.verified : r.seq < q.seq
  \/ dossier.stage = "read" /\ dossier.trail = dossier.verified

Unbroken == \A j \in Jobs : job[j].result # "chain broken"

Undisturbed == Later /\ DossierGood /\ Unbroken

\* The rows that come before all others are the first ones.
LEMMA FirstAreBefore ==
  ASSUME NEW rows \in SUBSET Row, IsFiniteSet(rows), NEW V \in SUBSET rows,
         \A q \in rows \ V, r \in V : r.seq < q.seq
  PROVE  First(Cardinality(V), rows) = V
<1> DEFINE Before(r) == {q \in rows : q.seq < r.seq}
<1>1. \A r \in rows : r.seq \in Nat
  BY DEF Row
<1>2. IsFiniteSet(V) /\ Cardinality(V) \in Nat
  BY FS_Subset, FS_CardinalityType
<1>3. \A r \in rows : Before(r) \subseteq rows /\ IsFiniteSet(Before(r)) /\ Cardinality(Before(r)) \in Nat
  BY FS_Subset, FS_CardinalityType
<1>4. ASSUME NEW r \in V PROVE Cardinality(Before(r)) < Cardinality(V)
  <2>1. Before(r) \subseteq V \ {r}
    BY <1>1
  <2>2. IsFiniteSet(V \ {r}) /\ Cardinality(V \ {r}) = Cardinality(V) - 1
    BY <1>2, FS_RemoveElement
  <2>3. Cardinality(Before(r)) <= Cardinality(V \ {r})
    BY <2>1, <2>2, FS_Subset
  <2> HIDE DEF Before
  <2> QED BY <1>2, <1>3, <2>2, <2>3
<1>5. ASSUME NEW r \in rows \ V PROVE ~(Cardinality(Before(r)) < Cardinality(V))
  <2>1. V \subseteq Before(r)
    OBVIOUS
  <2>2. Cardinality(V) <= Cardinality(Before(r))
    BY <1>3, <2>1, FS_Subset
  <2> HIDE DEF Before
  <2> QED BY <1>2, <1>3, <2>2
<1> QED BY <1>4, <1>5 DEF First

\* An undamaged chain verifies.
LEMMA SoundVerifies == ASSUME Sound, NEW s \in Sessions PROVE Verifies(s)
<1>1. Linked(Events(s))
  BY DEF Sound, Chains, Events
<1> QED BY <1>1 DEF Verifies, Bad, Follows, Linked

LEMMA InitUndisturbed == Init => Undisturbed
<1> SUFFICES ASSUME Init PROVE Undisturbed
  OBVIOUS
<1>1. table = {} /\ dossier.stage = "idle" /\ \A j \in Jobs : job[j].result # "chain broken"
  BY DEF Init
<1> QED BY <1>1 DEF Undisturbed, Later, DossierGood, Unbroken

\* A job's step ends with a chain broken only if one is.
LEMMA JobUndisturbed ==
  ASSUME Counted, Sound, Undisturbed, NEW j \in Jobs, JobStep(j) \/ JobDies(j)
  PROVE  Undisturbed'
<1>1. UNCHANGED <<table, txn, dossier>>
  BY DEF JobStep, JobDies, Collect, VerifyChains, Compare, PutObject, InsertAnchor, appends
<1>2. Later' /\ DossierGood'
  BY <1>1 DEF Undisturbed, Later, DossierGood, Events
<1>3. \A l \in job[j].leaves : Verifies(l[1])
  <2>1. job[j].leaves \in SUBSET Leaf
    BY DEF Counted, TypeOK, Job
  <2>2. \A l \in Leaf : l[1] \in Sessions
    BY DEF Leaf
  <2> QED BY <2>1, <2>2, SoundVerifies
<1>4. job \in [Jobs -> Job] /\ \A k \in Jobs : job[k].result # "chain broken"
  BY DEF Counted, TypeOK, Undisturbed, Unbroken
<1>5. CASE Collect(j) \/ PutObject(j) \/ JobDies(j)
  <2>1. \A k \in Jobs : job'[k].result = job[k].result
    <3>1. CASE Collect(j)
      BY ONLY <1>4, <3>1 DEF Collect, Job
    <3>2. CASE PutObject(j)
      BY ONLY <1>4, <3>2 DEF PutObject, Job
    <3>3. CASE JobDies(j)
      BY ONLY <1>4, <3>3 DEF JobDies
    <3> QED BY <1>5, <3>1, <3>2, <3>3
  <2> QED BY <1>2, <1>4, <2>1 DEF Undisturbed, Unbroken
<1>6. CASE VerifyChains(j)
  <2>1. \A k \in Jobs : job'[k].result = job[k].result
    <3>1. job' = [job EXCEPT ![j].damaged =
                    IF job[j].damaged = damaged \ table THEN job[j].damaged ELSE {}]
      BY <1>3, <1>6 DEF VerifyChains
    <3> QED BY ONLY <1>4, <3>1, j \in Jobs DEF Job
  <2> QED BY <1>2, <1>4, <2>1 DEF Undisturbed, Unbroken
<1>7. CASE Compare(j) \/ InsertAnchor(j)
  <2>1. \A k \in Jobs : job'[k].result # "chain broken"
    BY <1>4, <1>7 DEF Compare, InsertAnchor, Ends, Job
  <2> QED BY <1>2, <2>1 DEF Undisturbed, Unbroken
<1> QED BY <1>5, <1>6, <1>7 DEF JobStep

LEMMA InsertedIsLast ==
  ASSUME Sound, NEW w \in Writers, pc[w] = "insert"
  PROVE  /\ NewRow(w).session = txn[w].session
         /\ \A q \in table : q.session = NewRow(w).session => q.seq < NewRow(w).seq
<1>1. txn[w].last = LastOf(Visible(w))
  BY DEF Sound, ReadIsLast
<1>2. NewRow(w).session = txn[w].session /\ NewRow(w).seq = LastOf(Visible(w)).seq + 1
  BY <1>1 DEF NewRow
<1>3. LastOf(Visible(w)).seq \in Nat /\ \A q \in Visible(w) : q.seq <= LastOf(Visible(w)).seq
  BY VisibleRows, LastIsLast
<1>4. \A q \in table : q.seq \in Nat /\ (q.session = txn[w].session => q \in Visible(w))
  BY DEF Sound, Typed, Row, Visible
<1> HIDE DEF LastOf
<1> QED BY <1>2, <1>3, <1>4

LEMMA WriterUndisturbed ==
  ASSUME Sound, Undisturbed, NEW w \in Writers, WriterStep(w) \/ Rollback(w)
  PROVE  Undisturbed'
<1>1. UNCHANGED <<job, dossier>> /\ txn \in [Writers -> Txn]
  BY DEF WriterStep, Lock, ReadLast, Insert, Commit, Rollback, anchoring, Sound, Typed
<1>2. Unbroken'
  BY <1>1 DEF Undisturbed, Unbroken
<1>3. CASE Lock(w) \/ ReadLast(w) \/ Rollback(w)
  <2>1. table' = table /\ \A v \in Writers : txn'[v].rows \subseteq txn[v].rows
    BY <1>1, <1>3 DEF Lock, ReadLast, Rollback, End, Txn
  <2> QED BY <1>1, <1>2, <2>1 DEF Undisturbed, Later, DossierGood, Events
<1>4. CASE Insert(w)
  <2> DEFINE r == NewRow(w)
  <2>1. table' = table /\ \A v \in Writers : txn'[v].rows \subseteq txn[v].rows \union {r}
    <3> HIDE DEF r
    <3>1. \/ txn' = txn
          \/ txn' = [txn EXCEPT ![w] = [txn[w] EXCEPT !.rows = txn[w].rows \union {r}, !.last = Empty]]
      BY <1>1, <1>4 DEF Insert, r, Txn
    <3>2. [txn[w] EXCEPT !.rows = txn[w].rows \union {r}, !.last = Empty].rows = txn[w].rows \union {r}
      BY <1>1 DEF Txn
    <3> QED BY <1>1, <1>4, <3>1, <3>2 DEF Insert
  <2>2. \A q \in table : q.session = r.session => q.seq < r.seq
    BY <1>4, InsertedIsLast DEF Insert
  <2> HIDE DEF r
  <2> QED BY <1>1, <1>2, <2>1, <2>2 DEF Undisturbed, Later, DossierGood, Events
<1>5. CASE Commit(w)
  <2>1. /\ table' = table \union txn[w].rows /\ txn'[w].rows = {} /\ pc[w] # "idle"
        /\ \A v \in Writers \ {w} : txn'[v] = txn[v]
    BY <1>1, <1>5 DEF Commit, End
  <2>2. Later'
    <3> SUFFICES ASSUME NEW v \in Writers, NEW q \in table', NEW r \in txn'[v].rows,
                        q.session = r.session
                 PROVE  q.seq < r.seq
      BY DEF Later
    <3>1. v # w /\ r \in txn[v].rows
      BY <2>1
    <3>2. q \notin txn[w].rows
      BY <2>1, <3>1, Apart DEF Sound, Own
    <3> QED BY <2>1, <3>1, <3>2 DEF Undisturbed, Later
  <2>3. DossierGood'
    <3>1. \A s : Events(s)' = Events(s) \union {r \in txn[w].rows : r.session = s}
      BY <2>1 DEF Events
    <3>2. \A s : \A r \in Events(s), q \in Events(s)' \ Events(s) : r.seq < q.seq
      BY <3>1 DEF Undisturbed, Later, Events
    <3> QED BY <1>1, <3>1, <3>2 DEF Undisturbed, DossierGood
  <2> QED BY <1>2, <2>2, <2>3 DEF Undisturbed
<1> QED BY <1>3, <1>4, <1>5 DEF WriterStep

LEMMA RestUndisturbed ==
  ASSUME Counted, Sound, Undisturbed, VerifyDossier \/ ReadDossier \/ Midnight \/ UNCHANGED vars
  PROVE  Undisturbed'
<1>1. UNCHANGED <<table, txn, job>>
  BY DEF VerifyDossier, ReadDossier, Midnight, vars, appends, anchoring
<1>2. Later' /\ Unbroken'
  BY <1>1 DEF Undisturbed, Later, Unbroken
<1>3. \A s : Events(s)' = Events(s)
  BY <1>1 DEF Events
<1>4. CASE VerifyDossier
  <2>1. PICK s \in Sessions :
          dossier' = [stage |-> "verified", session |-> s, verified |-> Events(s),
                      checked |-> Cardinality(Events(s))]
    BY <1>4 DEF VerifyDossier
  <2>2. DossierGood'
    BY <1>3, <2>1 DEF DossierGood
  <2> QED BY <1>2, <2>2 DEF Undisturbed
<1>5. CASE ReadDossier
  <2>1. /\ dossier.session \in Sessions /\ dossier.verified \subseteq Events(dossier.session)
        /\ dossier.checked = Cardinality(dossier.verified)
        /\ \A q \in Events(dossier.session) \ dossier.verified, r \in dossier.verified : r.seq < q.seq
    BY <1>5 DEF ReadDossier, Undisturbed, DossierGood
  <2>2. Events(dossier.session) \in SUBSET Row /\ IsFiniteSet(Events(dossier.session))
    <3>1. Events(dossier.session) \subseteq table /\ IsFiniteSet(table) /\ table \subseteq Row
      BY DEF Events, Counted, TypeOK
    <3> QED BY <3>1, FS_Subset
  <2>3. First(dossier.checked, Events(dossier.session)) = dossier.verified
    BY <2>1, <2>2, FirstAreBefore
  <2>4. dossier'.stage = "read" /\ dossier'.trail = dossier'.verified
    BY <1>5, <2>3 DEF ReadDossier
  <2> QED BY <1>2, <2>4 DEF Undisturbed, DossierGood
<1>6. CASE Midnight \/ UNCHANGED vars
  <2>1. dossier' = dossier
    BY <1>6 DEF Midnight, vars
  <2> QED BY <1>2, <1>3, <2>1 DEF Undisturbed, DossierGood
<1> QED BY <1>4, <1>5, <1>6

----------------------------------------------------------------------------
(* The theorems about verification. *)

VInv == Counted /\ Original /\ Anchored /\ IInv /\ (damaged = {} => Undisturbed)

LEMMA InitVInv == Init => VInv
BY InitCounted, InitOriginal, InitAnchored, InitIInv, InitUndisturbed DEF VInv

LEMMA StepVInv == VInv /\ [Next]_vars => VInv'
<1> SUFFICES ASSUME VInv, [Next]_vars PROVE VInv'
  OBVIOUS
<1>1. Counted' /\ Original' /\ Anchored' /\ IInv'
  BY StepKeeps, StepIInv DEF VInv
<1>2. ASSUME damaged' = {} PROVE Undisturbed'
  <2>1. CASE \E r \in table : Damage(r)
    BY <1>2, <2>1 DEF Damage
  <2>2. CASE \E w \in Writers : WriterStep(w) \/ Rollback(w)
    <3>1. damaged' = damaged
      BY <2>2 DEF WriterStep, Lock, ReadLast, Insert, Commit, Rollback
    <3> QED BY <1>2, <2>2, <3>1, WriterUndisturbed DEF VInv, IInv
  <2>3. CASE \E j \in Jobs : JobStep(j) \/ JobDies(j)
    <3>1. damaged' = damaged
      BY <2>3 DEF JobStep, JobDies, Collect, VerifyChains, Compare, PutObject, InsertAnchor
    <3> QED BY <1>2, <2>3, <3>1, JobUndisturbed DEF VInv, IInv
  <2>4. CASE VerifyDossier \/ ReadDossier \/ Midnight \/ UNCHANGED vars
    <3>1. damaged' = damaged
      BY <2>4 DEF VerifyDossier, ReadDossier, Midnight, vars
    <3> QED BY <1>2, <2>4, <3>1, RestUndisturbed DEF VInv, IInv
  <2> QED BY <2>1, <2>2, <2>3, <2>4 DEF Next
<1> QED BY <1>1, <1>2 DEF VInv

LEMMA VerificationInvariance == Spec => []VInv
BY InitVInv, StepVInv, PTL DEF Spec

\* The rows, the jobs' records and the clock stay of their types, damaged rows included.
THEOREM AuditTyped == Spec => []TypeOK
<1>1. VInv => TypeOK
  BY DEF VInv, Counted
<1> QED BY <1>1, VerificationInvariance, PTL

\* A run of the job that passes has lost nothing that was damaged before it began; it cries wolf over
\* no healthy chain; an anchor names its own object; a dossier holds what was verified.
THEOREM VerificationSound == Spec => []VerificationIsSound
<1>1. VInv => VerificationIsSound
  <2> SUFFICES ASSUME VInv PROVE VerificationIsSound
    OBVIOUS
  <2>1. DamageIsCaught /\ AnchorNamesItsObject
    BY AnchoredCatches DEF VInv, Anchored
  <2>2. NoFalseBreak
    BY DEF VInv, Undisturbed, Unbroken, NoFalseBreak
  <2>3. DossierIsVerified
    BY DEF VInv, Undisturbed, DossierGood, DossierIsVerified
  <2> QED BY <2>1, <2>2, <2>3 DEF VerificationIsSound
<1> QED BY <1>1, VerificationInvariance, PTL

============================================================================
