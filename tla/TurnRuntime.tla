---------------------------- MODULE TurnRuntime ----------------------------
(***************************************************************************)
(* Serving the turns of one session: graph/runtime.py around the nodes load,*)
(* commit and release of graph/nodes.py, over valkey (graph/gate.py), the   *)
(* conv and audit tables (store/conv.py) and the graph's checkpoint.        *)
(*                                                                         *)
(* A worker is one request or timer turn in one of the orchestrator's       *)
(* processes.  It takes the valkey lock, starts the graph (which reads the  *)
(* checkpoint), loads the session under a row lock, works, commits, releases*)
(* the reply, writes the checkpoint on the graph's exit and gives the lock   *)
(* back.  It may fail before the commit, lose its lock to the TTL while it   *)
(* still runs, or crash anywhere.                                           *)
(*                                                                         *)
(* Data abstraction: a session's state is the number of the turn that left  *)
(* it (0: no turn yet) and a status; a turn's rows and its RESPONSE_RELEASED *)
(* event, one transaction, are one entry of log; conv seq is 2 * Len(log).   *)
(***************************************************************************)
EXTENDS Naturals, Sequences, FiniteSets

CONSTANTS
  Workers,
  Keys,              \* the customers' idempotency keys
  Free, Orphan,      \* lock values: nobody; a turn that is gone
  MaxRequests,       \* bound: requests and timer turns started
  MaxFailures,       \* bound: crashes, failed turns and failed writes
  MaxLapses          \* bound: TTL expiries of a lock whose turn still runs

ASSUME TurnAssumption ==
  /\ Free \notin Workers /\ Orphan \notin Workers /\ Free # Orphan
  /\ Keys \intersect Nat = {}
  /\ MaxRequests \in Nat /\ MaxFailures \in Nat /\ MaxLapses \in Nat

VARIABLES
  log,               \* conv.turn with the audit chain's RESPONSE_RELEASED events
  checkpoint,        \* the session thread's latest checkpoint
  sessionLock,       \* lock:session:{id} in valkey
  rowLock,           \* who holds conv.session FOR UPDATE
  hints,             \* the keys with an idem:{key} hint
  released,          \* the replies that left, in an HTTP body or an SSE event
  pc, turn,          \* each worker's position and its Turn
  requests, failures, lapses

vars == <<log, checkpoint, sessionLock, rowLock, hints, released, pc, turn,
          requests, failures, lapses>>
bounds == <<requests, failures, lapses>>

Status == {"passive", "active", "paused", "ended"}    \* passive: active, without consent_id

\* The timer's key is the activity it was due from, here the number of the last turn.
AllKeys == Keys \union Nat

Checkpoint == [session : Nat, committed_seq : Nat]

Turn == [kind : {"customer", "timer"}, key : AllKeys, idle_since : Nat,
         state : Checkpoint,       \* the graph's state: as read, or as commit returns it
         base : Nat, in_seq : Nat, response : Nat]    \* response 0: none

Entry == [key : AllKeys, base : Nat, kind : {"customer", "timer"}, idle : Nat, status : Status]

\* A bug: the default state has no sequence number.
NoStateUnnumbered == [session |-> 0]

NoState == [session |-> 0, committed_seq |-> 0]

NewTurn(kind, key) ==
  [kind |-> kind, key |-> key, idle_since |-> Len(log), state |-> NoState,
   base |-> 0, in_seq |-> 0, response |-> 0]

StatusAfter(n) == IF n = 0 THEN "passive" ELSE log[n].status

\* What a turn may leave of a session whose status is st (session_status and consent_id).
StatusNext(kind, st) ==
  IF kind = "timer" THEN {IF st = "active" THEN "paused" ELSE st}
  ELSE CASE st = "passive" -> {"passive", "active", "ended"}
         [] st = "ended"   -> {"ended"}
         [] OTHER          -> {"active", "paused", "ended"}

Init ==
  /\ log = <<>>
  /\ checkpoint = NoState
  /\ sessionLock = Free /\ rowLock = Free
  /\ hints = {} /\ released = {}
  /\ pc = [w \in Workers |-> "idle"]
  /\ turn = [w \in Workers |-> NewTurn("customer", 0)]
  /\ requests = 0 /\ failures = 0 /\ lapses = 0

Goto(w, label) == pc' = [pc EXCEPT ![w] = label]

StillHolds(w) == sessionLock = w

----------------------------------------------------------------------------
(* Requests. *)

\* authenticate, then run_turn: a new key or a retry.
Request(w) ==
  /\ pc[w] = "idle" /\ requests < MaxRequests
  /\ \E k \in Keys : turn' = [turn EXCEPT ![w] = NewTurn("customer", k)]
  /\ Goto(w, "acquire")
  /\ requests' = requests + 1
  /\ UNCHANGED <<log, checkpoint, sessionLock, rowLock, hints, released, failures, lapses>>

\* timers.run_once selects a session, run_timer keys the turn by its last activity.
TimerDue(w) ==
  /\ pc[w] = "idle" /\ requests < MaxRequests
  /\ StatusAfter(Len(log)) = "active"
  /\ turn' = [turn EXCEPT ![w] = NewTurn("timer", Len(log))]
  /\ Goto(w, "acquire")
  /\ requests' = requests + 1
  /\ UNCHANGED <<log, checkpoint, sessionLock, rowLock, hints, released, failures, lapses>>

\* A bug: SET without NX.
AcquireAny(w) ==
  /\ pc[w] = "acquire"
  /\ sessionLock' = w
  /\ Goto(w, IF turn[w].kind = "timer" THEN "recheck" ELSE "limit")
  /\ UNCHANGED <<log, checkpoint, rowLock, hints, released, turn, bounds>>

\* SET NX PX; taken: 409.
Acquire(w) ==
  /\ pc[w] = "acquire"
  /\ \/ /\ sessionLock = Free
        /\ sessionLock' = w
        /\ Goto(w, IF turn[w].kind = "timer" THEN "recheck" ELSE "limit")
     \/ /\ sessionLock # Free
        /\ Goto(w, "idle")
        /\ UNCHANGED sessionLock
  /\ UNCHANGED <<log, checkpoint, rowLock, hints, released, turn, bounds>>

\* over_limit: 429.
RateLimit(w) ==
  /\ pc[w] = "limit"
  /\ \E over \in BOOLEAN : Goto(w, IF over THEN "unlock" ELSE "start")
  /\ UNCHANGED <<log, checkpoint, sessionLock, rowLock, hints, released, turn, bounds>>

\* A bug: only the status is looked at again.
RecheckStatus(w) ==
  /\ pc[w] = "recheck"
  /\ Goto(w, IF StatusAfter(Len(log)) = "active" THEN "start" ELSE "unlock")
  /\ UNCHANGED <<log, checkpoint, sessionLock, rowLock, hints, released, turn, bounds>>

\* A timer under the lock: still active, and no turn since it was selected?
Recheck(w) ==
  /\ pc[w] = "recheck"
  /\ Goto(w, IF StatusAfter(Len(log)) = "active" /\ Len(log) = turn[w].idle_since
             THEN "start" ELSE "unlock")
  /\ UNCHANGED <<log, checkpoint, sessionLock, rowLock, hints, released, turn, bounds>>

----------------------------------------------------------------------------
(* The graph run. *)

\* graph.ainvoke reads the thread's checkpoint before any node runs.
ReadCheckpoint(w) ==
  /\ pc[w] = "start"
  /\ turn' = [turn EXCEPT ![w].state = checkpoint]
  /\ Goto(w, "load")
  /\ UNCHANGED <<log, checkpoint, sessionLock, rowLock, hints, released, bounds>>

\* Bugs: the hint is taken for the record; the last response is replayed for any key.
CommittedHinted(k) == k \in hints /\ \E i \in DOMAIN log : log[i].key = k
EntryOfLast(k) == Len(log)

Committed(k) == \E i \in DOMAIN log : log[i].key = k
EntryOf(k) == CHOOSE i \in DOMAIN log : log[i].key = k

\* A bug: the checkpoint is not compared with conv.
LoadBaseUncompared(state) == IF state.session # 0 THEN state.session ELSE Len(log)

\* The checkpoint is the session's state only if it is as recent as conv; else _hydrate.
LoadBase(state) ==
  IF state.session # 0 /\ state.committed_seq = Len(log) THEN state.session ELSE Len(log)

\* SELECT ... FOR UPDATE NOWAIT fails: 409, but the graph still exits.
LoadRefused(w) ==
  /\ pc[w] = "load" /\ rowLock # Free
  /\ Goto(w, "exit")
  /\ UNCHANGED <<log, checkpoint, sessionLock, rowLock, hints, released, turn, bounds>>

\* The key's turn was committed: its response, from the record.
LoadReplay(w) ==
  /\ pc[w] = "load" /\ rowLock = Free /\ Committed(turn[w].key)
  /\ turn' = [turn EXCEPT ![w].response = EntryOf(turn[w].key)]
  /\ Goto(w, "exit")
  /\ UNCHANGED <<log, checkpoint, sessionLock, rowLock, hints, released, bounds>>

\* Bugs: no row lock; the hint set before the commit; the graph's state updated before it.
LoadUnlocked(w) ==
  /\ pc[w] = "load" /\ ~Committed(turn[w].key) /\ turn[w].key \notin hints
  /\ rowLock' = w
  /\ turn' = [turn EXCEPT ![w].base = LoadBase(turn[w].state), ![w].in_seq = Len(log) + 1]
  /\ Goto(w, "work")
  /\ UNCHANGED <<log, checkpoint, sessionLock, hints, released, bounds>>
LoadHinting(w) ==
  /\ pc[w] = "load" /\ rowLock = Free /\ ~Committed(turn[w].key)
  /\ hints' = hints \union {turn[w].key}
  /\ rowLock' = w
  /\ turn' = [turn EXCEPT ![w].base = LoadBase(turn[w].state), ![w].in_seq = Len(log) + 1]
  /\ Goto(w, "work")
  /\ UNCHANGED <<log, checkpoint, sessionLock, released, bounds>>
LoadUpdating(w) ==
  /\ pc[w] = "load" /\ rowLock = Free /\ ~Committed(turn[w].key)
  /\ rowLock' = w
  /\ turn' = [turn EXCEPT ![w].base = LoadBase(turn[w].state), ![w].in_seq = Len(log) + 1,
                          ![w].state = [session |-> Len(log) + 1, committed_seq |-> Len(log) + 1]]
  /\ Goto(w, "work")
  /\ UNCHANGED <<log, checkpoint, sessionLock, hints, released, bounds>>

\* A new key.  A hint without a committed turn would be refused (503).
Load(w) ==
  /\ pc[w] = "load" /\ rowLock = Free /\ ~Committed(turn[w].key)
  /\ turn[w].key \notin hints
  /\ rowLock' = w
  /\ turn' = [turn EXCEPT ![w].base = LoadBase(turn[w].state), ![w].in_seq = Len(log) + 1]
  /\ Goto(w, "work")
  /\ UNCHANGED <<log, checkpoint, sessionLock, hints, released, bounds>>

\* One transaction; UNIQUE (session_id, seq) is the last line.
Commit(w) ==
  /\ pc[w] = "work" /\ turn[w].in_seq = Len(log) + 1
  /\ \E st \in StatusNext(turn[w].kind, StatusAfter(turn[w].base)) :
       log' = Append(log, [key |-> turn[w].key, base |-> turn[w].base, kind |-> turn[w].kind,
                           idle |-> turn[w].idle_since, status |-> st])
  /\ turn' = [turn EXCEPT
                ![w].state = [session |-> turn[w].base + 1, committed_seq |-> turn[w].in_seq],
                ![w].response = turn[w].in_seq]
  /\ rowLock' = Free
  /\ Goto(w, "release")
  /\ UNCHANGED <<checkpoint, sessionLock, hints, released, bounds>>

\* set_idem and the SSE event; an error of either is only logged.
Release(w) ==
  /\ pc[w] = "release"
  /\ hints' \in {hints, hints \union {turn[w].key}}
  /\ released' = released \union {[key |-> turn[w].key, reply |-> turn[w].response]}
  /\ Goto(w, "exit")
  /\ UNCHANGED <<log, checkpoint, sessionLock, rowLock, turn, bounds>>

\* durability="exit": the graph's state, whatever became of the turn.
WriteCheckpoint(w) ==
  /\ pc[w] = "exit"
  /\ checkpoint' = turn[w].state
  /\ Goto(w, "unlock")
  /\ UNCHANGED <<log, sessionLock, rowLock, hints, released, turn, bounds>>

\* The finally of _run (compare and delete), then the HTTP response.
Unlock(w) ==
  /\ pc[w] = "unlock"
  /\ sessionLock' = IF StillHolds(w) THEN Free ELSE sessionLock
  /\ released' = IF turn[w].response = 0 THEN released
                 ELSE released \union {[key |-> turn[w].key, reply |-> turn[w].response]}
  /\ Goto(w, "idle")
  /\ UNCHANGED <<log, checkpoint, rowLock, hints, turn, bounds>>

----------------------------------------------------------------------------
(* Failures. *)

Abandoned(w) == IF StillHolds(w) THEN Orphan ELSE sessionLock

Failing == failures < MaxFailures /\ failures' = failures + 1

\* A dependency, a timeout or a bug before the commit: rolled back, 503.
FailTurn(w) ==
  /\ Failing
  /\ pc[w] \in {"load", "work"}
  /\ rowLock' = IF rowLock = w THEN Free ELSE rowLock
  /\ Goto(w, "exit")
  /\ UNCHANGED <<log, checkpoint, sessionLock, hints, released, turn, requests, lapses>>

\* The checkpoint's write or the lock's release fails: the turn's outcome stands.
FailWrite(w) ==
  /\ Failing
  /\ \/ /\ pc[w] = "exit"
        /\ Goto(w, "unlock")
        /\ UNCHANGED <<sessionLock, released>>
     \/ /\ pc[w] = "unlock"
        /\ sessionLock' = Abandoned(w)
        /\ released' = IF turn[w].response = 0 THEN released
                       ELSE released \union {[key |-> turn[w].key, reply |-> turn[w].response]}
        /\ Goto(w, "idle")
  /\ UNCHANGED <<log, checkpoint, rowLock, hints, turn, requests, lapses>>

\* The process dies: its transaction rolls back, its valkey lock stays until the TTL.
Crash(w) ==
  /\ Failing
  /\ pc[w] # "idle"
  /\ sessionLock' = Abandoned(w)
  /\ rowLock' = IF rowLock = w THEN Free ELSE rowLock
  /\ Goto(w, "idle")
  /\ UNCHANGED <<log, checkpoint, hints, released, turn, requests, lapses>>

\* A bug: SET NX without PX.
ExpireNever == FALSE

\* The lock's TTL ends, while its turn still runs or after it is gone.
Expire ==
  /\ sessionLock # Free
  /\ \/ sessionLock = Orphan /\ UNCHANGED lapses
     \/ sessionLock # Orphan /\ lapses < MaxLapses /\ lapses' = lapses + 1
  /\ sessionLock' = Free
  /\ UNCHANGED <<log, checkpoint, rowLock, hints, released, pc, turn, requests, failures>>

\* idempotency_ttl_s, or valkey restarted.
LoseHint ==
  /\ \E k \in hints : hints' = hints \ {k}
  /\ UNCHANGED <<log, checkpoint, sessionLock, rowLock, released, pc, turn, bounds>>

Step(w) ==
  \/ Acquire(w) \/ RateLimit(w) \/ Recheck(w) \/ ReadCheckpoint(w)
  \/ LoadRefused(w) \/ LoadReplay(w) \/ Load(w) \/ Commit(w) \/ Release(w)
  \/ WriteCheckpoint(w) \/ Unlock(w)

Next ==
  \/ \E w \in Workers : Request(w) \/ TimerDue(w) \/ Step(w)
  \/ \E w \in Workers : FailTurn(w) \/ FailWrite(w) \/ Crash(w)
  \/ Expire \/ LoseHint

Spec == Init /\ [][Next]_vars

\* A started turn runs on (asyncio schedules it) unless it crashes, and a TTL ends.
Fairness == WF_vars(Expire) /\ \A w \in Workers : WF_vars(Step(w))

FairSpec == Spec /\ Fairness

----------------------------------------------------------------------------
(* Properties. *)

TypeOK ==
  /\ log \in Seq(Entry)
  /\ checkpoint \in Checkpoint
  /\ sessionLock \in Workers \union {Free, Orphan} /\ rowLock \in Workers \union {Free}
  /\ hints \subseteq AllKeys
  /\ released \subseteq [key : AllKeys, reply : Nat]
  /\ pc \in [Workers -> {"idle", "acquire", "limit", "recheck", "start", "load", "work",
                         "release", "exit", "unlock"}]
  /\ turn \in [Workers -> Turn]
  /\ requests \in Nat /\ failures \in Nat /\ lapses \in Nat

\* Every committed turn was decided on the state of the turn before it, whichever process ran it,
\* however stale the checkpoint it read and even if its valkey lock had lapsed (hydration).
NoLostUpdate == \A i \in DOMAIN log : log[i].base = i - 1

\* A retried Idempotency-Key never commits a second turn, with or without its hint.
OncePerKey == \A i, j \in DOMAIN log : log[i].key = log[j].key => i = j

\* I8 and byte-identical replay: whatever left, over HTTP or SSE, is the reply of a committed turn
\* of that key; with OncePerKey, always the same one.
ReleasedIsCommitted ==
  \A r \in released : r.reply \in DOMAIN log /\ log[r.reply].key = r.key

\* A valkey hint is only ever set for a committed turn, so load's 503 for a hint without a record
\* never hits an honest retry.
HintIsCommitted == \A k \in hints : Committed(k)

\* The row lock keeps one writer in the turn's transaction (and its model and domain calls), even
\* when the valkey lock lapsed and two turns run.
OneWriter == \A v, w \in Workers : pc[v] = "work" /\ pc[w] = "work" => v = w

\* decisions.md: the checkpoint is written after the commit, so it is never ahead of conv, and a
\* checkpoint that claims a turn holds exactly the state that turn left.
CheckpointNeverAhead ==
  /\ checkpoint.committed_seq <= Len(log)
  /\ checkpoint.session = checkpoint.committed_seq

\* run_timer: "a turn since then means the session is not idle": as long as locks hold, a timer turn
\* only ever lands directly on the turn it was due from, in an active session after consent.
TimerOnlyIdle ==
  lapses = 0 => \A i \in DOMAIN log : log[i].kind = "timer" =>
    log[i].idle = i - 1 /\ StatusAfter(i - 1) = "active"

\* Lost updates, double turns, replies nobody committed, hints nobody earned, two writers, a
\* checkpoint ahead of its session and a timer in a busy one: none, through crashes, failed writes,
\* retries and a lapsed lock.
TurnsAreConsistent ==
  /\ NoLostUpdate /\ OncePerKey /\ ReleasedIsCommitted /\ HintIsCommitted
  /\ OneWriter /\ CheckpointNeverAhead /\ TimerOnlyIdle

\* architecture.md: a refused concurrent turn never reaches the graph, so the checkpoint it would
\* write on exit never overwrites a later one, as long as no lock lapses under its turn.
CheckpointAdvances ==
  [][lapses = 0 => checkpoint'.committed_seq >= checkpoint.committed_seq]_vars

\* The runtime implements the abstract log of turns.
Promise == INSTANCE TurnLog WITH log <- log, released <- released
ImplementsTurnLog == Promise!LogSpec

\* Whoever held the session's lock, a crashed turn included, the session is open again later: no
\* turn waits for a record or a lock for ever, and a dead holder's lock ends with its TTL.
SessionReopens == sessionLock # Free ~> sessionLock = Free

=============================================================================
