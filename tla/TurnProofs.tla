----------------------------- MODULE TurnProofs -----------------------------
(***************************************************************************)
(* The safety of serving turns, for every number of workers, keys,          *)
(* failures and lapses of the valkey lock.  For what conv holds and what     *)
(* leaves, that lock is not part of the argument: the row lock, the          *)
(* comparison of the checkpoint with conv and the replay check carry it.  It *)
(* is what keeps timers to idle sessions and the checkpoint from going back. *)
(***************************************************************************)
EXTENDS TurnRuntime, TLAPS

----------------------------------------------------------------------------
(* The inductive invariant. *)

\* The row lock is held exactly by the worker inside the turn's transaction.
RowLocked == \A w \in Workers : pc[w] = "work" <=> rowLock = w

\* That worker is on top of the log, with a new key.
OnTop ==
  \A w \in Workers : pc[w] = "work" =>
    /\ turn[w].base = Len(log) /\ turn[w].in_seq = Len(log) + 1
    /\ ~Committed(turn[w].key)

\* A checkpoint, in the store or in a graph's memory, is the state some committed turn left.
Past(state) == state.session = state.committed_seq /\ state.committed_seq <= Len(log)

ResponseOf(w) ==
  /\ turn[w].response # 0 =>
       turn[w].response \in DOMAIN log /\ log[turn[w].response].key = turn[w].key
  /\ pc[w] = "release" => turn[w].response # 0

Memory == Past(checkpoint) /\ \A w \in Workers : Past(turn[w].state) /\ ResponseOf(w)

IInv ==
  /\ TypeOK /\ RowLocked /\ OnTop /\ Memory
  /\ NoLostUpdate /\ OncePerKey /\ ReleasedIsCommitted /\ HintIsCommitted

----------------------------------------------------------------------------
(* Types. *)

LEMMA InitIInv == Init => IInv
BY TurnAssumption DEF Init, IInv, TypeOK, RowLocked, OnTop, Memory, Past, ResponseOf, NoLostUpdate,
   OncePerKey, ReleasedIsCommitted, HintIsCommitted, Committed, NewTurn, NoState, Checkpoint, Turn,
   AllKeys, Entry

LEMMA NewTurnTyped ==
  ASSUME TypeOK, NEW kind \in {"customer", "timer"}, NEW key \in AllKeys
  PROVE  NewTurn(kind, key) \in Turn
BY DEF TypeOK, NewTurn, NoState, Turn, Checkpoint

LEMMA StatusTyped ==
  ASSUME TypeOK, NEW n \in 0..Len(log)
  PROVE  StatusAfter(n) \in Status
<1>1. CASE n = 0
  BY <1>1 DEF StatusAfter, Status
<1>2. CASE n # 0
  <2>1. log[n] \in Entry
    BY <1>2 DEF TypeOK
  <2> QED
    BY <1>2, <2>1 DEF StatusAfter, Entry
<1> QED
  BY <1>1, <1>2

\* What the turn's commit appends is an entry.
LEMMA StatusNextTyped ==
  ASSUME NEW kind, NEW st \in Status
  PROVE  StatusNext(kind, st) \subseteq Status
BY DEF StatusNext, Status

----------------------------------------------------------------------------
(* One lemma per action. *)

LEMMA RequestIInv ==
  ASSUME IInv, NEW w \in Workers, Request(w)
  PROVE  IInv'
<1> USE DEF IInv
<1>1. TypeOK'
  <2>1. PICK k \in Keys : turn' = [turn EXCEPT ![w] = NewTurn("customer", k)]
    BY DEF Request
  <2>2. NewTurn("customer", k) \in Turn
    BY NewTurnTyped DEF AllKeys
  <2> QED
    BY <2>1, <2>2 DEF Request, TypeOK, Goto
<1>2. RowLocked'
  BY DEF Request, TypeOK, RowLocked, Goto
<1>3. OnTop'
  BY DEF Request, TypeOK, OnTop, RowLocked, Goto, Committed
<1>4. Memory'
  BY DEF Request, TypeOK, Memory, Past, ResponseOf, Goto, NewTurn, NoState
<1>5. NoLostUpdate' /\ OncePerKey'
  BY DEF Request, NoLostUpdate, OncePerKey
<1>6. ReleasedIsCommitted' /\ HintIsCommitted'
  BY DEF Request, ReleasedIsCommitted, HintIsCommitted, Committed
<1> QED
  BY <1>1, <1>2, <1>3, <1>4, <1>5, <1>6

LEMMA TimerDueIInv ==
  ASSUME IInv, NEW w \in Workers, TimerDue(w)
  PROVE  IInv'
<1> USE DEF IInv
<1>1. TypeOK'
  <2>1. NewTurn("timer", Len(log)) \in Turn
    BY NewTurnTyped DEF AllKeys, TypeOK
  <2> QED
    BY <2>1 DEF TimerDue, TypeOK, Goto
<1>2. RowLocked'
  BY DEF TimerDue, TypeOK, RowLocked, Goto
<1>3. OnTop'
  BY DEF TimerDue, TypeOK, OnTop, RowLocked, Goto, Committed
<1>4. Memory'
  BY DEF TimerDue, TypeOK, Memory, Past, ResponseOf, Goto, NewTurn, NoState
<1>5. NoLostUpdate' /\ OncePerKey'
  BY DEF TimerDue, NoLostUpdate, OncePerKey
<1>6. ReleasedIsCommitted' /\ HintIsCommitted'
  BY DEF TimerDue, ReleasedIsCommitted, HintIsCommitted, Committed
<1> QED
  BY <1>1, <1>2, <1>3, <1>4, <1>5, <1>6

LEMMA AcquireIInv ==
  ASSUME IInv, NEW w \in Workers, Acquire(w)
  PROVE  IInv'
<1> USE DEF IInv
<1>1. TypeOK'
  BY DEF Acquire, TypeOK, Goto, bounds
<1>2. RowLocked'
  BY DEF Acquire, TypeOK, RowLocked, Goto, bounds
<1>3. OnTop'
  BY DEF Acquire, TypeOK, OnTop, RowLocked, Goto, Committed, bounds
<1>4. Memory'
  BY DEF Acquire, TypeOK, Memory, Past, ResponseOf, Goto, bounds
<1>5. NoLostUpdate' /\ OncePerKey'
  BY DEF Acquire, NoLostUpdate, OncePerKey, bounds
<1>6. ReleasedIsCommitted' /\ HintIsCommitted'
  BY DEF Acquire, ReleasedIsCommitted, HintIsCommitted, Committed, bounds
<1> QED
  BY <1>1, <1>2, <1>3, <1>4, <1>5, <1>6

LEMMA RateLimitIInv ==
  ASSUME IInv, NEW w \in Workers, RateLimit(w)
  PROVE  IInv'
<1> USE DEF IInv
<1>1. TypeOK'
  BY DEF RateLimit, TypeOK, Goto, bounds
<1>2. RowLocked'
  BY DEF RateLimit, TypeOK, RowLocked, Goto, bounds
<1>3. OnTop'
  BY DEF RateLimit, TypeOK, OnTop, RowLocked, Goto, Committed, bounds
<1>4. Memory'
  BY DEF RateLimit, TypeOK, Memory, Past, ResponseOf, Goto, bounds
<1>5. NoLostUpdate' /\ OncePerKey'
  BY DEF RateLimit, NoLostUpdate, OncePerKey, bounds
<1>6. ReleasedIsCommitted' /\ HintIsCommitted'
  BY DEF RateLimit, ReleasedIsCommitted, HintIsCommitted, Committed, bounds
<1> QED
  BY <1>1, <1>2, <1>3, <1>4, <1>5, <1>6

LEMMA RecheckIInv ==
  ASSUME IInv, NEW w \in Workers, Recheck(w)
  PROVE  IInv'
<1> USE DEF IInv
<1>1. TypeOK'
  BY DEF Recheck, TypeOK, Goto, bounds
<1>2. RowLocked'
  BY DEF Recheck, TypeOK, RowLocked, Goto, bounds
<1>3. OnTop'
  BY DEF Recheck, TypeOK, OnTop, RowLocked, Goto, Committed, bounds
<1>4. Memory'
  BY DEF Recheck, TypeOK, Memory, Past, ResponseOf, Goto, bounds
<1>5. NoLostUpdate' /\ OncePerKey'
  BY DEF Recheck, NoLostUpdate, OncePerKey, bounds
<1>6. ReleasedIsCommitted' /\ HintIsCommitted'
  BY DEF Recheck, ReleasedIsCommitted, HintIsCommitted, Committed, bounds
<1> QED
  BY <1>1, <1>2, <1>3, <1>4, <1>5, <1>6

LEMMA ReadCheckpointIInv ==
  ASSUME IInv, NEW w \in Workers, ReadCheckpoint(w)
  PROVE  IInv'
<1> USE DEF IInv
<1>1. TypeOK'
  <2>1. [turn[w] EXCEPT !.state = checkpoint] \in Turn
    BY DEF TypeOK, Turn
  <2> QED
    BY <2>1 DEF ReadCheckpoint, TypeOK, Goto, bounds
<1>2. RowLocked'
  BY DEF ReadCheckpoint, TypeOK, RowLocked, Goto, bounds
<1>3. OnTop'
  BY DEF ReadCheckpoint, TypeOK, OnTop, RowLocked, Goto, Committed, bounds
<1>4. Memory'
  BY DEF ReadCheckpoint, TypeOK, Memory, Past, ResponseOf, Goto, bounds
<1>5. NoLostUpdate' /\ OncePerKey'
  BY DEF ReadCheckpoint, NoLostUpdate, OncePerKey, bounds
<1>6. ReleasedIsCommitted' /\ HintIsCommitted'
  BY DEF ReadCheckpoint, ReleasedIsCommitted, HintIsCommitted, Committed, bounds
<1> QED
  BY <1>1, <1>2, <1>3, <1>4, <1>5, <1>6

LEMMA LoadRefusedIInv ==
  ASSUME IInv, NEW w \in Workers, LoadRefused(w)
  PROVE  IInv'
<1> USE DEF IInv
<1>1. TypeOK'
  BY DEF LoadRefused, TypeOK, Goto, bounds
<1>2. RowLocked'
  BY DEF LoadRefused, TypeOK, RowLocked, Goto, bounds
<1>3. OnTop'
  BY DEF LoadRefused, TypeOK, OnTop, RowLocked, Goto, Committed, bounds
<1>4. Memory'
  BY DEF LoadRefused, TypeOK, Memory, Past, ResponseOf, Goto, bounds
<1>5. NoLostUpdate' /\ OncePerKey'
  BY DEF LoadRefused, NoLostUpdate, OncePerKey, bounds
<1>6. ReleasedIsCommitted' /\ HintIsCommitted'
  BY DEF LoadRefused, ReleasedIsCommitted, HintIsCommitted, Committed, bounds
<1> QED
  BY <1>1, <1>2, <1>3, <1>4, <1>5, <1>6

LEMMA LoadReplayIInv ==
  ASSUME IInv, NEW w \in Workers, LoadReplay(w)
  PROVE  IInv'
<1> USE DEF IInv
<1>1. EntryOf(turn[w].key) \in DOMAIN log /\ log[EntryOf(turn[w].key)].key = turn[w].key
  BY DEF LoadReplay, Committed, EntryOf
<1>2. TypeOK'
  <2>1. EntryOf(turn[w].key) \in Nat
    BY <1>1 DEF TypeOK
  <2>2. [turn[w] EXCEPT !.response = EntryOf(turn[w].key)] \in Turn
    BY <2>1 DEF TypeOK, Turn
  <2> QED
    BY <2>2 DEF LoadReplay, TypeOK, Goto, bounds
<1>3. RowLocked'
  BY DEF LoadReplay, TypeOK, RowLocked, Goto, bounds
<1>4. OnTop'
  BY <1>1 DEF LoadReplay, TypeOK, OnTop, RowLocked, Goto, Committed, bounds
<1>5. Memory'
  BY <1>1 DEF LoadReplay, TypeOK, Memory, Past, ResponseOf, Goto, bounds
<1>6. NoLostUpdate' /\ OncePerKey'
  BY DEF LoadReplay, NoLostUpdate, OncePerKey, bounds
<1>7. ReleasedIsCommitted' /\ HintIsCommitted'
  BY DEF LoadReplay, ReleasedIsCommitted, HintIsCommitted, Committed, bounds
<1> QED
  BY <1>2, <1>3, <1>4, <1>5, <1>6, <1>7

LEMMA LoadIInv ==
  ASSUME IInv, NEW w \in Workers, Load(w)
  PROVE  IInv'
<1> USE DEF IInv
<1>1. LoadBase(turn[w].state) = Len(log)
  BY DEF LoadBase, Memory, Past
<1>2. TypeOK'
  <2>1. [turn[w] EXCEPT !.base = Len(log), !.in_seq = Len(log) + 1] \in Turn
    <3> DEFINE based == [turn[w] EXCEPT !.base = Len(log)]
    <3>1. Len(log) \in Nat /\ turn[w] \in Turn
      BY DEF TypeOK
    <3>2. based \in Turn
      BY <3>1 DEF Turn
    <3>3. [turn[w] EXCEPT !.base = Len(log), !.in_seq = Len(log) + 1]
            = [based EXCEPT !.in_seq = Len(log) + 1]
      OBVIOUS
    <3> HIDE DEF based
    <3>4. [based EXCEPT !.in_seq = Len(log) + 1] \in Turn
      BY <3>1, <3>2 DEF Turn
    <3> QED
      BY <3>3, <3>4
  <2>2. turn' = [turn EXCEPT ![w] = [turn[w] EXCEPT !.base = Len(log), !.in_seq = Len(log) + 1]]
    BY <1>1 DEF Load, TypeOK, Turn
  <2> QED
    BY <2>1, <2>2 DEF Load, TypeOK, Goto, bounds
<1>3. RowLocked'
  BY TurnAssumption DEF Load, TypeOK, RowLocked, Goto, bounds
<1>4. OnTop'
  BY <1>1 DEF Load, TypeOK, OnTop, RowLocked, Goto, Committed, bounds
<1>5. Memory'
  BY <1>1 DEF Load, TypeOK, Memory, Past, ResponseOf, Goto, bounds
<1>6. NoLostUpdate' /\ OncePerKey'
  BY DEF Load, NoLostUpdate, OncePerKey, bounds
<1>7. ReleasedIsCommitted' /\ HintIsCommitted'
  BY DEF Load, ReleasedIsCommitted, HintIsCommitted, Committed, bounds
<1> QED
  BY <1>2, <1>3, <1>4, <1>5, <1>6, <1>7

LEMMA ReleaseIInv ==
  ASSUME IInv, NEW w \in Workers, Release(w)
  PROVE  IInv'
<1> USE DEF IInv
<1>1. TypeOK'
  <2>1. turn[w].key \in AllKeys /\ turn[w].response \in Nat
    BY DEF TypeOK, Turn
  <2> QED
    BY <2>1 DEF Release, TypeOK, Goto, bounds
<1>2. RowLocked'
  BY DEF Release, TypeOK, RowLocked, Goto, bounds
<1>3. OnTop'
  BY DEF Release, TypeOK, OnTop, RowLocked, Goto, Committed, bounds
<1>4. Memory'
  BY DEF Release, TypeOK, Memory, Past, ResponseOf, Goto, bounds
<1>5. NoLostUpdate' /\ OncePerKey'
  BY DEF Release, NoLostUpdate, OncePerKey, bounds
<1>6. ReleasedIsCommitted' /\ HintIsCommitted'
  BY DEF Release, ReleasedIsCommitted, HintIsCommitted, Committed, Memory, ResponseOf, TypeOK,
     bounds
<1> QED
  BY <1>1, <1>2, <1>3, <1>4, <1>5, <1>6

LEMMA WriteCheckpointIInv ==
  ASSUME IInv, NEW w \in Workers, WriteCheckpoint(w)
  PROVE  IInv'
<1> USE DEF IInv
<1>1. TypeOK'
  <2>1. turn[w].state \in Checkpoint
    BY DEF TypeOK, Turn
  <2> QED
    BY <2>1 DEF WriteCheckpoint, TypeOK, Goto, bounds
<1>2. RowLocked'
  BY DEF WriteCheckpoint, TypeOK, RowLocked, Goto, bounds
<1>3. OnTop'
  BY DEF WriteCheckpoint, TypeOK, OnTop, RowLocked, Goto, Committed, bounds
<1>4. Memory'
  BY DEF WriteCheckpoint, TypeOK, Memory, Past, ResponseOf, Goto, bounds
<1>5. NoLostUpdate' /\ OncePerKey'
  BY DEF WriteCheckpoint, NoLostUpdate, OncePerKey, bounds
<1>6. ReleasedIsCommitted' /\ HintIsCommitted'
  BY DEF WriteCheckpoint, ReleasedIsCommitted, HintIsCommitted, Committed, bounds
<1> QED
  BY <1>1, <1>2, <1>3, <1>4, <1>5, <1>6

LEMMA UnlockIInv ==
  ASSUME IInv, NEW w \in Workers, Unlock(w)
  PROVE  IInv'
<1> USE DEF IInv
<1>1. TypeOK'
  <2>1. turn[w].key \in AllKeys /\ turn[w].response \in Nat
    BY DEF TypeOK, Turn
  <2> QED
    BY <2>1 DEF Unlock, TypeOK, Goto, StillHolds, bounds
<1>2. RowLocked'
  BY DEF Unlock, TypeOK, RowLocked, Goto, bounds
<1>3. OnTop'
  BY DEF Unlock, TypeOK, OnTop, RowLocked, Goto, Committed, bounds
<1>4. Memory'
  BY DEF Unlock, TypeOK, Memory, Past, ResponseOf, Goto, bounds
<1>5. NoLostUpdate' /\ OncePerKey'
  BY DEF Unlock, NoLostUpdate, OncePerKey, bounds
<1>6. ReleasedIsCommitted' /\ HintIsCommitted'
  BY DEF Unlock, ReleasedIsCommitted, HintIsCommitted, Committed, Memory, ResponseOf, TypeOK,
     bounds
<1> QED
  BY <1>1, <1>2, <1>3, <1>4, <1>5, <1>6

LEMMA FailTurnIInv ==
  ASSUME IInv, NEW w \in Workers, FailTurn(w)
  PROVE  IInv'
<1> USE DEF IInv
<1>1. TypeOK'
  BY DEF FailTurn, TypeOK, Goto, Failing
<1>2. RowLocked'
  BY TurnAssumption DEF FailTurn, TypeOK, RowLocked, Goto, Failing
<1>3. OnTop'
  BY DEF FailTurn, TypeOK, OnTop, RowLocked, Goto, Committed, Failing
<1>4. Memory'
  BY DEF FailTurn, TypeOK, Memory, Past, ResponseOf, Goto, Failing
<1>5. NoLostUpdate' /\ OncePerKey'
  BY DEF FailTurn, NoLostUpdate, OncePerKey, Failing
<1>6. ReleasedIsCommitted' /\ HintIsCommitted'
  BY DEF FailTurn, ReleasedIsCommitted, HintIsCommitted, Committed, Failing
<1> QED
  BY <1>1, <1>2, <1>3, <1>4, <1>5, <1>6

LEMMA FailWriteIInv ==
  ASSUME IInv, NEW w \in Workers, FailWrite(w)
  PROVE  IInv'
<1> USE DEF IInv
<1>1. TypeOK'
  <2>1. turn[w].key \in AllKeys /\ turn[w].response \in Nat
    BY DEF TypeOK, Turn
  <2> QED
    BY <2>1 DEF FailWrite, TypeOK, Goto, Failing, Abandoned, StillHolds
<1>2. RowLocked'
  BY DEF FailWrite, TypeOK, RowLocked, Goto, Failing
<1>3. OnTop'
  BY DEF FailWrite, TypeOK, OnTop, RowLocked, Goto, Committed, Failing
<1>4. Memory'
  BY DEF FailWrite, TypeOK, Memory, Past, ResponseOf, Goto, Failing
<1>5. NoLostUpdate' /\ OncePerKey'
  BY DEF FailWrite, NoLostUpdate, OncePerKey, Failing
<1>6. ReleasedIsCommitted' /\ HintIsCommitted'
  BY DEF FailWrite, ReleasedIsCommitted, HintIsCommitted, Committed, Memory, ResponseOf, TypeOK,
     Failing
<1> QED
  BY <1>1, <1>2, <1>3, <1>4, <1>5, <1>6

LEMMA CrashIInv ==
  ASSUME IInv, NEW w \in Workers, Crash(w)
  PROVE  IInv'
<1> USE DEF IInv
<1>1. TypeOK'
  BY DEF Crash, TypeOK, Goto, Failing, Abandoned, StillHolds
<1>2. RowLocked'
  BY TurnAssumption DEF Crash, TypeOK, RowLocked, Goto, Failing
<1>3. OnTop'
  BY DEF Crash, TypeOK, OnTop, RowLocked, Goto, Committed, Failing
<1>4. Memory'
  BY DEF Crash, TypeOK, Memory, Past, ResponseOf, Goto, Failing
<1>5. NoLostUpdate' /\ OncePerKey'
  BY DEF Crash, NoLostUpdate, OncePerKey, Failing
<1>6. ReleasedIsCommitted' /\ HintIsCommitted'
  BY DEF Crash, ReleasedIsCommitted, HintIsCommitted, Committed, Failing
<1> QED
  BY <1>1, <1>2, <1>3, <1>4, <1>5, <1>6

\* The one step that appends: the worker holds the row lock and is on top of the log.
LEMMA CommitIInv ==
  ASSUME IInv, NEW w \in Workers, Commit(w)
  PROVE  IInv'
<1> USE DEF IInv
<1>1. /\ turn[w].base = Len(log) /\ turn[w].in_seq = Len(log) + 1
      /\ ~Committed(turn[w].key) /\ turn[w] \in Turn /\ rowLock = w
  BY DEF Commit, OnTop, RowLocked, TypeOK
<1>2. PICK st \in StatusNext(turn[w].kind, StatusAfter(turn[w].base)) :
        log' = Append(log, [key |-> turn[w].key, base |-> turn[w].base, kind |-> turn[w].kind,
                            idle |-> turn[w].idle_since, status |-> st])
  BY DEF Commit
<1> DEFINE e == [key |-> turn[w].key, base |-> turn[w].base, kind |-> turn[w].kind,
                 idle |-> turn[w].idle_since, status |-> st]
<1>3. e \in Entry
  <2>1. Len(log) \in 0..Len(log)
    BY DEF TypeOK
  <2>2. st \in Status
    BY <1>1, <1>2, <2>1, StatusTyped, StatusNextTyped
  <2> QED
    BY <1>1, <2>2 DEF Turn, Entry
<1>4. e.key = turn[w].key /\ e.base = Len(log)
  BY <1>1
<1> HIDE DEF e
<1>5. /\ log' = Append(log, e) /\ log' \in Seq(Entry) /\ Len(log') = Len(log) + 1
      /\ log'[Len(log) + 1] = e /\ \A i \in DOMAIN log : i \in DOMAIN log' /\ log'[i] = log[i]
      /\ DOMAIN log' = DOMAIN log \union {Len(log) + 1}
      /\ Len(log) \in Nat /\ DOMAIN log = 1..Len(log)
  BY <1>2, <1>3 DEF TypeOK, e
<1>6. /\ turn' = [turn EXCEPT ![w] = turn'[w]] /\ turn'[w] \in Turn
      /\ turn'[w].state = [session |-> Len(log) + 1, committed_seq |-> Len(log) + 1]
      /\ turn'[w].response = Len(log) + 1 /\ turn'[w].key = turn[w].key
  BY <1>1, <1>5 DEF Commit, TypeOK, Turn, Checkpoint
<1>7. TypeOK'
  BY <1>5, <1>6 DEF Commit, TypeOK, Goto, bounds
<1>8. RowLocked'
  BY <1>1, TurnAssumption DEF Commit, TypeOK, RowLocked, Goto
<1>9. OnTop'
  BY <1>1 DEF Commit, TypeOK, OnTop, RowLocked, Goto
<1>10. Memory'
  <2>1. Past(checkpoint)'
    BY <1>5 DEF Commit, Memory, Past, TypeOK, Checkpoint
  <2>2. Past(turn[w].state)' /\ ResponseOf(w)'
    BY <1>4, <1>5, <1>6 DEF Commit, Past, ResponseOf
  <2>3. ASSUME NEW v \in Workers, v # w PROVE Past(turn[v].state)' /\ ResponseOf(v)'
    <3>1. turn'[v] = turn[v] /\ pc'[v] = pc[v] /\ turn[v] \in Turn
      BY <1>6, <2>3 DEF Commit, Goto, TypeOK
    <3> QED
      BY <1>5, <3>1 DEF Memory, Past, ResponseOf, Turn, Checkpoint
  <2> QED
    BY <2>1, <2>2, <2>3 DEF Memory
<1>11. NoLostUpdate'
  BY <1>4, <1>5 DEF NoLostUpdate
<1>12. OncePerKey'
  BY <1>1, <1>4, <1>5 DEF OncePerKey, Committed
<1>13. ReleasedIsCommitted' /\ HintIsCommitted'
  BY <1>5 DEF Commit, ReleasedIsCommitted, HintIsCommitted, Committed
<1> QED
  BY <1>7, <1>8, <1>9, <1>10, <1>11, <1>12, <1>13

\* Steps of valkey alone change nothing the invariant speaks of but the lock and the hints.
LEMMA ValkeyIInv ==
  ASSUME IInv, Expire \/ LoseHint
  PROVE  IInv'
<1> USE DEF IInv
<1>1. TypeOK'
  BY DEF Expire, LoseHint, TypeOK, bounds
<1>2. RowLocked' /\ OnTop'
  BY DEF Expire, LoseHint, RowLocked, OnTop, Committed, bounds
<1>3. Memory'
  BY DEF Expire, LoseHint, Memory, Past, ResponseOf, bounds
<1>4. NoLostUpdate' /\ OncePerKey'
  BY DEF Expire, LoseHint, NoLostUpdate, OncePerKey, bounds
<1>5. ReleasedIsCommitted' /\ HintIsCommitted'
  BY DEF Expire, LoseHint, ReleasedIsCommitted, HintIsCommitted, Committed, bounds
<1> QED
  BY <1>1, <1>2, <1>3, <1>4, <1>5

LEMMA StutterIInv ==
  ASSUME IInv, UNCHANGED vars
  PROVE  IInv'
BY DEF vars, IInv, TypeOK, RowLocked, OnTop, Memory, Past, ResponseOf, NoLostUpdate, OncePerKey,
   ReleasedIsCommitted, HintIsCommitted, Committed

LEMMA NextIInv == IInv /\ [Next]_vars => IInv'
<1> SUFFICES ASSUME IInv, [Next]_vars PROVE IInv'
  OBVIOUS
<1>1. ASSUME NEW w \in Workers, Step(w) PROVE IInv'
  BY <1>1, AcquireIInv, RateLimitIInv, RecheckIInv, ReadCheckpointIInv, LoadRefusedIInv,
     LoadReplayIInv, LoadIInv, CommitIInv, ReleaseIInv, WriteCheckpointIInv, UnlockIInv DEF Step
<1>2. ASSUME NEW w \in Workers, Request(w) \/ TimerDue(w) PROVE IInv'
  BY <1>2, RequestIInv, TimerDueIInv
<1>3. ASSUME NEW w \in Workers, FailTurn(w) \/ FailWrite(w) \/ Crash(w) PROVE IInv'
  BY <1>3, FailTurnIInv, FailWriteIInv, CrashIInv
<1>4. CASE Expire \/ LoseHint
  BY <1>4, ValkeyIInv
<1>5. CASE UNCHANGED vars
  BY <1>5, StutterIInv
<1> QED
  BY <1>1, <1>2, <1>3, <1>4, <1>5 DEF Next

LEMMA AlwaysIInv == Spec => []IInv
BY InitIInv, NextIInv, PTL DEF Spec

----------------------------------------------------------------------------
(* While no lock has lapsed under its turn, the valkey lock orders whole turns. *)

Inside == {"limit", "recheck", "start", "load", "work", "release", "exit", "unlock"}

\* A turn that is under way holds the lock; a timer among them is still due; and no checkpoint is
\* newer than the state a turn will write on its exit.
Held ==
  /\ \A w \in Workers : pc[w] \in Inside => sessionLock = w
  /\ \A w \in Workers : pc[w] = "limit" => turn[w].kind = "customer"
  /\ \A w \in Workers :
       pc[w] \in {"start", "load", "work"} /\ turn[w].kind = "timer" =>
         turn[w].idle_since = Len(log) /\ StatusAfter(Len(log)) = "active"
  /\ \A w \in Workers :
       pc[w] \in {"load", "work", "release", "exit"} =>
         checkpoint.committed_seq <= turn[w].state.committed_seq

LInv == IInv /\ (lapses = 0 => Held) /\ TimerOnlyIdle

\* A turn moves: with its lock, still due if a timer, on a state no older than the checkpoint.
LEMMA MoveKeepsHeld ==
  ASSUME IInv, Held, NEW w \in Workers, UNCHANGED <<log, checkpoint>>,
         NEW label, Goto(w, label),
         \A v \in Workers \ {w} : turn'[v] = turn[v],
         label \in Inside => sessionLock' = w,
         \A v \in Workers \ {w} : pc[v] \in Inside => sessionLock' = sessionLock,
         label = "limit" => turn'[w].kind = "customer",
         label \in {"start", "load", "work"} /\ turn'[w].kind = "timer" =>
           turn'[w].idle_since = Len(log) /\ StatusAfter(Len(log)) = "active",
         label \in {"load", "work", "release", "exit"} =>
           checkpoint.committed_seq <= turn'[w].state.committed_seq
  PROVE  Held'
<1>1. pc'[w] = label /\ \A v \in Workers \ {w} : pc'[v] = pc[v]
  BY DEF Goto, IInv, TypeOK
<1>2. \A v \in Workers : pc'[v] \in Inside => sessionLock' = v
  BY <1>1 DEF Held
<1>3. StatusAfter(Len(log))' = StatusAfter(Len(log))
  BY DEF StatusAfter
<1>4. \A v \in Workers :
        pc'[v] \in {"start", "load", "work"} /\ turn'[v].kind = "timer" =>
          turn'[v].idle_since = Len(log') /\ StatusAfter(Len(log))' = "active"
  BY <1>1, <1>3 DEF Held
<1>5. \A v \in Workers :
        pc'[v] \in {"load", "work", "release", "exit"} =>
          checkpoint'.committed_seq <= turn'[v].state.committed_seq
  BY <1>1 DEF Held
<1>6. \A v \in Workers : pc'[v] = "limit" => turn'[v].kind = "customer"
  BY <1>1 DEF Held
<1> QED
  BY <1>2, <1>4, <1>5, <1>6 DEF Held

\* Whoever is inside holds the lock, so a free or orphaned lock means that nobody is.
LEMMA LockNamesTheTurn ==
  ASSUME IInv, Held, NEW v \in Workers, pc[v] \in Inside
  PROVE  sessionLock = v /\ sessionLock # Free /\ sessionLock # Orphan
BY TurnAssumption DEF Held

LEMMA StartKeepsHeld ==
  ASSUME IInv, Held, NEW w \in Workers, Request(w) \/ TimerDue(w)
  PROVE  Held'
<1>1. /\ UNCHANGED <<log, checkpoint, sessionLock>> /\ Goto(w, "acquire")
      /\ \A v \in Workers \ {w} : turn'[v] = turn[v]
  BY DEF Request, TimerDue, IInv, TypeOK
<1> QED
  BY <1>1, MoveKeepsHeld DEF Inside

LEMMA LockKeepsHeld ==
  ASSUME IInv, Held, NEW w \in Workers, Acquire(w) \/ Unlock(w) \/ Crash(w)
  PROVE  Held'
<1>1. PICK label \in {"idle", "recheck", "limit"} : Goto(w, label)
  BY DEF Acquire, Unlock, Crash
<1>2. UNCHANGED <<log, checkpoint, turn>>
  BY DEF Acquire, Unlock, Crash, bounds
<1>3. label \in Inside => sessionLock' = w
  BY <1>1 DEF Acquire, Unlock, Crash, Goto, Inside, IInv, TypeOK
<1>4. ASSUME NEW v \in Workers \ {w}, pc[v] \in Inside PROVE sessionLock' = sessionLock
  <2>1. sessionLock = v /\ sessionLock # Free
    BY <1>4, LockNamesTheTurn
  <2> QED
    BY <2>1 DEF Acquire, Unlock, Crash, Abandoned, StillHolds
<1>5. label = "limit" => turn'[w].kind = "customer"
  BY <1>1, <1>2 DEF Acquire, Unlock, Crash, Goto, IInv, TypeOK, Turn
<1> QED
  BY <1>1, <1>2, <1>3, <1>4, <1>5, MoveKeepsHeld

LEMMA CheckKeepsHeld ==
  ASSUME IInv, Held, NEW w \in Workers, RateLimit(w) \/ Recheck(w)
  PROVE  Held'
<1>1. PICK label \in {"unlock", "start"} : Goto(w, label)
  BY DEF RateLimit, Recheck
<1>2. UNCHANGED <<log, checkpoint, turn, sessionLock>> /\ pc[w] \in Inside
  BY DEF RateLimit, Recheck, Inside
<1>3. sessionLock = w
  BY <1>2, LockNamesTheTurn
<1>4. label = "start" /\ turn[w].kind = "timer" =>
        turn[w].idle_since = Len(log) /\ StatusAfter(Len(log)) = "active"
  BY <1>1 DEF RateLimit, Recheck, Goto, Held, IInv, TypeOK
<1> QED
  BY <1>1, <1>2, <1>3, <1>4, MoveKeepsHeld

LEMMA GraphKeepsHeld ==
  ASSUME IInv, Held, NEW w \in Workers,
         \/ ReadCheckpoint(w) \/ LoadRefused(w) \/ LoadReplay(w) \/ Load(w) \/ Release(w)
         \/ FailTurn(w)
  PROVE  Held'
<1>1. PICK label \in {"load", "work", "exit"} : Goto(w, label)
  BY DEF ReadCheckpoint, LoadRefused, LoadReplay, Load, Release, FailTurn
<1>2. /\ UNCHANGED <<log, checkpoint, sessionLock>> /\ pc[w] \in Inside
      /\ label = "exit" \/ pc[w] \in {"start", "load"}
  BY <1>1 DEF ReadCheckpoint, LoadRefused, LoadReplay, Load, Release, FailTurn, Inside, Goto, IInv, TypeOK
<1>3. sessionLock = w
  BY <1>2, LockNamesTheTurn
<1>4. /\ \A v \in Workers \ {w} : turn'[v] = turn[v]
      /\ turn'[w].kind = turn[w].kind /\ turn'[w].idle_since = turn[w].idle_since
      /\ turn'[w].state = IF ReadCheckpoint(w) THEN checkpoint ELSE turn[w].state
  <2>1. turn[w] \in Turn /\ turn \in [Workers -> Turn]
    BY DEF IInv, TypeOK
  <2> QED
    BY <2>1 DEF ReadCheckpoint, LoadRefused, LoadReplay, Load, Release, FailTurn, Turn
<1>5. checkpoint.committed_seq <= turn'[w].state.committed_seq
  <2>1. checkpoint.committed_seq \in Nat
    BY DEF IInv, TypeOK, Checkpoint
  <2>2. CASE ReadCheckpoint(w)
    BY <1>4, <2>1, <2>2
  <2>3. CASE ~ReadCheckpoint(w)
    BY <1>4, <2>3 DEF LoadRefused, LoadReplay, Load, Release, FailTurn, Held
  <2> QED
    BY <2>2, <2>3
<1>6. label \in {"load", "work"} /\ turn'[w].kind = "timer" =>
        turn'[w].idle_since = Len(log) /\ StatusAfter(Len(log)) = "active"
  BY <1>2, <1>4 DEF Held
<1> QED
  BY <1>1, <1>2, <1>3, <1>4, <1>5, <1>6, MoveKeepsHeld

LEMMA FailWriteKeepsHeld ==
  ASSUME IInv, Held, NEW w \in Workers, FailWrite(w)
  PROVE  Held'
<1>1. UNCHANGED <<log, checkpoint, turn>> /\ pc[w] \in Inside
  BY DEF FailWrite, Inside
<1>2. sessionLock = w
  BY <1>1, LockNamesTheTurn
<1>3. PICK label \in {"unlock", "idle"} :
        /\ Goto(w, label)
        /\ label = "unlock" => sessionLock' = sessionLock
  BY DEF FailWrite
<1>4. \A v \in Workers \ {w} : pc[v] \notin Inside
  BY <1>2, LockNamesTheTurn
<1>5. label \in Inside => sessionLock' = w
  BY <1>2, <1>3 DEF Inside
<1> QED
  BY <1>1, <1>3, <1>4, <1>5, MoveKeepsHeld

\* The checkpoint a turn writes is its own state; nobody else is on the way to write an older one.
LEMMA WriteCheckpointKeepsHeld ==
  ASSUME IInv, Held, NEW w \in Workers, WriteCheckpoint(w)
  PROVE  Held'
<1>1. UNCHANGED <<log, turn, sessionLock>> /\ pc[w] = "exit" /\ Goto(w, "unlock")
  BY DEF WriteCheckpoint, bounds
<1>2. pc'[w] = "unlock" /\ \A v \in Workers \ {w} : pc'[v] = pc[v]
  BY <1>1 DEF Goto, IInv, TypeOK
<1>3. sessionLock = w
  BY <1>1, LockNamesTheTurn DEF Inside
<1>4. \A v \in Workers \ {w} : pc'[v] \notin Inside
  BY <1>2, <1>3, LockNamesTheTurn
<1> QED
  BY <1>1, <1>2, <1>3, <1>4 DEF Held, Inside

\* The commit takes the log past every other turn under way: there is none.
LEMMA CommitKeepsHeld ==
  ASSUME IInv, Held, NEW w \in Workers, Commit(w)
  PROVE  Held'
<1>1. UNCHANGED <<checkpoint, sessionLock>> /\ pc[w] = "work" /\ Goto(w, "release")
  BY DEF Commit, bounds
<1>2. pc'[w] = "release" /\ \A v \in Workers \ {w} : pc'[v] = pc[v]
  BY <1>1 DEF Goto, IInv, TypeOK
<1>3. sessionLock = w
  BY <1>1, LockNamesTheTurn DEF Inside
<1>4. \A v \in Workers \ {w} : pc'[v] \notin Inside
  BY <1>2, <1>3, LockNamesTheTurn
<1>5. checkpoint.committed_seq <= turn'[w].state.committed_seq
  <2>1. /\ checkpoint.committed_seq <= Len(log) /\ checkpoint.committed_seq \in Nat
        /\ Len(log) \in Nat /\ turn[w].in_seq = Len(log) + 1
    BY <1>1 DEF IInv, TypeOK, Checkpoint, Memory, Past, OnTop
  <2>2. turn'[w].state.committed_seq = turn[w].in_seq
    BY DEF Commit, IInv, TypeOK, Turn
  <2> QED
    BY <2>1, <2>2
<1> QED
  BY <1>1, <1>2, <1>3, <1>4, <1>5 DEF Held, Inside

\* A lock whose turn is gone may end; the hints are nobody's.
LEMMA ValkeyKeepsHeld ==
  ASSUME IInv, Held, (Expire /\ sessionLock = Orphan) \/ LoseHint \/ UNCHANGED vars
  PROVE  Held'
<1>1. UNCHANGED <<log, checkpoint, pc, turn>>
  BY DEF Expire, LoseHint, vars, bounds
<1>2. \A v \in Workers : pc[v] \in Inside => sessionLock' = sessionLock
  <2>1. sessionLock' = sessionLock \/ sessionLock = Orphan
    BY DEF LoseHint, vars
  <2> QED
    BY <2>1, LockNamesTheTurn
<1> QED
  BY <1>1, <1>2 DEF Held, StatusAfter

\* A timer's turn lands where it was due.
LEMMA CommitKeepsTimer ==
  ASSUME IInv, Held, TimerOnlyIdle, lapses = 0, NEW w \in Workers, Commit(w)
  PROVE  TimerOnlyIdle'
<1>1. /\ turn[w].base = Len(log) /\ turn[w] \in Turn
  BY DEF Commit, IInv, OnTop, TypeOK
<1>2. PICK st \in StatusNext(turn[w].kind, StatusAfter(turn[w].base)) :
        log' = Append(log, [key |-> turn[w].key, base |-> turn[w].base, kind |-> turn[w].kind,
                            idle |-> turn[w].idle_since, status |-> st])
  BY DEF Commit
<1>3. PICK e : /\ e = [key |-> turn[w].key, base |-> turn[w].base, kind |-> turn[w].kind,
                       idle |-> turn[w].idle_since, status |-> st]
               /\ log' = Append(log, e) /\ e.kind = turn[w].kind /\ e.idle = turn[w].idle_since
  BY <1>2
<1>4. e \in Entry
  <2>1. Len(log) \in 0..Len(log)
    BY DEF IInv, TypeOK
  <2>2. st \in Status
    BY <1>1, <1>2, <2>1, StatusTyped, StatusNextTyped DEF IInv
  <2> QED
    BY <1>1, <1>3, <2>2 DEF Turn, Entry
<1>5. /\ Len(log) \in Nat /\ DOMAIN log = 1..Len(log) /\ DOMAIN log' = 1..(Len(log) + 1)
      /\ log'[Len(log) + 1] = e /\ \A i \in DOMAIN log : log'[i] = log[i]
  BY <1>3, <1>4 DEF IInv, TypeOK
<1>6. \A n \in 0..Len(log) : StatusAfter(n)' = StatusAfter(n)
  BY <1>5 DEF StatusAfter
<1>7. ASSUME NEW i \in DOMAIN log', log'[i].kind = "timer"
      PROVE  log'[i].idle = i - 1 /\ StatusAfter(i - 1)' = "active"
  <2>1. CASE i \in DOMAIN log
    <3>1. log[i].idle = i - 1 /\ StatusAfter(i - 1) = "active"
      BY <1>5, <1>7, <2>1 DEF TimerOnlyIdle
    <3>2. i - 1 \in 0..Len(log)
      BY <1>5, <2>1
    <3> QED
      BY <1>5, <1>6, <2>1, <3>1, <3>2
  <2>2. CASE i = Len(log) + 1
    <3>1. turn[w].kind = "timer" /\ log'[i].idle = turn[w].idle_since
      BY <1>3, <1>5, <1>7, <2>2
    <3>2. turn[w].idle_since = Len(log) /\ StatusAfter(Len(log)) = "active"
      BY <3>1 DEF Held, Commit
    <3>3. i - 1 = Len(log) /\ Len(log) \in 0..Len(log)
      BY <1>5, <2>2
    <3> QED
      BY <1>6, <3>1, <3>2, <3>3
  <2> QED
    BY <1>5, <2>1, <2>2
<1> QED
  BY <1>7 DEF TimerOnlyIdle

LEMMA OtherKeepTimer ==
  ASSUME TimerOnlyIdle, UNCHANGED log, lapses' = 0 => lapses = 0
  PROVE  TimerOnlyIdle'
BY DEF TimerOnlyIdle, StatusAfter

LEMMA NextLInv == LInv /\ [Next]_vars => LInv'
<1> SUFFICES ASSUME LInv, [Next]_vars PROVE LInv'
  OBVIOUS
<1>1. IInv /\ IInv'
  BY NextIInv DEF LInv
<1>2. lapses' = 0 => lapses = 0 /\ (Expire => sessionLock = Orphan)
  <2>1. lapses \in Nat
    BY <1>1 DEF IInv, TypeOK
  <2>2. lapses' = lapses \/ lapses' = lapses + 1
    BY DEF Next, Step, Request, TimerDue, Acquire, RateLimit, Recheck, ReadCheckpoint, LoadRefused, LoadReplay,
           Load, Commit, Release, WriteCheckpoint, Unlock, FailTurn, FailWrite, Crash, Expire, LoseHint, bounds,
           vars
  <2>3. Expire => sessionLock = Orphan \/ lapses' = lapses + 1
    BY DEF Expire
  <2> QED
    BY <2>1, <2>2, <2>3
<1>3. lapses' = 0 => Held'
  <2> SUFFICES ASSUME lapses' = 0 PROVE Held'
    OBVIOUS
  <2>1. Held
    BY <1>2 DEF LInv
  <2>2. ASSUME NEW w \in Workers, Step(w) PROVE Held'
    BY <1>1, <2>1, <2>2, LockKeepsHeld, CheckKeepsHeld, GraphKeepsHeld, CommitKeepsHeld,
       WriteCheckpointKeepsHeld DEF Step
  <2>3. ASSUME NEW w \in Workers, Request(w) \/ TimerDue(w) PROVE Held'
    BY <1>1, <2>1, <2>3, StartKeepsHeld
  <2>4. ASSUME NEW w \in Workers, FailTurn(w) \/ FailWrite(w) \/ Crash(w) PROVE Held'
    BY <1>1, <2>1, <2>4, GraphKeepsHeld, FailWriteKeepsHeld, LockKeepsHeld
  <2>5. CASE Expire \/ LoseHint \/ UNCHANGED vars
    BY <1>1, <1>2, <2>1, <2>5, ValkeyKeepsHeld
  <2> QED
    BY <2>2, <2>3, <2>4, <2>5 DEF Next
<1>4. TimerOnlyIdle'
  <2>1. CASE \E w \in Workers : Commit(w)
    <3>1. CASE lapses = 0
      BY <1>1, <2>1, <3>1, CommitKeepsTimer DEF LInv
    <3>2. CASE lapses # 0
      BY <1>2, <3>2 DEF TimerOnlyIdle
    <3> QED
      BY <3>1, <3>2
  <2>2. CASE UNCHANGED log
    BY <1>2, <2>2, OtherKeepTimer DEF LInv
  <2>3. (\E w \in Workers : Commit(w)) \/ UNCHANGED log
    BY DEF Next, Step, Request, TimerDue, Acquire, RateLimit, Recheck, ReadCheckpoint, LoadRefused, LoadReplay,
           Load, Release, WriteCheckpoint, Unlock, FailTurn, FailWrite, Crash, Expire, LoseHint, vars
  <2> QED
    BY <2>1, <2>2, <2>3
<1> QED
  BY <1>1, <1>3, <1>4 DEF LInv

LEMMA AlwaysLInv == Spec => []LInv
<1>1. Init => LInv
  BY InitIInv DEF Init, LInv, Held, Inside, TimerOnlyIdle
<1> QED
  BY <1>1, NextLInv, PTL DEF Spec

----------------------------------------------------------------------------
(* The theorems. *)

\* The log, the checkpoint, the locks and every turn keep their types.
THEOREM TurnsTyped == Spec => []TypeOK
<1>1. IInv => TypeOK
  BY DEF IInv
<1> QED
  BY <1>1, AlwaysIInv, PTL

\* No turn is ever decided on anything but the state its predecessor left.
THEOREM NoUpdateIsLost == Spec => []NoLostUpdate
<1>1. IInv => NoLostUpdate
  BY DEF IInv
<1> QED
  BY <1>1, AlwaysIInv, PTL

\* A key commits at most one turn.
THEOREM KeysCommitOnce == Spec => []OncePerKey
<1>1. IInv => OncePerKey
  BY DEF IInv
<1> QED
  BY <1>1, AlwaysIInv, PTL

\* I8: what leaves was committed.
THEOREM OnlyCommittedLeaves == Spec => []ReleasedIsCommitted
<1>1. IInv => ReleasedIsCommitted
  BY DEF IInv
<1> QED
  BY <1>1, AlwaysIInv, PTL

\* The row lock alone keeps one writer in the transaction, whatever valkey does.
THEOREM OneWriterAtATime == Spec => []OneWriter
<1>1. IInv => OneWriter
  BY DEF IInv, RowLocked, OneWriter
<1> QED
  BY <1>1, AlwaysIInv, PTL

\* The checkpoint never claims a turn conv does not have.
THEOREM CheckpointIsPast == Spec => []CheckpointNeverAhead
<1>1. IInv => CheckpointNeverAhead
  BY DEF IInv, Memory, Past, CheckpointNeverAhead
<1> QED
  BY <1>1, AlwaysIInv, PTL

\* As long as locks hold, a timer pauses only the idle session it was due for.
THEOREM TimersPauseIdleSessions == Spec => []TimerOnlyIdle
<1>1. LInv => TimerOnlyIdle
  BY DEF LInv
<1> QED
  BY <1>1, AlwaysLInv, PTL

\* All of it at once, for every number of workers, requests, failures and lapses.
THEOREM TurnsStayConsistent == Spec => []TurnsAreConsistent
<1>1. LInv => TurnsAreConsistent
  BY DEF LInv, IInv, Memory, Past, CheckpointNeverAhead, RowLocked, OneWriter, TurnsAreConsistent
<1> QED
  BY <1>1, AlwaysLInv, PTL

\* As long as locks hold, the checkpoint never goes back: a refused, failed or replayed turn writes
\* what it read, and no other turn has written in between.
THEOREM CheckpointsAdvance == Spec => CheckpointAdvances
<1> DEFINE Advances == lapses = 0 => checkpoint'.committed_seq >= checkpoint.committed_seq
<1>1. ASSUME LInv, Next PROVE Advances
  <2>1. checkpoint.committed_seq \in Nat
    BY <1>1 DEF LInv, IInv, TypeOK, Checkpoint
  <2>2. ASSUME NEW w \in Workers, WriteCheckpoint(w), lapses = 0
        PROVE  checkpoint'.committed_seq >= checkpoint.committed_seq
    <3>1. checkpoint' = turn[w].state /\ turn[w] \in Turn
      BY <1>1, <2>2 DEF WriteCheckpoint, LInv, IInv, TypeOK
    <3>2. checkpoint.committed_seq <= turn[w].state.committed_seq
      BY <1>1, <2>2 DEF LInv, Held, WriteCheckpoint
    <3> QED
      BY <2>1, <3>1, <3>2 DEF Turn, Checkpoint
  <2>3. (\E w \in Workers : WriteCheckpoint(w)) \/ UNCHANGED checkpoint
    BY <1>1 DEF Next, Step, Request, TimerDue, Acquire, RateLimit, Recheck, ReadCheckpoint, LoadRefused,
           LoadReplay, Load, Commit, Release, Unlock, FailTurn, FailWrite, Crash, Expire, LoseHint
  <2> QED
    BY <2>1, <2>2, <2>3
<1>2. LInv /\ [Next]_vars => [Advances]_vars
  BY <1>1
<1>3. Spec => [][Advances]_vars
  BY <1>2, AlwaysLInv, PTL DEF Spec
<1> QED
  BY <1>3 DEF CheckpointAdvances

----------------------------------------------------------------------------
(* Refinement. *)

LEMMA InitRefines == Init => Promise!LogInit
BY DEF Init, Promise!LogInit

\* The commit is the abstract turn.
LEMMA CommitRefines ==
  ASSUME IInv, NEW w \in Workers, Commit(w)
  PROVE  Promise!LogTurn
<1>1. turn[w].base = Len(log) /\ ~Committed(turn[w].key)
  BY DEF IInv, OnTop, Commit
<1>2. PICK e : log' = Append(log, e) /\ e.key = turn[w].key /\ e.base = Len(log)
  BY <1>1 DEF Commit
<1>3. Len(log') = Len(log) + 1 /\ log'[Len(log')] = e
  BY <1>2 DEF IInv, TypeOK
<1> QED
  BY <1>1, <1>2, <1>3 DEF Commit, Committed, Promise!LogTurn, Promise!Logged

\* An answer or an event is the abstract release, or nothing if no response is there.
LEMMA ReleaseRefines ==
  ASSUME IInv, NEW w \in Workers, Release(w) \/ Unlock(w) \/ FailWrite(w)
  PROVE  Promise!ReleaseReply \/ UNCHANGED <<log, released>>
<1> DEFINE n == turn[w].response
<1>1. UNCHANGED log
  BY DEF Release, Unlock, FailWrite
<1>2. \/ UNCHANGED released
      \/ n # 0 /\ released' = released \union {[key |-> turn[w].key, reply |-> n]}
  BY DEF Release, Unlock, FailWrite, IInv, Memory, ResponseOf
<1>3. n # 0 => n \in DOMAIN log /\ log[n].key = turn[w].key
  BY DEF IInv, Memory, ResponseOf
<1> QED
  BY <1>1, <1>2, <1>3 DEF Promise!ReleaseReply

LEMMA NextRefines == IInv /\ [Next]_vars => [Promise!LogNext]_(Promise!logVars)
<1> SUFFICES ASSUME IInv, [Next]_vars
             PROVE  Promise!LogNext \/ UNCHANGED <<log, released>>
  BY DEF Promise!logVars
<1>1. ASSUME NEW w \in Workers, Commit(w) PROVE Promise!LogNext
  BY <1>1, CommitRefines DEF Promise!LogNext
<1>2. ASSUME NEW w \in Workers, Release(w) \/ Unlock(w) \/ FailWrite(w)
      PROVE  Promise!LogNext \/ UNCHANGED <<log, released>>
  BY <1>2, ReleaseRefines DEF Promise!LogNext
<1>3. ASSUME NEW w \in Workers,
             \/ Request(w) \/ TimerDue(w) \/ Acquire(w) \/ RateLimit(w) \/ Recheck(w)
             \/ ReadCheckpoint(w) \/ LoadRefused(w) \/ LoadReplay(w) \/ Load(w)
             \/ WriteCheckpoint(w) \/ FailTurn(w) \/ Crash(w)
      PROVE  UNCHANGED <<log, released>>
  BY <1>3 DEF Request, TimerDue, Acquire, RateLimit, Recheck, ReadCheckpoint, LoadRefused,
     LoadReplay, Load, WriteCheckpoint, FailTurn, Crash
<1>4. CASE Expire \/ LoseHint \/ UNCHANGED vars
  BY <1>4 DEF Expire, LoseHint, vars
<1> QED
  BY <1>1, <1>2, <1>3, <1>4 DEF Next, Step

\* Locks, checkpoint, hints, retries, crashes and lapses together behave as the plain log of
\* turns.
THEOREM RuntimeImplementsTurnLog == Spec => ImplementsTurnLog
BY InitRefines, NextRefines, AlwaysIInv, PTL DEF Spec, ImplementsTurnLog, Promise!LogSpec

=============================================================================
