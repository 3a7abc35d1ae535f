------------------------------ MODULE TurnLog ------------------------------
(***************************************************************************)
(* What serving turns promises for one session: its turns form one log;    *)
(* each turn is decided on the state its predecessor left and its key is   *)
(* new; and a reply leaves only once its turn is in the log, then as often *)
(* as the client asks, always the same one.  TurnRuntime implements this   *)
(* with two locks, a checkpoint, an idempotency hint and retries.          *)
(***************************************************************************)
EXTENDS Naturals, Sequences

VARIABLES
  log,         \* the turns, each with at least its key and its base, the turn it was decided on
  released     \* the replies that left: [key, reply], reply being the turn's place in log

logVars == <<log, released>>

LogInit == log = <<>> /\ released = {}

Logged(k) == \E i \in DOMAIN log : log[i].key = k

\* log' is log with one more turn; what else the turn records is the implementation's.
LogTurn ==
  /\ Len(log') = Len(log) + 1
  /\ log' = Append(log, log'[Len(log')])
  /\ ~Logged(log'[Len(log')].key)
  /\ log'[Len(log')].base = Len(log)
  /\ UNCHANGED released

ReleaseReply ==
  /\ \E i \in DOMAIN log : released' = released \union {[key |-> log[i].key, reply |-> i]}
  /\ UNCHANGED log

LogNext == LogTurn \/ ReleaseReply

LogSpec == LogInit /\ [][LogNext]_logVars

=============================================================================
