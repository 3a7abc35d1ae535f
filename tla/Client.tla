------------------------------- MODULE Client -------------------------------
(***************************************************************************)
(* The web client (frontend/src/Chat.tsx over client.ts) against the HTTP   *)
(* API (api/routes.py, api/app.py), across a network that loses and delays. *)
(*                                                                         *)
(* The client sends one request at a time and keeps it with its key until   *)
(* it is answered, so that Retry repeats it; an erase confirmed while a     *)
(* request runs goes next.  A request whose answer was given up may still   *)
(* be served later.  The API authenticates, takes the session's lock and    *)
(* runs the turn; its inner life is TurnRuntime's, here it does what        *)
(* TurnLog promises: one turn per key, and the same reply for it.           *)
(*                                                                         *)
(* Data abstraction: an ask is "start", "say" (a text, a button, a form) or *)
(* "erase"; a reply is its turn's place in the log and whether its state is *)
(* open, closed or Data Erasure; a trouble is what it lets the customer do. *)
(***************************************************************************)
EXTENDS Naturals, Sequences, FiniteSets

CONSTANTS
  Sessions,
  None,
  MaxAsks,       \* bound: keys the client draws
  MaxFaults      \* bound: lost messages, refusals, failed turns, expiries

\* said: which of the things the customer asked this is; its key is drawn with it.
Ask == [kind : {"start", "say", "erase"}, said : Nat, key : Nat]

ASSUME ClientAssumption ==
  /\ None \notin Sessions \union Ask
  /\ MaxAsks \in Nat /\ MaxFaults \in Nat

VARIABLES
  ui,            \* the page: Chat's refs and state
  net,           \* the requests under way and the answers on their way back
  log,           \* each session's turns
  status,        \* each session's row: none, open, erased, expired
  told,          \* the sessions the customer was told are erased
  asks, faults

vars == <<ui, net, log, status, told, asks, faults>>

Trouble == {"none", "retry", "restart", "gone", "plain"}

Ui == [session : Sessions \union {None},
       call : {"idle", "creating", "posting", "waiting", "backoff"},
       again : BOOLEAN,                    \* the busy answer was already repeated once
       eraseNext : BOOLEAN,
       pending : Ask \union {None},
       problem : Trouble,
       closed : BOOLEAN,
       screen : Seq([session : Sessions, at : Nat \ {0}])]

Entry == [key : Nat, said : Nat, state : {"open", "closed", "erasure"}]

Answers == {"ok", "busy", "unauthorized", "expired", "unavailable", "too_large"}

Message == [session : Sessions, ask : Ask, live : BOOLEAN,    \* live: the client waits for it
            at : {"sent", "authed", "running", "back"},
            code : Answers, turn : Nat]                       \* meaningful once it is back

Fresh(kind) == [kind |-> kind, said |-> asks + 1, key |-> asks + 1]

----------------------------------------------------------------------------
(* The page's handlers, on the record u. *)

\* A bug: null and undefined mixed up.
ForgetUndefined(u) == [u EXCEPT !.session = 0]

Forget(u) == [u EXCEPT !.session = None]

\* send past its guard.
Sent(u, ask) ==
  [u EXCEPT !.call = IF u.session = None THEN "creating" ELSE "posting",
            !.again = FALSE, !.pending = ask, !.problem = "none"]

\* The queued erase: nothing goes when the session went away meanwhile.
MaySend(u, kind) == ~(kind = "erase" /\ u.session = None)

\* A bug: the queued erase is dropped with the call it waited for.
EndedNoErase(u) == [u EXCEPT !.call = "idle", !.eraseNext = FALSE]

\* finally: the call is over and a queued erase starts in the same tick.
Ended(u) ==
  LET idle == [u EXCEPT !.call = "idle", !.eraseNext = FALSE] IN
  IF u.eraseNext /\ MaySend(idle, "erase") THEN Sent(idle, Fresh("erase")) ELSE idle

Drawn(u) == IF u.eraseNext /\ MaySend(u, "erase") THEN asks + 1 ELSE asks

\* setEntries, setClosed, forget.
Answered(u, m) ==
  LET state == log[m.session][m.turn].state
      shown == [u EXCEPT !.pending = None, !.closed = state # "open",
                         !.screen = Append(@, [session |-> m.session, at |-> m.turn])]
  IN  IF u.pending.kind = "erase" \/ state = "erasure" THEN Forget(shown) ELSE shown

\* A bug: no way on from an expired session.
TroubleOfNoWay(code, kind) ==
  CASE code \in {"unreachable", "busy", "unavailable"} -> "retry"
    [] code \in {"expired", "too_large"} -> "plain"
    [] code = "unauthorized" -> IF kind = "erase" THEN "gone" ELSE "restart"

\* A bug: an expired session's erase is reported as done.
TroubleOfExpired(code, kind) ==
  CASE code \in {"unreachable", "busy", "unavailable"} -> "retry"
    [] code \in {"expired", "unauthorized"} -> IF kind = "erase" THEN "gone" ELSE "restart"
    [] code = "too_large"    -> "plain"

TroubleOf(code, kind) ==
  CASE code \in {"unreachable", "busy", "unavailable"} -> "retry"
    [] code = "expired"      -> "restart"
    [] code = "unauthorized" -> IF kind = "erase" THEN "gone" ELSE "restart"
    [] code = "too_large"    -> "plain"

Troubled(u, code) ==
  LET t == TroubleOf(code, u.pending.kind)
      shown == [u EXCEPT !.problem = t]
  IN  IF t = "gone" THEN Forget(shown) ELSE shown

----------------------------------------------------------------------------
Init ==
  /\ ui = [session |-> None, call |-> "creating", again |-> FALSE, eraseNext |-> FALSE,
           pending |-> [kind |-> "start", said |-> 1, key |-> 1], problem |-> "none", closed |-> FALSE,
           screen |-> <<>>]
  /\ net = {}
  /\ log = [s \in Sessions |-> <<>>]
  /\ status = [s \in Sessions |-> "none"]
  /\ told = {}
  /\ asks = 1 /\ faults = 0

server == <<log, status>>

----------------------------------------------------------------------------
(* The customer. *)

Dead == ui.problem \in {"restart", "gone"}

Idle == ui.call = "idle"

\* submit or a quick reply: the input is off once the conversation is closed or dead.
CanSay == Idle /\ ~ui.closed /\ ~Dead

\* A bug: a message may be sent while a request is under way.
SayAnytime ==
  /\ ~ui.closed /\ ~Dead /\ asks < MaxAsks
  /\ ui' = Sent(ui, Fresh("say"))
  /\ asks' = asks + 1
  /\ UNCHANGED <<net, server, told, faults>>

Say ==
  /\ CanSay /\ asks < MaxAsks
  /\ ui' = Sent(ui, Fresh("say"))
  /\ asks' = asks + 1
  /\ UNCHANGED <<net, server, told, faults>>

\* erase: the button is there whenever the page holds a session.
EraseConfirmed ==
  /\ ui.session # None /\ asks < MaxAsks
  /\ IF Idle
     THEN ui' = Sent(ui, Fresh("erase")) /\ asks' = asks + 1
     ELSE ui' = [ui EXCEPT !.eraseNext = TRUE] /\ UNCHANGED asks
  /\ UNCHANGED <<net, server, told, faults>>

CanRetry == Idle /\ ui.problem = "retry" /\ ui.pending # None

\* A bug: a retry draws a new key.
RetryAnew ==
  /\ CanRetry /\ asks < MaxAsks
  /\ MaySend(ui, ui.pending.kind)
  /\ ui' = Sent(ui, [ui.pending EXCEPT !.key = asks + 1])
  /\ asks' = asks + 1
  /\ UNCHANGED <<net, server, told, faults>>

Retry ==
  /\ CanRetry
  /\ MaySend(ui, ui.pending.kind)
  /\ ui' = Sent(ui, ui.pending)
  /\ UNCHANGED <<net, server, told, asks, faults>>

CanRestart == Idle /\ (Dead \/ (ui.closed /\ ui.problem = "none"))

Restart ==
  /\ CanRestart /\ asks < MaxAsks
  /\ ui' = Sent([Forget(ui) EXCEPT !.screen = <<>>, !.closed = FALSE], Fresh("start"))
  /\ asks' = asks + 1
  /\ UNCHANGED <<net, server, told, faults>>

----------------------------------------------------------------------------
(* The page's calls. *)

\* createSession.
Create ==
  /\ ui.call = "creating"
  /\ \E s \in Sessions : status[s] = "none"
  /\ LET s == CHOOSE t \in Sessions : status[t] = "none" IN
     /\ status' = [status EXCEPT ![s] = "open"]
     /\ ui' = [ui EXCEPT !.session = s, !.call = "posting"]
  /\ UNCHANGED <<net, log, told, asks, faults>>

CreateFails ==
  /\ ui.call = "creating"
  /\ \/ faults < MaxFaults /\ faults' = faults + 1
     \/ \A t \in Sessions : status[t] # "none" /\ UNCHANGED faults
  /\ ui' = Ended([ui EXCEPT !.problem = "retry"])
  /\ asks' = Drawn(ui)
  /\ UNCHANGED <<net, server, told>>

\* deliver: POST .../turns or DELETE, the same key each time.
Deliver ==
  /\ ui.call = "posting"
  /\ net' = net \union {[session |-> ui.session, ask |-> ui.pending, live |-> TRUE, at |-> "sent",
                         code |-> "ok", turn |-> 0]}
  /\ ui' = [ui EXCEPT !.call = "waiting"]
  /\ UNCHANGED <<server, told, asks, faults>>

\* The answer to the request the page waits for.
Receive ==
  /\ ui.call = "waiting"
  /\ \E m \in net :
       /\ m.live /\ m.at = "back"
       /\ net' = net \ {m}
       /\ IF m.code = "busy" /\ ~ui.again
          THEN ui' = [ui EXCEPT !.call = "backoff"] /\ UNCHANGED <<told, asks>>
          ELSE LET after == IF m.code = "ok" THEN Answered(ui, m) ELSE Troubled(ui, m.code) IN
               /\ ui' = Ended(after)
               /\ asks' = Drawn(after)
               /\ told' = told \union IF after.session = None THEN {m.session} ELSE {}
  /\ UNCHANGED <<server, faults>>

\* A bug: the page forgets that it repeated the request.
BusyForever ==
  /\ ui.call = "backoff"
  /\ ui' = [ui EXCEPT !.call = "posting"]
  /\ UNCHANGED <<net, server, told, asks, faults>>

\* post: once more after a second, with the same key.
BusyAgain ==
  /\ ui.call = "backoff"
  /\ ui' = [ui EXCEPT !.call = "posting", !.again = TRUE]
  /\ UNCHANGED <<net, server, told, asks, faults>>

\* fetch rejects, or the answer is no problem document: the request may still be under way.
Unreachable ==
  /\ ui.call = "waiting"
  /\ \E m \in net :
       /\ m.live
       /\ faults < MaxFaults
       /\ net' = (net \ {m}) \union {[m EXCEPT !.live = FALSE]}
  /\ faults' = faults + 1
  /\ LET after == Troubled(ui, "unreachable") IN ui' = Ended(after) /\ asks' = Drawn(after)
  /\ UNCHANGED <<server, told>>

----------------------------------------------------------------------------
(* The API. *)

Moved(m, n) == net' = (net \ {m}) \union {n}

Refused(m, code) == [m EXCEPT !.at = "back", !.code = code]

\* authenticate: an erased session is the same 401 as an unknown one.
Authenticate(m) ==
  /\ m.at = "sent"
  /\ Moved(m, CASE status[m.session] = "erased"  -> Refused(m, "unauthorized")
                [] status[m.session] = "expired" -> Refused(m, "expired")
                [] OTHER -> [m EXCEPT !.at = "authed"])
  /\ UNCHANGED <<ui, server, told, asks, faults>>

\* BodyLimit.
TooLarge(m) ==
  /\ m.at = "sent" /\ m.ask.kind = "say" /\ faults < MaxFaults
  /\ Moved(m, Refused(m, "too_large"))
  /\ faults' = faults + 1
  /\ UNCHANGED <<ui, server, told, asks>>

Running(s) == \E n \in net : n.session = s /\ n.at = "running"

\* gate.acquire: SESSION_BUSY while another turn holds the session.
AcquireLock(m) ==
  /\ m.at = "authed"
  /\ Moved(m, IF Running(m.session) THEN Refused(m, "busy") ELSE [m EXCEPT !.at = "running"])
  /\ UNCHANGED <<ui, server, told, asks, faults>>

WhereKey(s, k) == {i \in DOMAIN log[s] : log[s][i].key = k}

Closed(s) == log[s] # <<>> /\ log[s][Len(log[s])].state = "closed"

\* The states a turn may end in, and whether the session is deleted with it: an erase, a typed
\* withdrawal or a minor.  A closed state keeps its name.
Results(s, kind) ==
  {[state |-> IF Closed(s) THEN "closed" ELSE "erasure", deleted |-> TRUE]}
    \union IF kind = "erase" THEN {}
           ELSE {[state |-> "closed", deleted |-> FALSE]}
                  \union IF Closed(s) THEN {} ELSE {[state |-> "open", deleted |-> FALSE]}

Turned(ask, r) == [key |-> ask.key, said |-> ask.said, state |-> r.state]

\* A bug: the key is not looked up.
ServeAgain(m) ==
  /\ m.at = "running"
  /\ IF status[m.session] = "erased"
     THEN Moved(m, Refused(m, "unavailable")) /\ UNCHANGED server
     ELSE /\ \E r \in Results(m.session, m.ask.kind) :
               /\ log' = [log EXCEPT ![m.session] = Append(@, Turned(m.ask, r))]
               /\ status' = IF r.deleted THEN [status EXCEPT ![m.session] = "erased"] ELSE status
          /\ Moved(m, [m EXCEPT !.at = "back", !.turn = Len(log[m.session]) + 1])
  /\ UNCHANGED <<ui, told, asks, faults>>

\* run_turn: a replay, a turn, or a row deleted since the request was authenticated (503).
Serve(m) ==
  /\ m.at = "running"
  /\ \/ /\ status[m.session] = "erased"
        /\ Moved(m, Refused(m, "unavailable"))
        /\ UNCHANGED server
     \/ /\ status[m.session] # "erased"
        /\ \E i \in WhereKey(m.session, m.ask.key) :
             Moved(m, [m EXCEPT !.at = "back", !.turn = i])
        /\ UNCHANGED server
     \/ /\ status[m.session] # "erased"
        /\ WhereKey(m.session, m.ask.key) = {}
        /\ \E r \in Results(m.session, m.ask.kind) :
             /\ log' = [log EXCEPT ![m.session] = Append(@, Turned(m.ask, r))]
             /\ status' = IF r.deleted THEN [status EXCEPT ![m.session] = "erased"] ELSE status
        /\ Moved(m, [m EXCEPT !.at = "back", !.turn = Len(log[m.session]) + 1])
  /\ UNCHANGED <<ui, told, asks, faults>>

\* A rate limit, or a dependency down: nothing was committed.
Fails(m) ==
  /\ m.at = "running" /\ faults < MaxFaults
  /\ Moved(m, Refused(m, "unavailable"))
  /\ faults' = faults + 1
  /\ UNCHANGED <<ui, server, told, asks>>

\* A request nobody waits for ends in silence.
Vanishes(m) ==
  /\ ~m.live
  /\ net' = net \ {m}
  /\ UNCHANGED <<ui, server, told, asks, faults>>

Expire(s) ==
  /\ status[s] = "open" /\ faults < MaxFaults
  /\ status' = [status EXCEPT ![s] = "expired"]
  /\ faults' = faults + 1
  /\ UNCHANGED <<ui, net, log, told, asks>>

----------------------------------------------------------------------------
Page == Create \/ CreateFails \/ Deliver \/ Receive \/ BusyAgain

Api(m) == Authenticate(m) \/ AcquireLock(m) \/ Serve(m)

Next ==
  \/ Say \/ EraseConfirmed \/ Retry \/ Restart
  \/ Page \/ Unreachable
  \/ \E m \in net : Api(m) \/ TooLarge(m) \/ Fails(m) \/ Vanishes(m)
  \/ \E s \in Sessions : Expire(s)

Spec == Init /\ [][Next]_vars

\* The page runs its handlers, and the API answers a request somebody waits for, or the connection
\* breaks (Unreachable).  Nothing is assumed of the customer or of late requests.
FairSpec == Spec /\ WF_vars(Page) /\ WF_vars(\E m \in net : m.live /\ Api(m))

----------------------------------------------------------------------------
(* Properties. *)

TypeOK ==
  /\ ui \in Ui
  /\ net \subseteq Message
  /\ log \in [Sessions -> Seq(Entry)]
  /\ status \in [Sessions -> {"none", "open", "erased", "expired"}]
  /\ told \subseteq Sessions

\* Each thing asked is one turn at most, whatever is retried or arrives late, and the screen shows
\* the replies of one session in the order of its log, each once (Chat.tsx, "the same key only on an
\* explicit retry").
Promise == INSTANCE Dialogue WITH log <- log, screen <- ui.screen
ImplementsDialogue == Promise!DialogueSpec

\* Chat.tsx, "an erase confirmed while a turn ran: it goes next, nothing else": until it goes no
\* other request starts, and it is dropped only when the session went away with the turn.
EraseGoesNext ==
  [][ui.eraseNext =>
       /\ ui'.pending \notin {ui.pending, None} => ui'.pending.kind = "erase"
       /\ ~ui'.eraseNext => \/ ui'.session = None
                           \/ (ui'.call = "posting" /\ ui'.pending.kind = "erase")]_vars

\* The customer is told that a conversation is erased only once the server has erased it, and an
\* answered erase is never told of a session that merely expired.
ToldIsErased == \A s \in told : status[s] = "erased"

\* Between calls whatever was asked and not answered is on screen as a trouble, and the customer can
\* write, retry or start anew, in a closed, erased, expired or broken conversation too.
NoDeadEnd ==
  Idle => /\ ui.pending # None => ui.problem # "none"
          /\ CanSay \/ CanRetry \/ CanRestart

\* The screen tells the truth about an erasure, and leaves the customer a way on.
ScreenIsHonest == ToldIsErased /\ NoDeadEnd

\* A call ends: the page never stays busy, whoever holds the session's lock.
CallEnds == ~Idle ~> Idle

\* So an erasure confirmed while a turn runs is sent: the turn ends, and nothing goes before it.
EraseIsSent == EraseGoesNext /\ CallEnds

=============================================================================
