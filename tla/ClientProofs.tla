---------------------------- MODULE ClientProofs ----------------------------
(***************************************************************************)
(* What the web client guarantees for any number of sessions, asks and      *)
(* faults: its screen is honest about erasures and never a dead end, and it *)
(* implements the dialogue it promises.                                     *)
(***************************************************************************)
EXTENDS Client, SequenceTheorems, TLAPS

USE ClientAssumption

----------------------------------------------------------------------------
(* The inductive invariant: what holds of the requests and the turns, and of a page u. *)

Types == TypeOK /\ asks \in Nat

\* A key is drawn with the thing said, and none is ahead of the count.
Numbered ==
  /\ \A m \in net : m.ask.key = m.ask.said /\ m.ask.said <= asks
  /\ \A s \in Sessions : \A i \in DOMAIN log[s] :
       log[s][i].key = log[s][i].said /\ log[s][i].said <= asks

\* The requests for one thing said are the same ask of the same session, which has its turn.
OneAsk ==
  /\ \A m, n \in net : m.ask.said = n.ask.said => m.ask = n.ask /\ m.session = n.session
  /\ \A m \in net : \A s \in Sessions : \A i \in DOMAIN log[s] :
       log[s][i].said = m.ask.said => s = m.session

\* An answer on its way back is true: of a turn of its ask, of an erased session, of a long text.
True(m) ==
  /\ m.at # "back" => m.code = "ok"
  /\ m.at = "back" /\ m.code = "ok" =>
       m.turn \in DOMAIN log[m.session] /\ log[m.session][m.turn].said = m.ask.said
  /\ m.code = "unauthorized" => status[m.session] = "erased"
  /\ m.code = "too_large" => m.ask.kind = "say"

AnswersTrue == \A m \in net : True(m)

\* A turn that answers an erase has closed the conversation and erased its session.
Erases(ask) ==
  ask.kind = "erase" =>
    \A s \in Sessions : \A i \in DOMAIN log[s] :
      log[s][i].said = ask.said => status[s] = "erased" /\ log[s][i].state # "open"

ErasedSound ==
  /\ \A s \in Sessions : \A i \in DOMAIN log[s] :
       log[s][i].state = "erasure" => status[s] = "erased"
  /\ \A m \in net : Erases(m.ask)
  /\ ToldIsErased

\* The page holds an ask, and its session is not known to be gone.
Holds(u) == u.pending # None /\ u.problem # "gone"

\* The requests and the turn of the ask held are the page's, and the turn is not on screen yet.
Held(u) ==
  /\ u.pending # None => u.pending.key = u.pending.said /\ u.pending.said <= asks
  /\ Holds(u) =>
       /\ \A m \in net : m.ask.said = u.pending.said => m.ask = u.pending /\ m.session = u.session
       /\ \A s \in Sessions : \A i \in DOMAIN log[s] :
            log[s][i].said = u.pending.said =>
              s = u.session /\ \A j \in DOMAIN u.screen : u.screen[j].at < i
       /\ Erases(u.pending)

\* At most one request is waited for: the one the page holds.
WaitedFor(u) ==
  /\ \A m \in net : m.live => u.call = "waiting" /\ m.ask = u.pending /\ m.session = u.session
  /\ \A m, k \in net : m.live /\ k.live => m = k

\* What is open is on screen as a trouble, and a trouble leaves what it lets the customer do.
Settled(u) ==
  /\ u.problem = "none" <=> u.pending = None
  /\ u.problem = "plain" => ~u.closed
  /\ u.pending # None /\ u.pending.kind = "say" => ~u.closed
  /\ u.session = None /\ u.screen # <<>> => u.problem = "gone" \/ (u.pending = None /\ u.closed)

\* A call under way has its ask, and its session unless it is being created.
UnderWay(u) ==
  /\ u.pending # None /\ u.problem = "none"
  /\ u.session = None <=> u.call = "creating"
  /\ u.pending.kind = "say" => ~u.closed
  /\ u.session = None => u.screen = <<>>

PageSound(u) ==
  IF u.call = "idle" THEN Settled(u) /\ ~u.eraseNext ELSE UnderWay(u)

\* The screen shows turns of the page's session.
Shown(u) ==
  \A j \in DOMAIN u.screen :
    /\ u.screen[j].at \in DOMAIN log[u.screen[j].session]
    /\ u.session # None => u.screen[j].session = u.session

ServerInv == Numbered /\ OneAsk /\ AnswersTrue /\ ErasedSound
PageInv(u) == Held(u) /\ WaitedFor(u) /\ PageSound(u) /\ Shown(u)

IInv == Types /\ ServerInv /\ PageInv(ui)

----------------------------------------------------------------------------
(* The page's helpers. *)

LEMMA AskType ==
  ASSUME asks \in Nat, NEW kind \in {"start", "say", "erase"}
  PROVE  /\ Fresh(kind) \in Ask /\ Fresh(kind) # None
         /\ Fresh(kind).kind = kind /\ Fresh(kind).said = asks + 1 /\ Fresh(kind).key = asks + 1
BY DEF Fresh, Ask

\* What send does to the page.
LEMMA SentFields ==
  ASSUME NEW u \in Ui, NEW ask \in Ask
  PROVE  LET v == Sent(u, ask) IN
         /\ v \in Ui
         /\ v.session = u.session /\ v.eraseNext = u.eraseNext
         /\ v.closed = u.closed /\ v.screen = u.screen
         /\ v.call = (IF u.session = None THEN "creating" ELSE "posting")
         /\ v.pending = ask /\ v.problem = "none"
BY DEF Sent, Ui, Trouble

LEMMA ForgetFields ==
  ASSUME NEW u \in Ui
  PROVE  LET v == Forget(u) IN
         /\ v \in Ui
         /\ v.session = None /\ v.call = u.call /\ v.eraseNext = u.eraseNext
         /\ v.pending = u.pending /\ v.problem = u.problem
         /\ v.closed = u.closed /\ v.screen = u.screen
BY DEF Forget, Ui

\* A call that ends leaves the page idle, or sends the queued erase.
LEMMA EndedFields ==
  ASSUME NEW u \in Ui, asks \in Nat
  PROVE  LET v == Ended(u) IN
         /\ v \in Ui
         /\ v.session = u.session /\ v.closed = u.closed /\ v.screen = u.screen
         /\ ~v.eraseNext
         /\ \/ /\ v.call = "idle" /\ v.pending = u.pending /\ v.problem = u.problem
               /\ Drawn(u) = asks
               /\ ~u.eraseNext \/ u.session = None
            \/ /\ u.session # None /\ v.call = "posting" /\ v.problem = "none"
               /\ v.pending = Fresh("erase")
               /\ Drawn(u) = asks + 1
<1> DEFINE idle == [u EXCEPT !.call = "idle", !.eraseNext = FALSE]
<1>1. /\ idle \in Ui
      /\ idle.session = u.session /\ idle.closed = u.closed /\ idle.screen = u.screen
      /\ idle.call = "idle" /\ idle.pending = u.pending /\ idle.problem = u.problem
      /\ ~idle.eraseNext
  BY DEF Ui
<1>2. MaySend(idle, "erase") <=> u.session # None
  BY <1>1 DEF MaySend
<1>3. MaySend(u, "erase") <=> u.session # None
  BY DEF MaySend
<1>4. Ended(u) = IF u.eraseNext /\ MaySend(idle, "erase") THEN Sent(idle, Fresh("erase")) ELSE idle
  BY DEF Ended
<1> HIDE DEF idle
<1>5. CASE u.eraseNext /\ u.session # None
  <2>1. Ended(u) = Sent(idle, Fresh("erase")) /\ Drawn(u) = asks + 1
    BY <1>2, <1>3, <1>4, <1>5 DEF Drawn
  <2> QED
    BY <1>1, <1>5, <2>1, SentFields, AskType
<1>6. CASE ~(u.eraseNext /\ u.session # None)
  <2>1. Ended(u) = idle /\ Drawn(u) = asks
    BY <1>2, <1>3, <1>4, <1>6 DEF Drawn
  <2> QED
    BY <1>1, <1>6, <2>1
<1> QED
  BY <1>5, <1>6

LEMMA TroubledFields ==
  ASSUME NEW u \in Ui, u.pending \in Ask,
         NEW code \in Answers \union {"unreachable"}, code # "ok"
  PROVE  LET v == Troubled(u, code) IN
         /\ v \in Ui
         /\ v.call = u.call /\ v.eraseNext = u.eraseNext /\ v.pending = u.pending
         /\ v.closed = u.closed /\ v.screen = u.screen
         /\ v.problem \in Trouble \ {"none"}
         /\ v.problem = "plain" => code = "too_large"
         /\ v.problem = "gone" <=> code = "unauthorized" /\ u.pending.kind = "erase"
         /\ v.session = (IF v.problem = "gone" THEN None ELSE u.session)
<1> DEFINE t == TroubleOf(code, u.pending.kind)
           shown == [u EXCEPT !.problem = t]
<1>1. /\ t \in Trouble \ {"none"}
      /\ t = "plain" => code = "too_large"
      /\ t = "gone" <=> code = "unauthorized" /\ u.pending.kind = "erase"
  BY DEF TroubleOf, Answers, Trouble
<1>2. Troubled(u, code) = IF t = "gone" THEN Forget(shown) ELSE shown
  BY DEF Troubled
<1> HIDE DEF t
<1>3. /\ shown \in Ui
      /\ shown.call = u.call /\ shown.eraseNext = u.eraseNext /\ shown.pending = u.pending
      /\ shown.closed = u.closed /\ shown.screen = u.screen /\ shown.problem = t
      /\ shown.session = u.session
  BY <1>1 DEF Ui
<1> HIDE DEF shown
<1> QED
  BY <1>1, <1>2, <1>3, ForgetFields

LEMMA AnsweredFields ==
  ASSUME NEW u \in Ui, u.pending \in Ask, NEW m \in Message, m.turn \in Nat \ {0}
  PROVE  LET v == Answered(u, m) IN
         /\ v \in Ui
         /\ v.call = u.call /\ v.eraseNext = u.eraseNext /\ v.pending = None
         /\ v.problem = u.problem
         /\ v.closed = (log[m.session][m.turn].state # "open")
         /\ v.screen = Append(u.screen, [session |-> m.session, at |-> m.turn])
         /\ v.session \in {None, u.session}
         /\ v.session = None /\ u.session # None =>
              u.pending.kind = "erase" \/ log[m.session][m.turn].state = "erasure"
<1> DEFINE state == log[m.session][m.turn].state
           shown == [u EXCEPT !.pending = None, !.closed = state # "open",
                              !.screen = Append(@, [session |-> m.session, at |-> m.turn])]
<1>1. Answered(u, m) =
        IF u.pending.kind = "erase" \/ state = "erasure" THEN Forget(shown) ELSE shown
  BY DEF Answered
<1>2. [session |-> m.session, at |-> m.turn] \in [session : Sessions, at : Nat \ {0}]
  BY DEF Message
<1>3. Append(u.screen, [session |-> m.session, at |-> m.turn])
        \in Seq([session : Sessions, at : Nat \ {0}])
  BY <1>2, AppendProperties DEF Ui
<1>4. /\ shown \in Ui
      /\ shown.call = u.call /\ shown.eraseNext = u.eraseNext /\ shown.pending = None
      /\ shown.problem = u.problem /\ shown.closed = (state # "open")
      /\ shown.screen = Append(u.screen, [session |-> m.session, at |-> m.turn])
      /\ shown.session = u.session
  BY <1>3 DEF Ui
<1> HIDE DEF shown, state
<1>5. Forget(shown) \in Ui
  BY <1>4, ForgetFields
<1> QED
  BY <1>1, <1>4, <1>5, ForgetFields DEF state

----------------------------------------------------------------------------
(* Steps in groups. *)

\* Each request of the next state is one of this state's, wherever it has got to.
SameRequests == \A k \in net' : \E n \in net : k.ask = n.ask /\ k.session = n.session

LEMMA ServerKeeps ==
  ASSUME Types, ServerInv, SameRequests, \A k \in net' : True(k),
         UNCHANGED <<log, status>>, asks' \in Nat, asks <= asks',
         \A s \in told' : status[s] = "erased"
  PROVE  ServerInv'
<1> USE DEF ServerInv, SameRequests
<1>1. Numbered'
  <2>1. \A m \in net' : m.ask.key = m.ask.said /\ m.ask.said <= asks'
    BY DEF Numbered, Types, TypeOK, Message, Ask
  <2>2. ASSUME NEW s \in Sessions, NEW i \in DOMAIN log[s]
        PROVE  log[s][i].key = log[s][i].said /\ log[s][i].said <= asks'
    <3>1. log[s][i] \in Entry
      BY DEF Types, TypeOK
    <3> QED
      BY <3>1 DEF Numbered, Types, Entry
  <2> QED
    BY <2>1, <2>2 DEF Numbered
<1>2. OneAsk'
  BY DEF OneAsk
<1>3. AnswersTrue'
  BY DEF AnswersTrue, True
<1>4. ErasedSound'
  <2>1. \A m \in net' : Erases(m.ask)'
    BY DEF ErasedSound, Erases
  <2> QED
    BY <2>1 DEF ErasedSound, ToldIsErased
<1> QED
  BY <1>1, <1>2, <1>3, <1>4

\* What is newly asked has no request and no turn yet.
LEMMA FreshIsHeld ==
  ASSUME Types, ServerInv, SameRequests, UNCHANGED <<log, status>>, asks' = asks + 1,
         ui'.pending.said = asks + 1, ui'.pending.key = asks + 1
  PROVE  Held(ui)'
<1>1. \A m \in net' : m.ask.said \in Nat /\ m.ask.said # ui'.pending.said
  BY DEF SameRequests, ServerInv, Numbered, Types, TypeOK, Message, Ask
<1>2. ASSUME NEW s \in Sessions, NEW i \in DOMAIN log[s]
      PROVE  log[s][i].said # ui'.pending.said
  <2>1. log[s][i] \in Entry
    BY DEF Types, TypeOK
  <2> QED
    BY <2>1 DEF ServerInv, Numbered, Types, Entry
<1> QED
  BY <1>1, <1>2 DEF Held, Holds, Erases, Types

\* A page that goes on holding the ask it held, with the same screen and session.
LEMMA HoldingOn ==
  ASSUME Types, Held(ui), SameRequests, UNCHANGED <<log, status>>, asks' \in Nat, asks <= asks',
         ui'.pending = ui.pending,
         Holds(ui)' => Holds(ui) /\ ui'.session = ui.session /\ ui'.screen = ui.screen
  PROVE  Held(ui)'
<1>1. ui.pending # None => ui.pending.said \in Nat
  BY DEF Types, TypeOK, Ui, Ask
<1>2. ui'.pending # None => ui'.pending.key = ui'.pending.said /\ ui'.pending.said <= asks'
  BY <1>1 DEF Held, Types
<1>3. ASSUME Holds(ui)'
      PROVE  /\ \A m \in net' : m.ask.said = ui'.pending.said =>
                  m.ask = ui'.pending /\ m.session = ui'.session
             /\ \A s \in Sessions : \A i \in DOMAIN log'[s] :
                  log'[s][i].said = ui'.pending.said =>
                    s = ui'.session /\ \A j \in DOMAIN ui'.screen : ui'.screen[j].at < i
             /\ Erases(ui.pending)'
  <2>1. /\ Holds(ui) /\ ui'.session = ui.session /\ ui'.screen = ui.screen
    BY <1>3
  <2>2. \A m \in net : m.ask.said = ui.pending.said => m.ask = ui.pending /\ m.session = ui.session
    BY <2>1 DEF Held
  <2> QED
    BY <2>1, <2>2 DEF Held, SameRequests, Erases
<1> QED
  BY <1>2, <1>3 DEF Held, Erases

\* The server's and the network's steps on the requests leave the page as it is.
LEMMA NetKeeps ==
  ASSUME IInv, net' \subseteq Message, SameRequests, \A k \in net' : True(k),
         \A k \in net' : k.live => \E n \in net : n.live /\ k.ask = n.ask /\ k.session = n.session,
         \A j, k \in net' : j.live /\ k.live => j = k,
         UNCHANGED <<ui, log, status, told, asks>>
  PROVE  IInv'
<1> USE DEF IInv
<1>1. Types'
  BY DEF Types, TypeOK
<1>2. ServerInv'
  BY ServerKeeps DEF Types, ServerInv, ErasedSound, ToldIsErased
<1>3. Held(ui)'
  BY HoldingOn DEF Types, PageInv, Holds
<1>4. WaitedFor(ui)'
  BY DEF WaitedFor, PageInv
<1>5. PageSound(ui)' /\ Shown(ui)'
  BY DEF PageInv, PageSound, Settled, UnderWay, Shown
<1> QED
  BY <1>1, <1>2, <1>3, <1>4, <1>5 DEF PageInv

\* A request moves on.
LEMMA MovedKeeps ==
  ASSUME IInv, NEW m \in net, NEW n \in Message, Moved(m, n),
         n.ask = m.ask, n.session = m.session, n.live = m.live, True(n),
         UNCHANGED <<ui, log, status, told, asks>>
  PROVE  IInv'
<1>1. net' \subseteq Message /\ SameRequests
  BY DEF Moved, SameRequests, IInv, Types, TypeOK
<1>2. \A k \in net' : True(k)
  BY DEF Moved, IInv, ServerInv, AnswersTrue
<1>3. \A k \in net' : k.live => \E j \in net : j.live /\ k.ask = j.ask /\ k.session = j.session
  BY DEF Moved
<1>4. \A j, k \in net' : j.live /\ k.live => j = k
  BY DEF Moved, IInv, PageInv, WaitedFor
<1> QED
  BY <1>1, <1>2, <1>3, <1>4, NetKeeps

\* The page sends something new, no request being waited for.
LEMMA FreshKeeps ==
  ASSUME IInv, SameRequests, net' \subseteq Message, \A k \in net' : True(k) /\ ~k.live,
         UNCHANGED <<log, status>>, told' \subseteq Sessions, \A s \in told' : status[s] = "erased",
         ui' \in Ui, asks' = asks + 1, ui'.pending \in Ask,
         ui'.pending.said = asks + 1, ui'.pending.key = asks + 1, ui'.problem = "none",
         ui'.call = (IF ui'.session = None THEN "creating" ELSE "posting"),
         ui'.pending.kind = "say" => ~ui'.closed,
         ui'.session = None => ui'.screen = <<>>,
         Shown(ui')
  PROVE  IInv'
<1> USE DEF IInv
<1>1. Types'
  BY DEF Types, TypeOK
<1>2. ServerInv'
  BY ServerKeeps DEF Types
<1>3. Held(ui)'
  BY FreshIsHeld
<1>4. WaitedFor(ui)'
  BY DEF WaitedFor
<1>5. PageSound(ui)'
  BY DEF PageSound, UnderWay
<1>6. Shown(ui)'
  BY DEF Shown
<1> QED
  BY <1>1, <1>2, <1>3, <1>4, <1>5, <1>6 DEF PageInv

\* A call ends: u is the page once it has taken the answer.
LEMMA EndedKeeps ==
  ASSUME IInv, SameRequests, net' \subseteq Message, \A k \in net' : True(k) /\ ~k.live,
         UNCHANGED <<log, status>>, told' \subseteq Sessions, \A s \in told' : status[s] = "erased",
         NEW u \in Ui, ui' = Ended(u), asks' = Drawn(u), Settled(u), Shown(u),
         u.pending # None => u.pending = ui.pending,
         Holds(u) => Holds(ui) /\ u.session = ui.session /\ u.screen = ui.screen
  PROVE  IInv'
<1>1. asks \in Nat
  BY DEF IInv, Types
<1>2. /\ ui' \in Ui
      /\ ui'.session = u.session /\ ui'.closed = u.closed /\ ui'.screen = u.screen
      /\ ~ui'.eraseNext
  BY <1>1, EndedFields
<1>3. Shown(ui')
  BY <1>2 DEF Shown
<1>4. CASE /\ ui'.call = "idle" /\ ui'.pending = u.pending /\ ui'.problem = u.problem
           /\ Drawn(u) = asks
  <2>1. Types'
    BY <1>2, <1>4 DEF IInv, Types, TypeOK
  <2>2. ServerInv'
    BY <1>1, <1>4, ServerKeeps DEF IInv
  <2>3. Held(ui)'
    <3>1. CASE u.pending = None
      BY <1>4, <3>1 DEF Held, Holds
    <3>2. CASE u.pending # None
      <4>1. Holds(ui)' => Holds(u)
        BY <1>4 DEF Holds
      <4> QED
        BY <1>1, <1>2, <1>4, <3>2, <4>1, HoldingOn DEF IInv, PageInv
    <3> QED
      BY <3>1, <3>2
  <2>4. WaitedFor(ui)'
    BY DEF WaitedFor
  <2>5. PageSound(ui)'
    BY <1>2, <1>4 DEF PageSound, Settled
  <2>6. Shown(ui)'
    BY <1>3 DEF Shown
  <2> QED
    BY <2>1, <2>2, <2>3, <2>4, <2>5, <2>6 DEF IInv, PageInv
<1>5. CASE /\ u.session # None /\ ui'.call = "posting" /\ ui'.problem = "none"
           /\ ui'.pending = Fresh("erase") /\ Drawn(u) = asks + 1
  BY <1>1, <1>2, <1>3, <1>5, AskType, FreshKeeps
<1> QED
  BY <1>1, <1>4, <1>5, EndedFields

\* While nothing is waited for, no request is live.
LEMMA NoneWaited ==
  ASSUME IInv, ui.call # "waiting"
  PROVE  /\ \A m \in net : ~m.live /\ True(m)
         /\ net \subseteq Message
         /\ told \subseteq Sessions /\ \A s \in told : status[s] = "erased"
BY DEF IInv, PageInv, WaitedFor, ServerInv, AnswersTrue, ErasedSound, ToldIsErased, Types, TypeOK

----------------------------------------------------------------------------
(* The customer's steps. *)

LEMMA SayKeeps == IInv /\ Say => IInv'
<1> SUFFICES ASSUME IInv, Say PROVE IInv'
  OBVIOUS
<1>1. ui \in Ui /\ asks \in Nat
  BY DEF IInv, Types, TypeOK
<1>2. Settled(ui) /\ Shown(ui) /\ ui.call = "idle" /\ ~ui.closed /\ ui.problem # "gone"
  BY DEF IInv, PageInv, PageSound, Say, CanSay, Idle, Dead
<1>3. /\ ui' = Sent(ui, Fresh("say")) /\ asks' = asks + 1
      /\ UNCHANGED <<net, log, status, told>>
  BY DEF Say, server
<1>4. /\ ui' \in Ui /\ ui'.session = ui.session /\ ui'.closed = ui.closed
      /\ ui'.screen = ui.screen /\ ui'.pending = Fresh("say") /\ ui'.problem = "none"
      /\ ui'.call = (IF ui.session = None THEN "creating" ELSE "posting")
  BY <1>1, <1>3, SentFields, AskType
<1>5. Shown(ui')
  BY <1>2, <1>4 DEF Shown
<1>6. ui.session = None => ui.screen = <<>>
  BY <1>2 DEF Settled
<1> QED
  BY <1>1, <1>2, <1>3, <1>4, <1>5, <1>6, AskType, NoneWaited, FreshKeeps DEF SameRequests

LEMMA EraseConfirmedKeeps == IInv /\ EraseConfirmed => IInv'
<1> SUFFICES ASSUME IInv, EraseConfirmed PROVE IInv'
  OBVIOUS
<1>1. ui \in Ui /\ asks \in Nat /\ ui.session # None
  BY DEF IInv, Types, TypeOK, EraseConfirmed
<1>2. UNCHANGED <<net, log, status, told>>
  BY DEF EraseConfirmed, server
<1>3. CASE ui.call = "idle"
  <2>1. ui' = Sent(ui, Fresh("erase")) /\ asks' = asks + 1
    BY <1>3 DEF EraseConfirmed, Idle
  <2>2. /\ ui' \in Ui /\ ui'.session = ui.session /\ ui'.closed = ui.closed
        /\ ui'.screen = ui.screen /\ ui'.pending = Fresh("erase") /\ ui'.problem = "none"
        /\ ui'.call = "posting"
    BY <1>1, <2>1, SentFields, AskType
  <2>3. Shown(ui')
    BY <2>2 DEF IInv, PageInv, Shown
  <2> QED
    BY <1>1, <1>2, <1>3, <2>1, <2>2, <2>3, AskType, NoneWaited, FreshKeeps DEF SameRequests
<1>4. CASE ui.call # "idle"
  <2>1. ui' = [ui EXCEPT !.eraseNext = TRUE] /\ asks' = asks
    BY <1>4 DEF EraseConfirmed, Idle
  <2>2. /\ ui' \in Ui /\ ui'.session = ui.session /\ ui'.closed = ui.closed
        /\ ui'.screen = ui.screen /\ ui'.pending = ui.pending /\ ui'.problem = ui.problem
        /\ ui'.call = ui.call
    BY <1>1, <2>1 DEF Ui
  <2>3. Types'
    BY <1>1, <1>2, <2>1, <2>2 DEF IInv, Types, TypeOK
  <2>4. ServerInv'
    BY <1>1, <1>2, <2>1, ServerKeeps
       DEF IInv, SameRequests, ServerInv, AnswersTrue, ErasedSound, ToldIsErased
  <2>5. Held(ui)'
    BY <1>1, <1>2, <2>1, <2>2, HoldingOn DEF IInv, PageInv, SameRequests, Holds
  <2>6. WaitedFor(ui)' /\ PageSound(ui)' /\ Shown(ui)'
    BY <1>2, <1>4, <2>2 DEF IInv, PageInv, WaitedFor, PageSound, UnderWay, Shown
  <2> QED
    BY <2>3, <2>4, <2>5, <2>6 DEF IInv, PageInv
<1> QED
  BY <1>3, <1>4

LEMMA RetryKeeps == IInv /\ Retry => IInv'
<1> SUFFICES ASSUME IInv, Retry PROVE IInv'
  OBVIOUS
<1>1. ui \in Ui /\ asks \in Nat /\ ui.pending \in Ask /\ ui.call = "idle" /\ ui.problem = "retry"
  BY DEF IInv, Types, TypeOK, Ui, Retry, CanRetry, Idle
<1>2. ui' = Sent(ui, ui.pending) /\ UNCHANGED <<net, log, status, told, asks>>
  BY DEF Retry, server
<1>3. /\ ui' \in Ui /\ ui'.session = ui.session /\ ui'.closed = ui.closed
      /\ ui'.screen = ui.screen /\ ui'.pending = ui.pending /\ ui'.problem = "none"
      /\ ui'.call = (IF ui.session = None THEN "creating" ELSE "posting")
  BY <1>1, <1>2, SentFields
<1>4. Types'
  BY <1>1, <1>2, <1>3 DEF IInv, Types, TypeOK
<1>5. ServerInv'
  BY <1>1, <1>2, ServerKeeps
     DEF IInv, SameRequests, ServerInv, AnswersTrue, ErasedSound, ToldIsErased
<1>6. Held(ui)'
  BY <1>1, <1>2, <1>3, HoldingOn DEF IInv, PageInv, SameRequests, Holds
<1>7. WaitedFor(ui)'
  BY <1>1, <1>2, NoneWaited DEF WaitedFor
<1>8. PageSound(ui)'
  BY <1>1, <1>3 DEF IInv, PageInv, PageSound, Settled, UnderWay
<1>9. Shown(ui)'
  BY <1>2, <1>3 DEF IInv, PageInv, Shown
<1> QED
  BY <1>4, <1>5, <1>6, <1>7, <1>8, <1>9 DEF IInv, PageInv

LEMMA RestartKeeps == IInv /\ Restart => IInv'
<1> SUFFICES ASSUME IInv, Restart PROVE IInv'
  OBVIOUS
<1> DEFINE v == Forget(ui)
           u == [v EXCEPT !.screen = <<>>, !.closed = FALSE]
<1>1. ui \in Ui /\ asks \in Nat /\ ui.call = "idle"
  BY DEF IInv, Types, TypeOK, Restart, CanRestart, Idle
<1>2. ui' = Sent(u, Fresh("start")) /\ asks' = asks + 1 /\ UNCHANGED <<net, log, status, told>>
  BY DEF Restart, server
<1>3. u \in Ui /\ u.session = None /\ u.screen = <<>> /\ ~u.closed
  <2>1. v \in Ui /\ v.session = None
    BY <1>1, ForgetFields
  <2>2. <<>> \in Seq([session : Sessions, at : Nat \ {0}])
    OBVIOUS
  <2> HIDE DEF v
  <2> QED
    BY <2>1, <2>2 DEF Ui
<1> HIDE DEF u
<1>4. /\ ui' \in Ui /\ ui'.session = None /\ ~ui'.closed /\ ui'.screen = <<>>
      /\ ui'.pending = Fresh("start") /\ ui'.problem = "none" /\ ui'.call = "creating"
  BY <1>1, <1>2, <1>3, SentFields, AskType
<1>5. Shown(ui')
  BY <1>4 DEF Shown
<1> QED
  BY <1>1, <1>2, <1>4, <1>5, AskType, NoneWaited, FreshKeeps DEF SameRequests

----------------------------------------------------------------------------
(* The page's calls. *)

LEMMA CreateKeeps == IInv /\ Create => IInv'
<1> SUFFICES ASSUME IInv, Create PROVE IInv'
  OBVIOUS
<1>1. PICK s \in Sessions :
        /\ status[s] = "none" /\ status' = [status EXCEPT ![s] = "open"]
        /\ ui' = [ui EXCEPT !.session = s, !.call = "posting"]
  BY DEF Create
<1>2. UNCHANGED <<net, log, told, asks>> /\ ui.call = "creating"
  BY DEF Create
<1>3. ui \in Ui /\ asks \in Nat
  BY DEF IInv, Types, TypeOK
<1>4. UnderWay(ui) /\ ui.session = None /\ ui.screen = <<>>
  BY <1>2 DEF IInv, PageInv, PageSound, UnderWay
<1>5. /\ ui' \in Ui /\ ui'.session = s /\ ui'.closed = ui.closed /\ ui'.screen = <<>>
      /\ ui'.pending = ui.pending /\ ui'.problem = ui.problem /\ ui'.call = "posting"
  BY <1>1, <1>3, <1>4 DEF Ui
<1>6. /\ status' \in [Sessions -> {"none", "open", "erased", "expired"}]
      /\ \A t \in Sessions : status[t] = "erased" => status'[t] = "erased"
  BY <1>1 DEF IInv, Types, TypeOK
<1>7. Types'
  BY <1>2, <1>5, <1>6 DEF IInv, Types, TypeOK
<1>8. ServerInv'
  <2>1. Numbered' /\ OneAsk'
    BY <1>2 DEF IInv, ServerInv, Numbered, OneAsk
  <2>2. AnswersTrue' /\ ErasedSound'
    BY <1>2, <1>6 DEF IInv, ServerInv, AnswersTrue, True, ErasedSound, Erases, ToldIsErased,
       Types, TypeOK, Message
  <2> QED
    BY <2>1, <2>2 DEF ServerInv
<1>9. Held(ui)'
  <2>1. Holds(ui) /\ Held(ui)
    BY <1>4 DEF IInv, PageInv, Holds, UnderWay
  <2>2. \A m \in net : m.ask.said # ui.pending.said
    BY <1>4, <2>1 DEF Held, IInv, Types, TypeOK, Message
  <2>3. \A t \in Sessions : \A i \in DOMAIN log[t] : log[t][i].said # ui.pending.said
    BY <1>4, <2>1 DEF Held
  <2> QED
    BY <1>2, <1>5, <2>1, <2>2, <2>3 DEF Held, Erases
<1>10. WaitedFor(ui)' /\ PageSound(ui)' /\ Shown(ui)'
  <2>1. WaitedFor(ui)'
    BY <1>2, NoneWaited DEF WaitedFor
  <2>2. PageSound(ui)'
    BY <1>4, <1>5 DEF PageSound, UnderWay
  <2>3. Shown(ui)'
    BY <1>5 DEF Shown
  <2> QED
    BY <2>1, <2>2, <2>3
<1> QED
  BY <1>7, <1>8, <1>9, <1>10 DEF IInv, PageInv

LEMMA CreateFailsKeeps == IInv /\ CreateFails => IInv'
<1> SUFFICES ASSUME IInv, CreateFails PROVE IInv'
  OBVIOUS
<1> DEFINE u == [ui EXCEPT !.problem = "retry"]
<1>1. /\ ui.call = "creating" /\ ui' = Ended(u) /\ asks' = Drawn(ui)
      /\ UNCHANGED <<net, log, status, told>>
  BY DEF CreateFails, server
<1>2. ui \in Ui /\ UnderWay(ui) /\ Shown(ui) /\ ui.session = None /\ ui.screen = <<>>
  BY <1>1 DEF IInv, Types, TypeOK, PageInv, PageSound, UnderWay
<1>3. /\ u \in Ui /\ u.session = None /\ u.screen = <<>> /\ u.closed = ui.closed
      /\ u.pending = ui.pending /\ u.problem = "retry" /\ u.eraseNext = ui.eraseNext
  BY <1>2 DEF Ui, Trouble
<1> HIDE DEF u
<1>4. Drawn(ui) = Drawn(u)
  BY <1>2, <1>3 DEF Drawn, MaySend
<1>5. Settled(u) /\ Shown(u)
  BY <1>2, <1>3 DEF Settled, Shown, UnderWay
<1>6. Holds(ui)
  BY <1>2 DEF Holds, UnderWay
<1> QED
  BY <1>1, <1>2, <1>3, <1>4, <1>5, <1>6, NoneWaited, EndedKeeps DEF SameRequests

LEMMA DeliverKeeps == IInv /\ Deliver => IInv'
<1> SUFFICES ASSUME IInv, Deliver PROVE IInv'
  OBVIOUS
<1> DEFINE m == [session |-> ui.session, ask |-> ui.pending, live |-> TRUE, at |-> "sent",
                 code |-> "ok", turn |-> 0]
<1>1. /\ ui.call = "posting" /\ net' = net \union {m} /\ ui' = [ui EXCEPT !.call = "waiting"]
      /\ UNCHANGED <<log, status, told, asks>>
  BY DEF Deliver, server
<1>2. ui \in Ui /\ UnderWay(ui) /\ Shown(ui) /\ Held(ui) /\ ui.session # None /\ Holds(ui)
  BY <1>1 DEF IInv, Types, TypeOK, PageInv, PageSound, UnderWay, Holds
<1>3. m \in Message /\ ui.session \in Sessions /\ ui.pending \in Ask
  BY <1>2 DEF Message, Ui, UnderWay, Answers
<1>4. /\ m.session = ui.session /\ m.ask = ui.pending /\ m.live
      /\ m.at = "sent" /\ m.code = "ok"
  OBVIOUS
<1> HIDE DEF m
<1>5. /\ ui' \in Ui /\ ui'.session = ui.session /\ ui'.closed = ui.closed
      /\ ui'.screen = ui.screen /\ ui'.pending = ui.pending /\ ui'.problem = ui.problem
      /\ ui'.call = "waiting"
  BY <1>1, <1>2 DEF Ui
<1>6. Types'
  BY <1>1, <1>3, <1>5 DEF IInv, Types, TypeOK
<1>7. ServerInv'
  <2>1. Numbered'
    BY <1>1, <1>2, <1>4 DEF IInv, ServerInv, Numbered, Held, UnderWay
  <2>2. \A k \in net : m.ask.said = k.ask.said => m.ask = k.ask /\ m.session = k.session
    BY <1>2, <1>4 DEF Held
  <2>3. OneAsk'
    BY <1>1, <1>2, <1>4, <2>2 DEF IInv, ServerInv, OneAsk, Held
  <2>4. AnswersTrue'
    BY <1>1, <1>4 DEF IInv, ServerInv, AnswersTrue, True
  <2>5. ErasedSound'
    BY <1>1, <1>2, <1>4 DEF IInv, ServerInv, ErasedSound, Erases, Held, ToldIsErased
  <2> QED
    BY <2>1, <2>3, <2>4, <2>5 DEF ServerInv
<1>8. Held(ui)'
  BY <1>1, <1>2, <1>4, <1>5 DEF Held, Holds, Erases
<1>9. WaitedFor(ui)'
  BY <1>1, <1>4, <1>5, NoneWaited DEF WaitedFor
<1>10. PageSound(ui)' /\ Shown(ui)'
  BY <1>1, <1>2, <1>5 DEF PageSound, UnderWay, Shown
<1> QED
  BY <1>6, <1>7, <1>8, <1>9, <1>10 DEF IInv, PageInv

\* The answer waited for, once it is taken off the network.
LEMMA AnswerTaken ==
  ASSUME IInv, ui.call = "waiting", NEW m \in net, m.live
  PROVE  /\ m \in Message /\ True(m) /\ m.ask = ui.pending /\ m.session = ui.session
         /\ ui \in Ui /\ UnderWay(ui) /\ Shown(ui) /\ Held(ui) /\ Holds(ui)
         /\ ui.pending \in Ask /\ ui.session # None
         /\ \A k \in net \ {m} : ~k.live
         /\ net \subseteq Message /\ \A k \in net : True(k)
BY DEF IInv, Types, TypeOK, PageInv, PageSound, UnderWay, Holds, WaitedFor, ServerInv,
   AnswersTrue, Ui

LEMMA ReceiveKeeps == IInv /\ Receive => IInv'
<1> SUFFICES ASSUME IInv, Receive PROVE IInv'
  OBVIOUS
<1>1. PICK m \in net :
        /\ m.live /\ m.at = "back"
        /\ net' = net \ {m}
        /\ IF m.code = "busy" /\ ~ui.again
           THEN ui' = [ui EXCEPT !.call = "backoff"] /\ UNCHANGED <<told, asks>>
           ELSE LET after == IF m.code = "ok" THEN Answered(ui, m) ELSE Troubled(ui, m.code) IN
                /\ ui' = Ended(after)
                /\ asks' = Drawn(after)
                /\ told' = told \union IF after.session = None THEN {m.session} ELSE {}
  BY DEF Receive
<1>2. ui.call = "waiting" /\ UNCHANGED <<log, status>>
  BY DEF Receive, server
<1>3. /\ m \in Message /\ True(m) /\ m.ask = ui.pending /\ m.session = ui.session
      /\ ui \in Ui /\ UnderWay(ui) /\ Shown(ui) /\ Held(ui) /\ Holds(ui)
      /\ ui.pending \in Ask /\ ui.session # None /\ ui.session \in Sessions
      /\ \A k \in net \ {m} : ~k.live
      /\ net \subseteq Message /\ \A k \in net : True(k)
  BY <1>1, <1>2, AnswerTaken DEF Ui
<1>4. /\ net' \subseteq Message /\ SameRequests
      /\ \A k \in net' : True(k) /\ ~k.live
  BY <1>1, <1>3 DEF SameRequests
<1>5. /\ told \subseteq Sessions /\ \A s \in told : status[s] = "erased"
      /\ asks \in Nat /\ log \in [Sessions -> Seq(Entry)]
  BY DEF IInv, ServerInv, ErasedSound, ToldIsErased, Types, TypeOK
<1>6. CASE m.code = "busy" /\ ~ui.again
  <2>1. ui' = [ui EXCEPT !.call = "backoff"] /\ UNCHANGED <<told, asks>>
    BY <1>1, <1>6
  <2>2. /\ ui' \in Ui /\ ui'.session = ui.session /\ ui'.closed = ui.closed
        /\ ui'.screen = ui.screen /\ ui'.pending = ui.pending /\ ui'.problem = ui.problem
        /\ ui'.call = "backoff"
    BY <1>3, <2>1 DEF Ui
  <2>3. Types'
    BY <1>2, <1>4, <2>1, <2>2 DEF IInv, Types, TypeOK
  <2>4. ServerInv'
    BY <1>2, <1>4, <1>5, <2>1, ServerKeeps DEF IInv
  <2>5. Held(ui)'
    BY <1>2, <1>3, <1>4, <1>5, <2>1, <2>2, HoldingOn DEF IInv, Holds
  <2>6. WaitedFor(ui)' /\ PageSound(ui)' /\ Shown(ui)'
    BY <1>2, <1>3, <1>4, <2>2 DEF WaitedFor, PageSound, UnderWay, Shown
  <2> QED
    BY <2>3, <2>4, <2>5, <2>6 DEF IInv, PageInv
<1>7. CASE ~(m.code = "busy" /\ ~ui.again) /\ m.code = "ok"
  <2> DEFINE u == Answered(ui, m)
  <2>1. /\ ui' = Ended(u) /\ asks' = Drawn(u)
        /\ told' = told \union IF u.session = None THEN {m.session} ELSE {}
    BY <1>1, <1>7
  <2>2. m.turn \in DOMAIN log[m.session] /\ log[m.session][m.turn].said = m.ask.said
    BY <1>1, <1>3, <1>7 DEF True
  <2>3. m.turn \in Nat \ {0} /\ log[m.session][m.turn] \in Entry
    BY <1>3, <1>5, <2>2
  <2>4. /\ u \in Ui /\ u.pending = None /\ u.problem = "none"
        /\ u.closed = (log[m.session][m.turn].state # "open")
        /\ u.screen = Append(ui.screen, [session |-> m.session, at |-> m.turn])
        /\ u.session \in {None, ui.session}
        /\ u.session = None =>
             ui.pending.kind = "erase" \/ log[m.session][m.turn].state = "erasure"
    BY <1>3, <2>3, AnsweredFields DEF UnderWay
  <2> HIDE DEF u
  <2>5. u.session = None => status[m.session] = "erased" /\ u.closed
    <3>1. CASE log[m.session][m.turn].state = "erasure"
      BY <1>3, <2>2, <2>4, <3>1 DEF IInv, ServerInv, ErasedSound
    <3>2. CASE ui.pending.kind = "erase"
      BY <1>3, <2>2, <2>4, <3>2 DEF Held, Erases
    <3> QED
      BY <2>4, <3>1, <3>2
  <2>6. told' \subseteq Sessions /\ \A s \in told' : status[s] = "erased"
    BY <1>3, <1>5, <2>1, <2>5
  <2>7. Settled(u)
    BY <2>4, <2>5 DEF Settled
  <2>8. Shown(u)
    <3>1. ui.screen \in Seq([session : Sessions, at : Nat \ {0}])
      BY <1>3 DEF Ui
    <3>2. ASSUME NEW j \in DOMAIN u.screen
          PROVE  /\ u.screen[j].at \in DOMAIN log[u.screen[j].session]
                 /\ u.screen[j].session = ui.session
      <4>1. CASE j \in DOMAIN ui.screen
        <5>1. u.screen[j] = ui.screen[j]
          BY <2>4, <3>1, <4>1
        <5> QED
          BY <1>3, <4>1, <5>1 DEF Shown
      <4>2. CASE j \notin DOMAIN ui.screen
        <5>1. u.screen[j] = [session |-> m.session, at |-> m.turn]
          BY <2>4, <3>1, <3>2, <4>2
        <5> QED
          BY <1>3, <2>2, <5>1
      <4> QED
        BY <4>1, <4>2
    <3> QED
      BY <2>4, <3>2 DEF Shown
  <2> QED
    BY <1>2, <1>4, <2>1, <2>4, <2>6, <2>7, <2>8, EndedKeeps DEF Holds
<1>8. CASE ~(m.code = "busy" /\ ~ui.again) /\ m.code # "ok"
  <2> DEFINE u == Troubled(ui, m.code)
  <2>1. /\ ui' = Ended(u) /\ asks' = Drawn(u)
        /\ told' = told \union IF u.session = None THEN {m.session} ELSE {}
    BY <1>1, <1>8
  <2>2. /\ u \in Ui
        /\ u.pending = ui.pending
        /\ u.closed = ui.closed /\ u.screen = ui.screen
        /\ u.problem \in Trouble \ {"none"}
        /\ u.problem = "plain" => m.code = "too_large"
        /\ u.problem = "gone" <=> m.code = "unauthorized" /\ ui.pending.kind = "erase"
        /\ u.session = (IF u.problem = "gone" THEN None ELSE ui.session)
    BY <1>3, <1>8, TroubledFields DEF Message
  <2> HIDE DEF u
  <2>3. told' \subseteq Sessions /\ \A s \in told' : status[s] = "erased"
    BY <1>1, <1>3, <1>5, <2>1, <2>2 DEF True
  <2>4. Settled(u)
    BY <1>1, <1>3, <2>2 DEF Settled, UnderWay, True
  <2>5. Shown(u)
    BY <1>3, <2>2 DEF Shown
  <2> QED
    BY <1>2, <1>3, <1>4, <2>1, <2>2, <2>3, <2>4, <2>5, EndedKeeps DEF Holds
<1> QED
  BY <1>6, <1>7, <1>8

LEMMA BusyAgainKeeps == IInv /\ BusyAgain => IInv'
<1> SUFFICES ASSUME IInv, BusyAgain PROVE IInv'
  OBVIOUS
<1>1. /\ ui.call = "backoff" /\ ui' = [ui EXCEPT !.call = "posting", !.again = TRUE]
      /\ UNCHANGED <<net, log, status, told, asks>>
  BY DEF BusyAgain, server
<1>2. ui \in Ui /\ UnderWay(ui) /\ Shown(ui)
  BY <1>1 DEF IInv, Types, TypeOK, PageInv, PageSound
<1>3. /\ ui' \in Ui /\ ui'.session = ui.session /\ ui'.closed = ui.closed
      /\ ui'.screen = ui.screen /\ ui'.pending = ui.pending /\ ui'.problem = ui.problem
      /\ ui'.call = "posting"
  BY <1>1, <1>2 DEF Ui
<1>4. Types'
  BY <1>1, <1>3 DEF IInv, Types, TypeOK
<1>5. ServerInv'
  BY <1>1, ServerKeeps
     DEF IInv, Types, SameRequests, ServerInv, AnswersTrue, ErasedSound, ToldIsErased
<1>6. Held(ui)'
  BY <1>1, <1>3, HoldingOn DEF IInv, Types, PageInv, SameRequests, Holds
<1>7. WaitedFor(ui)' /\ PageSound(ui)' /\ Shown(ui)'
  BY <1>1, <1>2, <1>3, NoneWaited DEF WaitedFor, PageSound, UnderWay, Shown
<1> QED
  BY <1>4, <1>5, <1>6, <1>7 DEF IInv, PageInv

LEMMA UnreachableKeeps == IInv /\ Unreachable => IInv'
<1> SUFFICES ASSUME IInv, Unreachable PROVE IInv'
  OBVIOUS
<1> DEFINE u == Troubled(ui, "unreachable")
<1>1. PICK m \in net : m.live /\ net' = (net \ {m}) \union {[m EXCEPT !.live = FALSE]}
  BY DEF Unreachable
<1>2. /\ ui.call = "waiting" /\ ui' = Ended(u) /\ asks' = Drawn(u)
      /\ UNCHANGED <<log, status, told>>
  BY DEF Unreachable, server
<1>3. /\ m \in Message /\ True(m) /\ m.ask = ui.pending /\ m.session = ui.session
      /\ ui \in Ui /\ UnderWay(ui) /\ Shown(ui) /\ Holds(ui)
      /\ ui.pending \in Ask /\ ui.session # None
      /\ \A k \in net \ {m} : ~k.live
      /\ net \subseteq Message /\ \A k \in net : True(k)
  BY <1>1, <1>2, AnswerTaken
<1> DEFINE n == [m EXCEPT !.live = FALSE]
<1>4. /\ n \in Message /\ n.ask = m.ask /\ n.session = m.session /\ ~n.live
      /\ n.at = m.at /\ n.code = m.code /\ n.turn = m.turn
  BY <1>3 DEF Message
<1> HIDE DEF n
<1>5. /\ net' \subseteq Message /\ SameRequests /\ \A k \in net' : ~k.live /\ True(k)
  <2>1. net' = (net \ {m}) \union {n}
    BY <1>1 DEF n
  <2>2. True(n)
    BY <1>3, <1>4 DEF True
  <2> QED
    BY <1>3, <1>4, <2>1, <2>2 DEF SameRequests
<1>6. /\ u \in Ui
      /\ u.pending = ui.pending
      /\ u.closed = ui.closed /\ u.screen = ui.screen
      /\ u.problem \in Trouble \ {"none", "plain", "gone"}
      /\ u.session = ui.session
  BY <1>3, TroubledFields
<1> HIDE DEF u
<1>7. Settled(u) /\ Shown(u)
  BY <1>3, <1>6 DEF Settled, UnderWay, Shown
<1>8. told' \subseteq Sessions /\ \A s \in told' : status[s] = "erased"
  BY <1>2 DEF IInv, ServerInv, ErasedSound, ToldIsErased, Types, TypeOK
<1> QED
  BY <1>2, <1>3, <1>5, <1>6, <1>7, <1>8, EndedKeeps DEF Holds

----------------------------------------------------------------------------
(* The API's and the network's steps. *)

\* An answer that says nothing but that the request was refused.
LEMMA RefusedFields ==
  ASSUME NEW m \in Message, NEW code \in Answers
  PROVE  LET n == Refused(m, code) IN
         /\ n \in Message /\ n.ask = m.ask /\ n.session = m.session /\ n.live = m.live
         /\ n.at = "back" /\ n.code = code
BY DEF Refused, Message

LEMMA RefusedKeeps ==
  ASSUME IInv, NEW m \in net, NEW code \in Answers \ {"ok"}, Moved(m, Refused(m, code)),
         code = "unauthorized" => status[m.session] = "erased",
         code = "too_large" => m.ask.kind = "say",
         UNCHANGED <<ui, log, status, told, asks>>
  PROVE  IInv'
<1> DEFINE n == Refused(m, code)
<1>1. m \in Message
  BY DEF IInv, Types, TypeOK
<1>2. /\ n \in Message /\ n.ask = m.ask /\ n.session = m.session /\ n.live = m.live
      /\ n.at = "back" /\ n.code = code
  BY <1>1, RefusedFields
<1>3. Moved(m, n)
  OBVIOUS
<1> HIDE DEF n
<1>4. True(n)
  BY <1>2 DEF True
<1> QED
  BY <1>2, <1>3, <1>4, MovedKeeps

LEMMA AdvancedKeeps ==
  ASSUME IInv, NEW m \in net, m.at # "back", NEW at \in {"authed", "running"},
         Moved(m, [m EXCEPT !.at = at]),
         UNCHANGED <<ui, log, status, told, asks>>
  PROVE  IInv'
<1> DEFINE n == [m EXCEPT !.at = at]
<1>1. m \in Message
  BY DEF IInv, Types, TypeOK
<1>2. /\ n \in Message /\ n.ask = m.ask /\ n.session = m.session /\ n.live = m.live
      /\ n.at # "back" /\ n.code = "ok"
  BY <1>1 DEF Message, IInv, ServerInv, AnswersTrue, True
<1>3. Moved(m, n)
  OBVIOUS
<1> HIDE DEF n
<1>4. True(n)
  BY <1>2 DEF True
<1> QED
  BY <1>2, <1>3, <1>4, MovedKeeps

LEMMA AuthenticateKeeps == \A m \in net : IInv /\ Authenticate(m) => IInv'
<1> SUFFICES ASSUME NEW m \in net, IInv, Authenticate(m) PROVE IInv'
  OBVIOUS
<1>1. UNCHANGED <<ui, log, status, told, asks>>
  BY DEF Authenticate, server
<1>2. CASE status[m.session] = "erased"
  <2>1. Moved(m, Refused(m, "unauthorized"))
    BY <1>2 DEF Authenticate
  <2> QED
    BY <1>1, <1>2, <2>1, RefusedKeeps DEF Answers
<1>3. CASE status[m.session] = "expired"
  <2>1. Moved(m, Refused(m, "expired"))
    BY <1>3 DEF Authenticate
  <2> QED
    BY <1>1, <2>1, RefusedKeeps DEF Answers
<1>4. CASE status[m.session] \notin {"erased", "expired"}
  <2>1. Moved(m, [m EXCEPT !.at = "authed"])
    BY <1>4 DEF Authenticate
  <2> QED
    BY <1>1, <2>1, AdvancedKeeps DEF Authenticate
<1> QED
  BY <1>2, <1>3, <1>4

LEMMA AcquireLockKeeps == \A m \in net : IInv /\ AcquireLock(m) => IInv'
<1> SUFFICES ASSUME NEW m \in net, IInv, AcquireLock(m) PROVE IInv'
  OBVIOUS
<1>1. UNCHANGED <<ui, log, status, told, asks>>
  BY DEF AcquireLock, server
<1>2. CASE Running(m.session)
  <2>1. Moved(m, Refused(m, "busy"))
    BY <1>2 DEF AcquireLock
  <2> QED
    BY <1>1, <2>1, RefusedKeeps DEF Answers
<1>3. CASE ~Running(m.session)
  <2>1. Moved(m, [m EXCEPT !.at = "running"])
    BY <1>3 DEF AcquireLock
  <2> QED
    BY <1>1, <2>1, AdvancedKeeps DEF AcquireLock
<1> QED
  BY <1>2, <1>3

LEMMA TooLargeKeeps == \A m \in net : IInv /\ TooLarge(m) => IInv'
<1> SUFFICES ASSUME NEW m \in net, IInv, TooLarge(m) PROVE IInv'
  OBVIOUS
<1> QED
  BY RefusedKeeps DEF TooLarge, server, Answers

LEMMA FailsKeeps == \A m \in net : IInv /\ Fails(m) => IInv'
<1> SUFFICES ASSUME NEW m \in net, IInv, Fails(m) PROVE IInv'
  OBVIOUS
<1> QED
  BY RefusedKeeps DEF Fails, server, Answers

LEMMA VanishesKeeps == \A m \in net : IInv /\ Vanishes(m) => IInv'
<1> SUFFICES ASSUME NEW m \in net, IInv, Vanishes(m) PROVE IInv'
  OBVIOUS
<1>1. net' \subseteq net /\ UNCHANGED <<ui, log, status, told, asks>>
  BY DEF Vanishes, server
<1> QED
  BY <1>1, NetKeeps
     DEF SameRequests, IInv, Types, TypeOK, ServerInv, AnswersTrue, PageInv, WaitedFor

LEMMA ExpireKeeps == \A s \in Sessions : IInv /\ Expire(s) => IInv'
<1> SUFFICES ASSUME NEW s \in Sessions, IInv, Expire(s) PROVE IInv'
  OBVIOUS
<1>1. /\ UNCHANGED <<ui, net, log, told, asks>>
      /\ status[s] = "open" /\ status' = [status EXCEPT ![s] = "expired"]
  BY DEF Expire
<1>2. /\ status' \in [Sessions -> {"none", "open", "erased", "expired"}]
      /\ \A t \in Sessions : status[t] = "erased" => status'[t] = "erased"
  BY <1>1 DEF IInv, Types, TypeOK
<1>3. Types'
  BY <1>1, <1>2 DEF IInv, Types, TypeOK
<1>4. ServerInv'
  <2>1. Numbered' /\ OneAsk'
    BY <1>1 DEF IInv, ServerInv, Numbered, OneAsk
  <2>2. AnswersTrue' /\ ErasedSound'
    BY <1>1, <1>2 DEF IInv, ServerInv, AnswersTrue, True, ErasedSound, Erases, ToldIsErased,
       Types, TypeOK, Message
  <2> QED
    BY <2>1, <2>2 DEF ServerInv
<1>5. PageInv(ui)'
  BY <1>1, <1>2 DEF IInv, PageInv, Held, Holds, Erases, WaitedFor, PageSound, Settled, UnderWay,
     Shown
<1> QED
  BY <1>3, <1>4, <1>5 DEF IInv

----------------------------------------------------------------------------
(* The turn. *)

\* The turn's entry, what it leaves of the session's row, and the answer.
LEMMA CommitKeeps ==
  ASSUME IInv, NEW m \in net, m.at = "running", status[m.session] # "erased",
         WhereKey(m.session, m.ask.key) = {},
         NEW r \in Results(m.session, m.ask.kind),
         log' = [log EXCEPT ![m.session] = Append(@, Turned(m.ask, r))],
         status' = (IF r.deleted THEN [status EXCEPT ![m.session] = "erased"] ELSE status),
         Moved(m, [m EXCEPT !.at = "back", !.turn = Len(log[m.session]) + 1]),
         UNCHANGED <<ui, told, asks>>
  PROVE  IInv'
<1> DEFINE s == m.session
           last == Len(log[s]) + 1
           e == Turned(m.ask, r)
           n == [m EXCEPT !.at = "back", !.turn = last]
<1>1. m \in Message /\ s \in Sessions /\ log[s] \in Seq(Entry) /\ last \in Nat
  BY DEF IInv, Types, TypeOK, Message
<1>2. /\ e \in Entry /\ e.key = m.ask.key /\ e.said = m.ask.said
      /\ e.state = "erasure" => r.deleted
      /\ m.ask.kind = "erase" => r.deleted /\ e.state # "open"
  BY <1>1 DEF Turned, Results, Entry, Message, Ask
<1>3. /\ n \in Message /\ n.ask = m.ask /\ n.session = s /\ n.live = m.live
      /\ n.turn = last /\ n.at = "back" /\ n.code = "ok"
  <2>1. m.code = "ok"
    BY DEF IInv, ServerInv, AnswersTrue, True
  <2> HIDE DEF s, last
  <2>2. n \in Message
    BY <1>1 DEF Message
  <2> QED
    BY <1>1, <2>1, <2>2 DEF Message, s
<1>4. net' = (net \ {m}) \union {n}
  BY DEF Moved
<1> HIDE DEF n
<1>5. /\ log' \in [Sessions -> Seq(Entry)]
      /\ \A t \in Sessions \ {s} : log'[t] = log[t]
      /\ log'[s] = Append(log[s], e)
  BY <1>1, <1>2 DEF IInv, Types, TypeOK
<1> HIDE DEF e
<1>6. /\ DOMAIN log'[s] = DOMAIN log[s] \union {last}
      /\ log'[s][last] = e /\ last \notin DOMAIN log[s]
      /\ last \in Nat /\ \A i \in DOMAIN log[s] : i < last /\ log'[s][i] = log[s][i]
  BY <1>1, <1>2, <1>5, AppendProperties
<1> HIDE DEF last
<1>7. /\ \A t \in Sessions : \A i \in DOMAIN log[t] : i \in DOMAIN log'[t] /\ log'[t][i] = log[t][i]
      /\ \A t \in Sessions : \A i \in DOMAIN log'[t] :
           i \in DOMAIN log[t] \/ (t = s /\ i = last /\ log'[t][i] = e)
  BY <1>5, <1>6
<1>8. /\ status' \in [Sessions -> {"none", "open", "erased", "expired"}]
      /\ \A t \in Sessions : status[t] = "erased" => status'[t] = "erased"
      /\ r.deleted => status'[s] = "erased"
  BY <1>1 DEF IInv, Types, TypeOK
\* Nothing answers this ask yet, in any session.
<1>9. \A t \in Sessions : \A i \in DOMAIN log[t] : log[t][i].said # e.said
  BY <1>1, <1>2 DEF WhereKey, IInv, ServerInv, OneAsk, Numbered
<1>10. Types'
  BY <1>3, <1>4, <1>5, <1>8 DEF IInv, Types, TypeOK
<1>11. SameRequests
  BY <1>3, <1>4 DEF SameRequests
<1>12. Numbered'
  BY <1>2, <1>7, <1>11 DEF IInv, ServerInv, Numbered, SameRequests
<1>13. OneAsk'
  <2>1. \A k \in net : k.ask.said = e.said => k.session = s /\ k.ask = m.ask
    BY <1>2 DEF IInv, ServerInv, OneAsk
  <2> QED
    BY <1>7, <1>11, <2>1 DEF IInv, ServerInv, OneAsk, SameRequests
<1>14. AnswersTrue'
  <2>1. \A k \in net : True(k)'
    BY <1>7, <1>8 DEF IInv, ServerInv, AnswersTrue, True, Types, TypeOK, Message
  <2>2. ASSUME NEW k, k = n PROVE True(k)'
    BY <1>1, <1>2, <1>3, <1>6, <2>2 DEF True
  <2> QED
    BY <1>4, <2>1, <2>2 DEF AnswersTrue
<1>15. ErasedSound'
  <2>1. ASSUME NEW t \in Sessions, NEW i \in DOMAIN log'[t], log'[t][i].state = "erasure"
        PROVE  status'[t] = "erased"
    BY <1>2, <1>7, <1>8, <2>1 DEF IInv, ServerInv, ErasedSound
  <2>2. ASSUME NEW k \in net
        PROVE  Erases(k.ask)'
    <3>1. ASSUME k.ask.kind = "erase", NEW t \in Sessions, NEW i \in DOMAIN log'[t],
                 log'[t][i].said = k.ask.said
          PROVE  status'[t] = "erased" /\ log'[t][i].state # "open"
      <4>1. CASE i \in DOMAIN log[t]
        BY <1>7, <1>8, <3>1, <4>1 DEF IInv, ServerInv, ErasedSound, Erases
      <4>2. CASE t = s /\ log'[t][i] = e
        <5>1. k.ask = m.ask
          BY <1>2, <3>1, <4>2 DEF IInv, ServerInv, OneAsk
        <5> QED
          BY <1>2, <1>8, <3>1, <4>2, <5>1
      <4> QED
        BY <1>7, <4>1, <4>2
    <3> QED
      BY <3>1 DEF Erases
  <2>3. ToldIsErased'
    BY <1>8 DEF IInv, Types, TypeOK, ServerInv, ErasedSound, ToldIsErased
  <2> QED
    BY <1>11, <2>1, <2>2, <2>3 DEF ErasedSound, SameRequests
\* The entry is the page's own only if the request is, and then nothing on the screen is after it.
<1>16. Held(ui)'
  <2>1. CASE ~Holds(ui)
    BY <2>1 DEF Held, Holds, IInv, PageInv
  <2>2. CASE Holds(ui)
    <3>1. Held(ui)
      BY DEF IInv, PageInv
    <3>2. ASSUME NEW t \in Sessions, NEW i \in DOMAIN log'[t], log'[t][i].said = ui.pending.said
          PROVE  /\ t = ui.session /\ \A j \in DOMAIN ui.screen : ui.screen[j].at < i
                 /\ ui.pending.kind = "erase" => status'[t] = "erased" /\ log'[t][i].state # "open"
      <4>1. CASE i \in DOMAIN log[t]
        BY <1>7, <1>8, <2>2, <3>1, <3>2, <4>1 DEF Held, Erases
      <4>2. CASE t = s /\ i = last /\ log'[t][i] = e
        <5>1. m.ask = ui.pending /\ s = ui.session
          BY <1>2, <2>2, <3>1, <3>2, <4>2 DEF Held
        <5>2. \A j \in DOMAIN ui.screen : ui.screen[j].at \in DOMAIN log[s]
          BY <1>1, <5>1 DEF IInv, PageInv, Shown
        <5> QED
          BY <1>2, <1>6, <1>8, <4>2, <5>1, <5>2
      <4> QED
        BY <1>7, <4>1, <4>2
    <3>3. \A k \in net' : k.ask.said = ui.pending.said =>
            k.ask = ui.pending /\ k.session = ui.session
      BY <1>11, <2>2, <3>1 DEF Held, SameRequests
    <3> QED
      BY <2>2, <3>1, <3>2, <3>3 DEF Held, Holds, Erases
  <2> QED
    BY <2>1, <2>2
<1>17. WaitedFor(ui)'
  BY <1>3, <1>4 DEF IInv, PageInv, WaitedFor
<1>18. PageSound(ui)'
  BY DEF IInv, PageInv, PageSound, Settled, UnderWay
<1>19. Shown(ui)'
  <2>1. \A j \in DOMAIN ui.screen : ui.screen[j].session \in Sessions
    <3> DEFINE Item == [session : Sessions, at : Nat \ {0}]
    <3>1. ui.screen \in Seq(Item)
      BY DEF IInv, Types, TypeOK, Ui
    <3>2. \A x \in Item : x.session \in Sessions
      OBVIOUS
    <3> HIDE DEF Item
    <3>3. \A j \in DOMAIN ui.screen : ui.screen[j] \in Item
      BY <3>1
    <3> QED
      BY <3>2, <3>3
  <2> QED
    BY <1>7, <2>1 DEF IInv, PageInv, Shown
<1> QED
  BY <1>10, <1>12, <1>13, <1>14, <1>15, <1>16, <1>17, <1>18, <1>19 DEF IInv, ServerInv, PageInv

LEMMA ServeKeeps == \A m \in net : IInv /\ Serve(m) => IInv'
<1> SUFFICES ASSUME NEW m \in net, IInv, Serve(m) PROVE IInv'
  OBVIOUS
<1>1. m.at = "running" /\ UNCHANGED <<ui, told, asks>>
  BY DEF Serve
<1>2. CASE /\ status[m.session] = "erased" /\ Moved(m, Refused(m, "unavailable"))
           /\ UNCHANGED server
  BY <1>1, <1>2, RefusedKeeps DEF server, Answers
<1>3. CASE /\ \E i \in WhereKey(m.session, m.ask.key) :
                Moved(m, [m EXCEPT !.at = "back", !.turn = i])
           /\ UNCHANGED server
  <2>1. PICK i \in WhereKey(m.session, m.ask.key) : Moved(m, [m EXCEPT !.at = "back", !.turn = i])
    BY <1>3
  <2> DEFINE n == [m EXCEPT !.at = "back", !.turn = i]
  <2>2. m \in Message /\ True(m) /\ log[m.session] \in Seq(Entry)
    BY DEF IInv, Types, TypeOK, ServerInv, AnswersTrue, Message
  <2>3. i \in DOMAIN log[m.session] /\ log[m.session][i].key = m.ask.key /\ i \in Nat
    BY <2>2 DEF WhereKey
  <2>4. log[m.session][i].said = m.ask.said
    BY <2>2, <2>3 DEF IInv, ServerInv, Numbered, Message
  <2>5. /\ n \in Message /\ n.ask = m.ask /\ n.session = m.session /\ n.live = m.live
        /\ n.at = "back" /\ n.code = m.code /\ n.turn = i
    BY <2>2, <2>3 DEF Message
  <2>6. Moved(m, n)
    BY <2>1
  <2> HIDE DEF n
  <2>7. True(n)
    BY <1>1, <2>2, <2>3, <2>4, <2>5 DEF True
  <2> QED
    BY <1>1, <1>3, <2>5, <2>6, <2>7, MovedKeeps DEF server
<1>4. CASE /\ status[m.session] # "erased"
           /\ WhereKey(m.session, m.ask.key) = {}
           /\ \E r \in Results(m.session, m.ask.kind) :
                /\ log' = [log EXCEPT ![m.session] = Append(@, Turned(m.ask, r))]
                /\ status' = IF r.deleted THEN [status EXCEPT ![m.session] = "erased"] ELSE status
           /\ Moved(m, [m EXCEPT !.at = "back", !.turn = Len(log[m.session]) + 1])
  BY <1>1, <1>4, CommitKeeps
<1> QED
  BY <1>2, <1>3, <1>4 DEF Serve

----------------------------------------------------------------------------
(* The theorems. *)

LEMMA InitIInv == Init => IInv
<1> SUFFICES ASSUME Init PROVE IInv
  OBVIOUS
<1>1. Types
  <2>1. [kind |-> "start", said |-> 1, key |-> 1] \in Ask
    BY DEF Ask
  <2> QED
    BY <2>1 DEF Init, Types, TypeOK, Ui, Trouble
<1>2. ui.pending # None
  BY DEF Init, Ask
<1>3. ServerInv
  BY DEF Init, ServerInv, Numbered, OneAsk, AnswersTrue, ErasedSound, Erases, ToldIsErased
<1>4. PageInv(ui)
  BY <1>2 DEF Init, PageInv, Held, Holds, Erases, WaitedFor, PageSound, UnderWay, Shown
<1> QED
  BY <1>1, <1>3, <1>4 DEF IInv

LEMMA NextIInv == IInv /\ [Next]_vars => IInv'
<1> SUFFICES ASSUME IInv, [Next]_vars PROVE IInv'
  OBVIOUS
<1>1. CASE Say \/ EraseConfirmed \/ Retry \/ Restart
  BY <1>1, SayKeeps, EraseConfirmedKeeps, RetryKeeps, RestartKeeps
<1>2. CASE Page
  BY <1>2, CreateKeeps, CreateFailsKeeps, DeliverKeeps, ReceiveKeeps, BusyAgainKeeps DEF Page
<1>3. CASE Unreachable
  BY <1>3, UnreachableKeeps
<1>4. CASE \E m \in net : Api(m) \/ TooLarge(m) \/ Fails(m) \/ Vanishes(m)
  BY <1>4, AuthenticateKeeps, AcquireLockKeeps, ServeKeeps, TooLargeKeeps, FailsKeeps,
     VanishesKeeps DEF Api
<1>5. CASE \E s \in Sessions : Expire(s)
  BY <1>5, ExpireKeeps
<1>6. CASE UNCHANGED vars
  BY <1>6 DEF vars, IInv, Types, TypeOK, ServerInv, Numbered, OneAsk, AnswersTrue, True,
     ErasedSound, Erases, ToldIsErased, PageInv, Held, Holds, WaitedFor, PageSound, Settled,
     UnderWay, Shown
<1> QED
  BY <1>1, <1>2, <1>3, <1>4, <1>5, <1>6 DEF Next

LEMMA AlwaysIInv == Spec => []IInv
BY InitIInv, NextIInv, PTL DEF Spec

\* The page, the requests and the log are always of their types.
THEOREM ClientTyped == Spec => []TypeOK
<1>1. IInv => TypeOK
  BY DEF IInv, Types
<1> QED
  BY <1>1, AlwaysIInv, PTL

\* The customer is told that a conversation is erased only once it is, and between calls every
\* unanswered ask is on screen as a trouble that leaves a way on.
THEOREM HonestScreen == Spec => []ScreenIsHonest
<1>1. IInv => ToldIsErased
  BY DEF IInv, ServerInv, ErasedSound
<1>2. IInv => NoDeadEnd
  <2> SUFFICES ASSUME IInv, ui.call = "idle"
               PROVE  /\ ui.pending # None => ui.problem # "none"
                      /\ CanSay \/ CanRetry \/ CanRestart
    BY DEF NoDeadEnd, Idle
  <2>1. Settled(ui) /\ ui.problem \in Trouble
    BY DEF IInv, Types, TypeOK, Ui, PageInv, PageSound
  <2> QED
    BY <2>1 DEF Settled, CanSay, CanRetry, CanRestart, Idle, Dead, Trouble
<1>3. IInv => ScreenIsHonest
  BY <1>1, <1>2 DEF ScreenIsHonest
<1> QED
  BY <1>3, AlwaysIInv, PTL

\* While a call runs, an erase confirmed meanwhile is the next thing sent: nothing goes before it,
\* and it is dropped only with the session.
THEOREM QueuedEraseGoesNext == Spec => EraseGoesNext
<1> DEFINE A == ui.eraseNext =>
              /\ ui'.pending \notin {ui.pending, None} => ui'.pending.kind = "erase"
              /\ ~ui'.eraseNext => \/ ui'.session = None
                                  \/ (ui'.call = "posting" /\ ui'.pending.kind = "erase")
<1>1. IInv /\ [Next]_vars => [A]_vars
  <2> SUFFICES ASSUME IInv, Next, ui.eraseNext
               PROVE  /\ ui'.pending \notin {ui.pending, None} => ui'.pending.kind = "erase"
                      /\ ~ui'.eraseNext => \/ ui'.session = None
                                          \/ (ui'.call = "posting" /\ ui'.pending.kind = "erase")
    OBVIOUS
  <2>1. ui \in Ui /\ asks \in Nat /\ ui.call # "idle" /\ UnderWay(ui) /\ ui.pending \in Ask
    BY DEF IInv, Types, TypeOK, PageInv, PageSound, UnderWay, Ui
  <2>2. ASSUME NEW u \in Ui, ui' = Ended(u), u.eraseNext, u.pending \in {ui.pending, None}
        PROVE  A
    BY <2>1, <2>2, EndedFields, AskType
  <2>3. ASSUME ui'.eraseNext = ui.eraseNext, ui'.pending = ui.pending
        PROVE  A
    BY <2>3
  <2>4. ~Say /\ ~Retry /\ ~Restart
    BY <2>1 DEF Say, CanSay, Retry, CanRetry, Restart, CanRestart, Idle
  <2>5. CASE EraseConfirmed
    BY <2>1, <2>3, <2>5 DEF EraseConfirmed, Idle, Ui
  <2>6. CASE Create \/ Deliver \/ BusyAgain
    BY <2>1, <2>3, <2>6 DEF Create, Deliver, BusyAgain, Ui
  <2>7. CASE CreateFails
    <3> DEFINE u == [ui EXCEPT !.problem = "retry"]
    <3>1. ui' = Ended(u)
      BY <2>7 DEF CreateFails
    <3>2. u \in Ui /\ u.pending = ui.pending /\ u.eraseNext = ui.eraseNext
      BY <2>1 DEF Ui, Trouble
    <3> HIDE DEF u
    <3> QED
      BY <2>2, <3>1, <3>2
  <2>8. CASE Receive
    <3>1. PICK m \in net :
            /\ m.live /\ m.at = "back"
            /\ IF m.code = "busy" /\ ~ui.again
               THEN ui' = [ui EXCEPT !.call = "backoff"]
               ELSE LET after == IF m.code = "ok" THEN Answered(ui, m) ELSE Troubled(ui, m.code)
                    IN  ui' = Ended(after)
      BY <2>8 DEF Receive
    <3>2. ui.call = "waiting"
      BY <2>8 DEF Receive
    <3>3. m \in Message /\ True(m)
      BY <3>1, <3>2, AnswerTaken
    <3>4. CASE m.code = "busy" /\ ~ui.again
      <4>1. ui' = [ui EXCEPT !.call = "backoff"]
        BY <3>1, <3>4
      <4> QED
        BY <2>1, <2>3, <4>1 DEF Ui
    <3>5. CASE ~(m.code = "busy" /\ ~ui.again) /\ m.code = "ok"
      <4>1. m.turn \in Nat \ {0}
        BY <3>1, <3>3, <3>5 DEF True, Message, IInv, Types, TypeOK
      <4>2. /\ Answered(ui, m) \in Ui /\ Answered(ui, m).pending = None
            /\ Answered(ui, m).eraseNext = ui.eraseNext
        BY <2>1, <3>3, <4>1, AnsweredFields
      <4> QED
        BY <2>2, <3>1, <3>5, <4>2
    <3>6. CASE ~(m.code = "busy" /\ ~ui.again) /\ m.code # "ok"
      <4>1. m.code \in Answers /\ m.code # "ok"
        BY <3>3, <3>6 DEF Message
      <4> HIDE DEF A
      <4>2. /\ Troubled(ui, m.code) \in Ui /\ Troubled(ui, m.code).pending = ui.pending
            /\ Troubled(ui, m.code).eraseNext = ui.eraseNext
        BY <2>1, <4>1, TroubledFields
      <4>3. ui' = Ended(Troubled(ui, m.code))
        BY <3>1, <3>6
      <4>4. A
        BY <2>2, <4>2, <4>3
      <4> QED
        BY <4>4 DEF A
    <3> QED
      BY <3>4, <3>5, <3>6
  <2>9. CASE Unreachable
    <3>1. ui' = Ended(Troubled(ui, "unreachable"))
      BY <2>9 DEF Unreachable
    <3>2. /\ Troubled(ui, "unreachable") \in Ui
          /\ Troubled(ui, "unreachable").pending = ui.pending
          /\ Troubled(ui, "unreachable").eraseNext = ui.eraseNext
      BY <2>1, TroubledFields
    <3> QED
      BY <2>2, <3>1, <3>2
  <2>10. CASE \/ \E m \in net : Api(m) \/ TooLarge(m) \/ Fails(m) \/ Vanishes(m)
              \/ \E s \in Sessions : Expire(s)
    BY <2>3, <2>10 DEF Api, Authenticate, AcquireLock, Serve, TooLarge, Fails, Vanishes, Expire
  <2> QED
    BY <2>4, <2>5, <2>6, <2>7, <2>8, <2>9, <2>10 DEF Next, Page
<1> QED
  BY <1>1, AlwaysIInv, PTL DEF Spec, EraseGoesNext

----------------------------------------------------------------------------
(* The refinement: a served request commits, an answer shows, a new start clears. *)

LEMMA ServeImplements ==
  ASSUME IInv, NEW m \in net, Serve(m)
  PROVE  [Promise!DialogueNext]_(Promise!dialogueVars)
<1>1. ui' = ui
  BY DEF Serve
<1>2. CASE log' = log
  BY <1>1, <1>2 DEF Promise!dialogueVars
<1>3. CASE /\ WhereKey(m.session, m.ask.key) = {}
           /\ \E r \in Results(m.session, m.ask.kind) :
                log' = [log EXCEPT ![m.session] = Append(@, Turned(m.ask, r))]
  <2>1. PICK r \in Results(m.session, m.ask.kind) :
          log' = [log EXCEPT ![m.session] = Append(@, Turned(m.ask, r))]
    BY <1>3
  <2> DEFINE s == m.session
             e == Turned(m.ask, r)
  <2>2. m \in Message /\ s \in Sessions /\ log \in [Sessions -> Seq(Entry)]
    BY DEF IInv, Types, TypeOK, Message
  <2>3. e \in Entry /\ e.said = m.ask.said
    BY <2>2 DEF Turned, Results, Entry, Message, Ask
  <2>4. \A t \in Sessions : \A i \in DOMAIN log[t] : log[t][i].said # e.said
    BY <1>3, <2>2, <2>3 DEF WhereKey, IInv, ServerInv, OneAsk, Numbered
  <2>5. log' = [log EXCEPT ![s] = Append(@, e)] /\ log'[s] = Append(log[s], e)
    BY <2>1, <2>2
  <2> HIDE DEF e, s
  <2>6. Len(log'[s]) = Len(log[s]) + 1 /\ log'[s][Len(log'[s])] = e
    BY <2>2, <2>3, <2>5, AppendProperties
  <2>7. \A t \in Sessions : e.said \notin Promise!Said(t)
    BY <2>4 DEF Promise!Said
  <2>8. Promise!Commit(s)
    BY <1>1, <2>5, <2>6, <2>7 DEF Promise!Commit
  <2> QED
    BY <2>2, <2>8 DEF Promise!DialogueNext
<1> QED
  BY <1>2, <1>3 DEF Serve, server

LEMMA ReceiveImplements ==
  ASSUME IInv, Receive
  PROVE  [Promise!DialogueNext]_(Promise!dialogueVars)
<1>1. PICK m \in net :
        /\ m.live /\ m.at = "back"
        /\ IF m.code = "busy" /\ ~ui.again
           THEN ui' = [ui EXCEPT !.call = "backoff"]
           ELSE LET after == IF m.code = "ok" THEN Answered(ui, m) ELSE Troubled(ui, m.code)
                IN  ui' = Ended(after)
  BY DEF Receive
<1>2. ui.call = "waiting" /\ log' = log /\ asks \in Nat
  BY DEF Receive, server, IInv, Types
<1>3. /\ m \in Message /\ True(m) /\ m.ask = ui.pending /\ m.session = ui.session
      /\ ui \in Ui /\ UnderWay(ui) /\ Shown(ui) /\ Held(ui) /\ Holds(ui)
      /\ ui.pending \in Ask /\ ui.session # None /\ ui.session \in Sessions
  BY <1>1, <1>2, AnswerTaken DEF Ui
<1>4. CASE ui'.screen = ui.screen
  BY <1>2, <1>4 DEF Promise!dialogueVars
<1>5. CASE m.code = "busy" /\ ~ui.again
  <2>1. ui' = [ui EXCEPT !.call = "backoff"]
    BY <1>1, <1>5
  <2> QED
    BY <1>3, <1>4, <2>1 DEF Ui
<1>6. CASE ~(m.code = "busy" /\ ~ui.again) /\ m.code # "ok"
  <2>1. /\ Troubled(ui, m.code) \in Ui /\ Troubled(ui, m.code).screen = ui.screen
    BY <1>3, <1>6, TroubledFields DEF Message
  <2>2. ui' = Ended(Troubled(ui, m.code))
    BY <1>1, <1>6
  <2> QED
    BY <1>2, <1>4, <2>1, <2>2, EndedFields
<1>7. CASE ~(m.code = "busy" /\ ~ui.again) /\ m.code = "ok"
  <2>1. m.turn \in DOMAIN log[m.session] /\ log[m.session][m.turn].said = m.ask.said
    BY <1>1, <1>3, <1>7 DEF True
  <2>2. m.turn \in Nat \ {0}
    BY <1>3, <2>1 DEF Message, IInv, Types, TypeOK
  <2>3. /\ Answered(ui, m) \in Ui
        /\ Answered(ui, m).screen = Append(ui.screen, [session |-> m.session, at |-> m.turn])
    BY <1>3, <2>2, AnsweredFields
  <2>4. ui' = Ended(Answered(ui, m))
    BY <1>1, <1>7
  <2>5. ui'.screen = Append(ui.screen, [session |-> m.session, at |-> m.turn])
    BY <1>2, <2>3, <2>4, EndedFields
  <2>6. \A i \in DOMAIN ui.screen :
          ui.screen[i].session = m.session /\ ui.screen[i].at < m.turn
    BY <1>3, <2>1 DEF Shown, Held
  <2>7. Promise!Show(m.session, m.turn)
    BY <1>2, <2>1, <2>5, <2>6 DEF Promise!Show
  <2> QED
    BY <1>3, <2>1, <2>7 DEF Promise!DialogueNext
<1> QED
  BY <1>5, <1>6, <1>7

LEMMA RestartImplements ==
  ASSUME IInv, Restart
  PROVE  Promise!Clear
<1> DEFINE v == Forget(ui)
           u == [v EXCEPT !.screen = <<>>, !.closed = FALSE]
<1>1. ui' = Sent(u, Fresh("start")) /\ log' = log
  BY DEF Restart, server
<1>2. ui \in Ui /\ asks \in Nat
  BY DEF IInv, Types, TypeOK
<1>3. u \in Ui /\ u.screen = <<>>
  <2>1. v \in Ui
    BY <1>2, ForgetFields
  <2>2. <<>> \in Seq([session : Sessions, at : Nat \ {0}])
    OBVIOUS
  <2> HIDE DEF v
  <2> QED
    BY <2>1, <2>2 DEF Ui
<1> HIDE DEF u
<1> QED
  BY <1>1, <1>2, <1>3, SentFields, AskType DEF Promise!Clear

\* Any other step leaves the screen and the logs as they are.
LEMMA OtherStutters ==
  ASSUME IInv,
         \/ Say \/ EraseConfirmed \/ Retry \/ Create \/ CreateFails \/ Deliver \/ BusyAgain
         \/ Unreachable
         \/ \E m \in net :
              Authenticate(m) \/ AcquireLock(m) \/ TooLarge(m) \/ Fails(m) \/ Vanishes(m)
         \/ \E s \in Sessions : Expire(s)
         \/ UNCHANGED vars
  PROVE  UNCHANGED Promise!dialogueVars
<1>1. ui \in Ui /\ asks \in Nat
  BY DEF IInv, Types, TypeOK
<1>2. log' = log
  BY DEF Say, EraseConfirmed, Retry, Create, CreateFails, Deliver, BusyAgain, Unreachable,
     Authenticate, AcquireLock, TooLarge, Fails, Vanishes, Expire, server, vars
<1> SUFFICES ui'.screen = ui.screen
  BY <1>2 DEF Promise!dialogueVars
<1>3. CASE Say
  BY <1>1, <1>3, SentFields, AskType DEF Say
<1>4. CASE EraseConfirmed
  <2>1. CASE ui.call = "idle"
    BY <1>1, <1>4, <2>1, SentFields, AskType DEF EraseConfirmed, Idle
  <2>2. CASE ui.call # "idle"
    BY <1>1, <1>4, <2>2 DEF EraseConfirmed, Idle, Ui
  <2> QED
    BY <2>1, <2>2
<1>5. CASE Retry
  <2>1. ui.pending \in Ask /\ ui' = Sent(ui, ui.pending)
    BY <1>1, <1>5 DEF Retry, CanRetry, Ui
  <2> QED
    BY <1>1, <2>1, SentFields
<1>6. CASE Create \/ Deliver \/ BusyAgain
  BY <1>1, <1>6 DEF Create, Deliver, BusyAgain, Ui
<1>7. CASE CreateFails
  <2> DEFINE u == [ui EXCEPT !.problem = "retry"]
  <2>1. ui' = Ended(u)
    BY <1>7 DEF CreateFails
  <2>2. u \in Ui /\ u.screen = ui.screen
    BY <1>1 DEF Ui, Trouble
  <2> HIDE DEF u
  <2> QED
    BY <1>1, <2>1, <2>2, EndedFields
<1>8. CASE Unreachable
  <2>1. ui' = Ended(Troubled(ui, "unreachable")) /\ ui.call = "waiting"
    BY <1>8 DEF Unreachable
  <2>2. ui.pending \in Ask
    BY <1>1, <2>1 DEF IInv, PageInv, PageSound, UnderWay, Ui
  <2>3. Troubled(ui, "unreachable") \in Ui /\ Troubled(ui, "unreachable").screen = ui.screen
    BY <1>1, <2>2, TroubledFields
  <2> QED
    BY <1>1, <2>1, <2>3, EndedFields
<1>9. CASE \/ \E m \in net :
                Authenticate(m) \/ AcquireLock(m) \/ TooLarge(m) \/ Fails(m) \/ Vanishes(m)
           \/ \E s \in Sessions : Expire(s)
           \/ UNCHANGED vars
  BY <1>9 DEF Authenticate, AcquireLock, TooLarge, Fails, Vanishes, Expire, vars
<1> QED
  BY <1>3, <1>4, <1>5, <1>6, <1>7, <1>8, <1>9

\* Whatever is lost, delayed, retried or served late, each thing said is at most one turn, and the
\* screen shows turns of one session in their order, each once.
THEOREM ImplementsThePromise == Spec => ImplementsDialogue
<1>1. Init => Promise!DialogueInit
  BY DEF Init, Promise!DialogueInit
<1>2. IInv /\ [Next]_vars => [Promise!DialogueNext]_(Promise!dialogueVars)
  <2> SUFFICES ASSUME IInv, [Next]_vars PROVE [Promise!DialogueNext]_(Promise!dialogueVars)
    OBVIOUS
  <2>1. CASE Restart
    BY <2>1, RestartImplements DEF Promise!DialogueNext
  <2>2. CASE Receive
    BY <2>2, ReceiveImplements
  <2>3. CASE \E m \in net : Serve(m)
    BY <2>3, ServeImplements
  <2> QED
    BY <2>1, <2>2, <2>3, OtherStutters DEF Next, Page, Api
<1> QED
  BY <1>1, <1>2, AlwaysIInv, PTL DEF Spec, ImplementsDialogue, Promise!DialogueSpec

=============================================================================
