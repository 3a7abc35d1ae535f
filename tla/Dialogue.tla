------------------------------ MODULE Dialogue ------------------------------
(***************************************************************************)
(* What the web client promises its customer: whatever the network does,   *)
(* each thing said is at most one turn of one session, and the replies on   *)
(* the screen are turns of one session, in the order they were committed,   *)
(* each once.  Client implements it over retries, lost answers and late     *)
(* requests.                                                                *)
(***************************************************************************)
EXTENDS Naturals, Sequences

CONSTANT Sessions

VARIABLES
  log,         \* each session's turns, each with at least what the customer said in it
  screen       \* the replies shown since the conversation was opened: [session, at]

dialogueVars == <<log, screen>>

DialogueInit == log = [s \in Sessions |-> <<>>] /\ screen = <<>>

Said(s) == {log[s][i].said : i \in DOMAIN log[s]}

\* A turn is committed, for something no turn of any session answers yet.
Commit(s) ==
  LET last == log'[s][Len(log'[s])] IN
  /\ Len(log'[s]) = Len(log[s]) + 1
  /\ log' = [log EXCEPT ![s] = Append(@, last)]
  /\ \A t \in Sessions : last.said \notin Said(t)
  /\ UNCHANGED screen

\* The newest reply on the screen comes after the ones already there, in the same session's log.
Show(s, at) ==
  /\ at \in DOMAIN log[s]
  /\ \A i \in DOMAIN screen : screen[i].session = s /\ screen[i].at < at
  /\ screen' = Append(screen, [session |-> s, at |-> at])
  /\ UNCHANGED log

Clear == screen' = <<>> /\ UNCHANGED log

DialogueNext ==
  \/ \E s \in Sessions : Commit(s) \/ \E at \in DOMAIN log[s] : Show(s, at)
  \/ Clear

DialogueSpec == DialogueInit /\ [][DialogueNext]_dialogueVars

=============================================================================
