# SurakshaSetu: verification project

SurakshaSetu is a conversational adviser for insurance. A Python orchestrator runs
the conversation (one LangGraph run per turn over PostgreSQL and valkey), a Java
tier holds the legal records and the actuarial and compliance rules, and a React
client talks to the orchestrator. This directory keeps TLA+ models of the parts
whose correctness depends on order, failure and concurrency, the TLC runs that
check them, and proofs of their main properties.

Paths below are relative to `src/orchestrator/src/surakshasetu/` unless they start
with `src/`.

## 1. Inventory

| Component | State it keeps | Operations | Talks to |
| --- | --- | --- | --- |
| Transition function (`fsm/`) | none (pure) | `transition`, the rows of `rows.py` | called by the decide node |
| Turn runtime (`graph/runtime.py`, `nodes.py`, `gate.py`) | the thread's checkpoint, the session lock, rate counters and idempotency hints in valkey | `create_session`, `authenticate`, `run_turn`, `run_timer`, the nodes load ... commit, release | every other part |
| Conversation store (`store/conv.py`) | `conv.session`, `turn`, `slot_value`, `recommendation`, `disclosure_ack`, `handoff`, `kill_switch` | inserts, the row lock, the replay lookup | PostgreSQL |
| Conversation nodes (`graph/nodes.py`, `facts.py`, `side_query.py`, `states/`, `handlers/`) | `SessionState`: state, frames, slots, results, counters | one node per state and handler | domain tier, retrieval, model gateway |
| Erasure (`handlers/data_erasure.py`) | the session's "erased" mark, events on its chain | the erasure turn, `erase`, `sweep` | Consent Service, keys, store |
| Subject keys (`crypto/`) | `keyvault.subject_key`, a cache per process | create, unwrap, schedule, destroy | PostgreSQL |
| Audit trail (`audit/`) | a hash chain per session, daily anchors | `append`, `verify`, anchoring, dossiers | PostgreSQL, object store |
| Timers (`jobs/timers.py`) | none | `run_once`: a turn for every idle session | runtime |
| Analysis, rails, composer (`analysis/`, `rails/`, `compose/`) | the pinned prompt bundle, the draft and its attempts | redaction, injection and safety checks, drafting, the output gates | model gateway |
| Retrieval and knowledge base (`retrieval/`, `kb/`, `surakshasetu_ingest`) | immutable snapshots in Qdrant and their catalog rows, the snapshots a process has verified | search, the abstention gate, ingest | Qdrant, embedding and reranking services |
| Gateway adapter (`gateway/`) | none | model calls with budgets | OmniRoute |
| Consent Service (Java `consent/`) | `consent.record`, notices | create, change purpose, withdraw, validity | PostgreSQL |
| Catalog, Disclosure, Eligibility, Suitability, Ranking, Quotes (Java) | products, disclosures, rule tables, quotes | stateless decisions, the product kill switch | PostgreSQL |
| Web client (`src/frontend/src/`) | the page's session, pending turn, messages | send, retry, event stream | HTTP API |

How a turn runs. A request is authenticated against `conv.session`, takes the
session's valkey lock (`SET NX PX`), is counted against the rate limit and starts the
graph, which first reads the thread's checkpoint. `load` locks the session row
(`FOR UPDATE NOWAIT`), answers a retried key from the record, and takes the state from
the checkpoint if it is as recent as `conv`, else rebuilds it ("hydration"). The nodes
then analyse, route, answer and decide; `commit` writes the turn, the session row and
the audit events in one transaction; `release_node` sets the hint and publishes the
reply; the graph writes its checkpoint on exit; and the lock is released by a
compare-and-delete. Nothing of this is serialised except by the two locks, and the
first of them can lapse.

Hard behaviours: two locks of which one has a TTL; a checkpoint written after the
commit, also by turns that fail; client retries whose first attempt may still be running; timer turns
selected before they are locked; a process that dies between any two steps; services outside the
transaction (the Consent Service, the application journey, the chain's object store) that may have
acted although no answer came; an erasure that runs outside the turn's
transaction, in several processes at once; records that go stale over days of a conversation (consent,
profile, suitability, quotes, disclosure sets); remote calls of one reply that fail independently,
each with its own fallback; some forty rows of the transition function whose order decides.

What makes each part correct: the fsm, that no combination of signals enters a state
without its consent or suitability and that erasure always wins; the runtime, that
turns form one log, one per key, and only committed replies leave; erasure, that it
completes, in the right order, and that the chain tells the truth about it; the
conversation, that frames nest, a resumed state is the one that was left, and advice is given on current
records; the audit chain, that it is gapless under concurrency and that verification tells damage from
health; the client, that one customer message is one turn and the screen is honest; retrieval, that evidence
is what was released and suffices by the calibrated measure; the rails, that what leaves was vetted and the
chain says how; the purchase, that what is posted was chosen, acknowledged and recorded.

## 2. Plan

The order follows importance; what is not `done` is what a next step would be.

| Order | Modules | Content | State |
| --- | --- | --- | --- |
| 1 | `Fsm`, `FsmDecision`, `JourneyProofs` (first part) | the transition function and one decision on arbitrary facts | done |
| 2 | `TurnLog`, `TurnRuntime`, `TurnProofs` | serving turns, refining an abstract log | done |
| 3 | `Erasure`, `ErasureProofs` | erasure, sweep, ledger and key | done |
| 4 | `StateNodes`, `Journey` | a session over many turns: `Fsm` composed with the states' nodes | done |
| 5 | `AuditChain`, `AuditProofs` | append under concurrency, anchors, verification, dossiers, all of it proved | done |
| 6 | `Dialogue`, `Client`, `ClientProofs` | the web client over a faulty network, refining the dialogue it promises | done |
| 7 | `Evidence`, `Retrieval` | the snapshot build, the retrieval service and its gate | done |
| 8 | `Reply`, `ReplyProofs` | from the message to the released reply: input rails, draft, output rails, commit | done |
| 9 | `Options`, `OptionsProofs` | buying in S3: options, acknowledgments, quotes, the intake | done |
| 10 | `JourneyProofs` | the inductive invariant behind `AdviceIsCurrent` and `EntriesAreEarned` | done |
| 11 | `JourneyProofs` | `HandOffIsFinal`, for which the offers join the invariant, and the frames | done |
| 12 | `RetrievalProofs` | all safety of `Retrieval`, through the recursions of `Evidence` | done |
| 13 | `Consent` | the Consent Service's record, purposes and validity | open |
| 14 | `Screening` | the rule tables of Eligibility, Suitability and Ranking over bounded inputs | open |

How the layers meet. `Client` uses of the server what `TurnLog` promises (one turn per key, the same
reply for it), and `TurnRuntime` implements `TurnLog`. `Journey`, `Reply` and `Options` take from
`TurnRuntime` that a session's turns do not overlap and that a turn that does not commit leaves the
session as it was. `Reply` takes from `Evidence` that the envelope shows a part of what was found, and
`Options` from `Reply` that a reply with options is either recorded as shown or blocked. `Journey`
has S3 as one step, `Options` has S3 call by call.

The modules are written to be proved about: parameters are CONSTANTS with a named
assumption, there is one action per step of the code, invariants are conjunctions of
named parts, and recursion, where a theorem can reach it, is a recursive function.

## 3. Modules

### Fsm, FsmDecision, MCFsm
`Fsm` is the package `fsm/`: the states, the record `Facts`, the rows as a set of records
(`CrossCutting`, `OwnRows`, `StayRow`) and `Transition`. A row keeps the code's order
number; a state's own rows are shifted by 100, which is what concatenating the two
sorted tuples does. `Resumed` is the recursive call of `transition` for PAUSE.R; it cannot
recurse twice because `ResumeTarget` is never PAUSE. `Earned` is the decide node's second
evaluation, without the FAQ and objection signals. Left out: reason codes, escalation
reasons, the sufficiency score (only whether it reaches the minimum).

`FsmDecision` has the state of one decision: the facts a turn starts from, up to
`MaxSignals` fields overwritten by nodes (`Signal`), then `Decide`. The facts are not
limited to those a turn can build, so the safety properties hold whatever the nodes and
the model put into them.

### TurnLog, TurnRuntime, MCTurns
`TurnLog` is the promise: an append-only log in which every turn builds on the previous
one and has a new key, and replies that are always those of the log. `TurnRuntime` is
`_run`, `_invoke` and the nodes load, commit and release, with a program counter per
worker. A worker is a request or a timer turn of any process.

| Variable | Code |
| --- | --- |
| `log` | `conv.turn` rows of one session and their RESPONSE_RELEASED events |
| `checkpoint` | the thread's last checkpoint: the session it holds and `committed_seq` |
| `sessionLock`, `rowLock` | `lock:session:{id}` in valkey; `FOR UPDATE` on `conv.session` |
| `hints` | `idem:{key}` in valkey |
| `released` | what left: HTTP bodies and SSE events |
| `turn` | the `Turn` of a worker and the graph state it carries |

A session's state is abstracted to the number of the turn that left it, so a lost update
is a turn whose base is not its predecessor. `FailTurn` covers every exception before the
commit; `FailWrite` a failed checkpoint write or lock release after it; `Crash` can happen
at every step; `Expire` ends the lock's TTL, for a dead holder at any time and for a live
one at most `MaxLapses` times; `LoseHint` is the hint's TTL or a restart of valkey.

### Erasure, MCErasure
One session's erasure: the erasure turn, `erase` in its three committed steps (child rows,
session row with checkpoint, key), `sweep` with its two parts, and the other turns that meet them.
`Host` says which processes share an event loop: while the sweep runs `erase` on it,
nothing else of that loop moves (`LoopBusy`). The child rows are counted, so that a turn
committed between the two deletes makes the foreign key refuse. The Consent Service is its
ledger: a call may fail before or after taking effect. `destroy_due`, the clock-driven end
of a scheduled key, is left out: a scheduled key counts as dealt with.

### AuditChain, MCAudit
`audit.append` in its three steps (the advisory lock, the read of the last event, the insert),
any number of times in one transaction; the nightly job `anchor_day` with its object store and its
table; the dossier. A hash is what it was computed from, so a chain hash is the sequence of the contents up
to its event and a Merkle root is the set of its leaves; hashes are equal exactly when these are.

| Variable | Code |
| --- | --- |
| `table` | the committed rows of `audit.audit_event` |
| `lock`, `pc`, `txn` | `pg_advisory_xact_lock` and the transactions with their own rows |
| `anchors`, `bucket` | `audit.chain_anchor`; the versions of the objects in the locked bucket |
| `jobPc`, `job` | a run of `anchor_day`: what it collected, the version it wrote, how it ended |
| `dossier` | `build`: verified first, read second |
| `damaged`, `job.damaged` | history: what a row was before the disk lost or changed it; what of it a run ought to meet |

### StateNodes, Journey, MCJourney
`StateNodes` is what one turn does to a session outside of the transition: the nodes and the enter
hooks of S0, S1, Quote-Only, S2 and S3 and the resume, as operators from a turn's scratch
(session, slots, signals) to the next. `Journey` composes them with `Fsm` as the graph does: the turn
is routed (`Routed`), the node runs, `FactsOf` builds the facts the signals overwrite, `Earned`
decides, `Moved` keeps the frames, the hook of an entered state runs (`Entered`), and the turn is
committed. A turn is one step here; `TurnRuntime` has what can happen inside and around it, and what it
leaves to this module is that a turn may find a checkpoint that lags (`Hydrated`).

| Variable | Code |
| --- | --- |
| `session` | `SessionState` of the thread's checkpoint: state, frames, open prompt, consent, the engines' results, the bound needs, the recommendation, counters |
| `slots` | the newest rows of `conv.slot_value` |
| `ledger` | what the Consent Service would answer about the consent held |
| `taken` | a count of the intakes the application journey has taken |

Data. All eligibility answers are one profile and all needs answers one hash, each of them asked for
in one question; Quote-Only's three answers count as the profile; `EligibilityOf` and `SuitabilityOf`
stand for the engines and are constants. One plan is
ranked. Of a reply only the open prompt is kept, and of the prompts those an answer is read against.
A message says at most one thing, alone or with a side question. What can go wrong
in a turn is one of `MishapsIn` for its node and one of `MishapsEntering` for the hook of the state it
enters: an outage at the first call, at a read-back's lookup, at the engine, of the application journey or
on the way in, a third unusable answer, a notice
or quote no longer in force, nothing ranked, a release gate that refuses.
`Kept` drops what no later turn reads. `Lapse` is the world outside: a consent expires or is withdrawn
elsewhere.

### Dialogue, Client, MCClient
`Dialogue` is what the page promises its customer: each thing said is at most one turn of one session, and
the screen shows turns of one session in the order they were committed, each once. `Client` is
`Chat.tsx` over `client.ts` on one side, `api/routes.py` on the other and a network between them.

| Variable | Code |
| --- | --- |
| `ui` | `Chat`'s refs and state: `session`, the call in progress (`inFlight`), `eraseNext`, `pending`, `problem`, `closed`, the entries |
| `net` | requests under way and answers on their way back; `live` marks the one the page waits for |
| `log`, `status` | the session's turns; `conv.session.status` |
| `told` | a ghost: the sessions the customer was told are erased |

`Receive` is `post` and the rest of `send` up to its `finally`, in which a queued erase starts in the
same tick (`Ended`). `Unreachable` gives up a request that may still be served (`live` turns FALSE).
`TroubleOf` is what a problem code lets the customer do. The server's inside is `TurnRuntime`'s: `Serve`
replays a key or commits a turn. Left out: the status stream, which only shows progress, and the inspector.

### Evidence, Retrieval, MCRetrieval
`Evidence` is the pure part: the routing table, selection under quotas and a token budget, parents, the
sufficiency gate, and the cut of `compose/envelope.py`. `Retrieval` is the job that builds snapshots beside the
service that answers from them, one step per remote call.

| Variable | Code |
| --- | --- |
| `points` | the points in Qdrant under each snapshot id |
| `catalog` | `catalog.corpus_snapshot` |
| `build` | the ingest job's run: `vectors`, then `upsert` and the row |
| `served` | the models tei-embed and tei-rerank run |
| `verified` | `RetrievalService._verified` |
| `ask` | `select` and `decide` for one question |

Which chunks a search finds, and each score, is any choice. A snapshot id hashes its manifest,
parameters and models, so a snapshot is one set of chunks once it is recorded; that one id may be built from
either of two sets (`Releases`) stands for the parts of a chunk the id does not cover. Calibrated
thresholds belong to a reranker and to snapshots. `EvidenceAssumption` says what the chunker and the routing table
are loaded with: chunk ids are unique, a chunk alone fits both budgets, the last rule matches everything.

### Reply, MCReply
One turn's reply from the message to the commit: the input rails and the NLU (`Analyse`), retrieval and
drafting for a side question or for S3's options (`Retrieve`, `Generate`), `Compose`, the lexicon, the
grounding and the verifier (`Check`, `Judge`), one regeneration, the whole-reply checks (`Guard`), `Commit`.

| Variable | Code |
| --- | --- |
| `session`, `work` | the stored `SessionState` (state, recommendation, a value read back, the side-question count), and the turn's copy |
| `reply` | what the node put on `Turn`: who writes, the retrieval result, the handles, the ranking and its disclosure sets, `verify_all`, overlays |
| `draft`, `attempt`, `chosen` | the locals of `release` |
| `audited` | this turn's GUARD_VERDICT events, in order |
| `out`, `offered` | the reply that left; a history of the options last shown |

A model text is what the rails look for in it: handles cited, products named, numbers, placeholders,
forbidden words. Structured actions (quick replies, the form) are messages with a safe guard;
a `degraded` reply and S2's read-back of amounts are a template's. Which state a turn
ends in is any the signals allow.

### Options, OptionsProofs, MCOptions
S3 call by call: revalidate the recommendation, act on the choice (`Apply`, `Ack`, `Choices`), check the
registry once more (`HandOff`), `Post` the intake, `Commit`.

| Variable | Code |
| --- | --- |
| `day`, `registry`, `sale`, `issued` | the date; each plan's disclosure version in force; the plans on sale; quote numbers drawn |
| `taken` | the application journey's intakes, keyed as it keys them, by session and quote |
| `rec`, `status`, `rows` | the recorded recommendation (offers, what was shown, acknowledgments, selection), the session's state, `conv.handoff` |
| `pc`, `turn` | the running turn and its copy of the recommendation |
| `chosen` | a ghost: the plan and terms the customer chose among the options last shown |

Cover, term, premium payment term and riders are one value, the terms. The quotes of one ranking share
a number: they are told apart by their plan. A quote asked for a plan off sale is a 409 and ends the
turn (`CannotQuote`). `Midnight`, `Publish` and `Withdraw` may come between any two calls.

## 4. Runs

| Run | What it shows | Bounds |
| --- | --- | --- |
| `MCFsm` | every pair of signals on six typical sets of facts in every state | 2 products, 2 hashes, 2 changed fields, limits of 2 |
| `MCTurns` | safety, refinement of the log and progress with crashes and a lapsed lock | 2 workers, 2 keys, 3 requests, 1 failure, 1 lapse |
| `MCErasure` | safety of the erasure under crashes, outages, a lapse | 2 processes on 2 loops, 3 turns, 2 outages, 1 failure, 1 lapse |
| `MCErasureCompletes` | the erasure completes without crashes and lapses | 2 requests of one loop, 3 turns, 2 outages |
| `MCAudit` | chains, anchors and the dossier under overlap, midnight, a fault | 1 chain, 2 transactions, 2 jobs, 3 events, 2 days, 1 fault, 1 dossier |
| `MCJourney` | one session's safety over many turns of answers, corrections, pauses, outages, hydrations | 3 profiles (one the engine asks again about), 2 needs, 1 plan, 1 frame, fact cards in S3, 1 rediscovery |
| `MCJourneyStale` | finding: S3 on the suitability of a corrected profile | as `MCJourney` |
| `MCClient` | the page's promise, its honesty about erasure, no dead end, every call ends | 2 sessions, 4 keys, 2 faults |
| `MCRetrieval` | evidence, judgement and the build under outages, redeployments, crashes | 4 chunks, 3 snapshots, 2 models each, scores 0 to 2, 1 move |
| `MCReply` | what leaves is vetted and told truly, options are those shown, turns end | 2 products, 2 chunks, 5 texts, 4 rankings, 1 value, 2 turns |
| `MCOptions` | the purchase under stale records, outages and lost answers | 2 plans, 3 terms (one out of bounds), 2 days of a 1-day quote, 2 moves, 4 turns, 2 faults |
| `MCOptionsTwice` | finding: one choice, two applications | as `MCOptions` |

Several properties are conjunctions: `TurnsAreConsistent`, `ErasedAsRequested`, `ErasureCompletes`,
`VerificationIsSound`, `TypesAndFrames`, `HandOffIsFinal`, `ScreenIsHonest`, `EraseIsSent`,
`AnswersAreEarned` and `ReleaseIsSound` each name their parts, which are defined and explained beside them.

Why the bounds are enough. In the fsm the rows read at most three fields each and two of
them conflict pairwise; two changes on six typical starts reach every pair of row
conditions. In the runtime every property is about two turns of a session that overlap or
follow each other; three requests give a key its retry
while a different turn or a timer runs, and the proofs remove the bound. In the erasure
three turns are the one that granted, the one that erases and the one that was
authenticated before. In the journey two profiles and two needs are an old and a new answer, which is what a
stale record can be told by; the third profile is the one the engine does not settle; the stack is full
after one frame, so that full and not full both occur; all counters' limits are 1. For the client two faults let
a lost answer meet a busy or failed retry, and the second session is the one after a restart; a third would
behave as the second. In retrieval every collection has a section and a clause or two competing
snapshots, one crash leaves the leftovers and one redeployment the stale model; scores 0 to 2
lie below, at and above the bar, or at the bar of a degraded search. In the reply each text is refused by one
rail only, in some turns only; the second turn finds what the first one left. In the purchase two moves
allow a new set and a withdrawal in one turn, four turns an application, an acknowledgment, an
interruption and a repetition.

Symmetry is used in `MCAudit` (transactions, jobs), which checks no liveness. Deadlock is
checked in the erasure runs and in `MCRetrieval`; elsewhere the system, or the bound, may stop it: `MCFsm` after one
decision; `MCTurns` after the last request; `MCJourney`: a closed session takes no more turns; `MCAudit`:
after the last event, job and dossier; `MCClient`: after the last key; `MCReply` and `MCOptions`: after the last turn.

Fairness. `TurnRuntime.FairSpec`: a worker that has started keeps running (asyncio schedules a
ready task, every wait in the code has a timeout or is a NOWAIT) and a valkey TTL ends.
Requests, failures and lapses are never forced. `Erasure.FairSpec`: the same, and
some process starts a sweep again some day (`Runtime.open` and every erasure run one).
`Client.FairSpec`: the page runs its handlers, and a request somebody waits for is served; when the
connection breaks instead, `Unreachable` has ended it, a bounded number of times. Nothing is assumed of the
customer or of late requests. `Retrieval.FairSpec`: an operator runs the ingest job again until the manifest's snapshots are
recorded (strong fairness of its beginning: another snapshot's build may be running at any one
time), and a run's steps end. `Reply.FairSpec`: every call has a timeout, so the turn goes on.

### Findings
1. `MCJourneyStale`. An eligibility fact corrected in S2 or S3 drops the eligibility result and leaves the bound
   needs and their suitability record. S2 replaces them when it is entered, unless the Suitability
   Service is down just then; the next turn that returns early (an overlong message, or a pause and its
   resume) goes on to S3 with the record of the old profile.
2. `MCOptionsTwice`. `_apply` draws a new quote for terms of the customer's own, and for an expired offer, every time.
   When the journey has taken an intake whose answer was lost, or whose turn died before its commit, the same
   choice sent again carries another quote id, is no replay to the journey and is taken a second time.
   `handoff/intake.py:10-11` calls a retried turn safe; it is for a plan as offered while its quote is valid.

### Known limits
Behaviour a reader of the documents may not expect. No run states these; those with action names are
reachable in the models.

* Runtime. A timer turn rechecks that its session is idle under the valkey lock only; if its TTL ends between
  the recheck and load, a customer's turn commits in between and the timer still pauses the session
  (`Recheck`, `Expire`, another worker's turn, `Load`). `TimerOnlyIdle` and `CheckpointAdvances` are
  therefore promised without lapses.
* Runtime. `idem:{key}` (gate.py:54) is not scoped by session: the same client key in two sessions makes the
  second fail with 503 until the hint's TTL. `create_session` stores the key before the session
  (runtime.py:188), so a crash leaves a key without one. The domain tier's kill switch is set before the conv
  row and the event (runtime.py:391).
* Erasure. `load` (nodes.py:245) does not look at the row's status and `commit` overwrites it: a turn authenticated before
  the erasure, which loads after it, undoes the mark `sweep` needs (data_erasure.py:20-22 calls the marked session
  inert). It takes an erase that failed half way or a lapsed lock; `ErasedStaysInert` is checked without either.
* Erasure. The delete and the key's turn are two transactions, and `sweep` finds sessions by the row the first one
  removed: a crash between them (data_erasure.py:148) leaves the key live.
* Erasure. `sweep` (data_erasure.py:192) calls the blocking `erase` on the event loop; with three requests on one loop its row lock can
  be held by a turn that needs that loop. `TurnsEnd` is checked with two.
* Erasure. The erasing turn's exit checkpoint can come after another process's delete, and no sweep looks for
  checkpoints without a session (`Commit`, another process's `EraseSession`, `WriteCheckpoint`, `Crash`). Two
  sweeps may both append CONSENT_WITHDRAWN.
* Erasure. A consent recorded by a turn that did not commit is invisible to a later erasure, which withdraws
  nothing (`GrantConsent`, `FailTurn`, `EraseNode`).
* Audit. An event carries the time of `append` (chain.py:104) and becomes visible at the commit: a day that was anchored in
  between has another root on the next run, which reports it changed.
* Audit. A run promises to find what was damaged before it began. The leaves are taken (anchor.py:68) before the chains are
  verified (anchor.py:78), in statements of their own: rows damaged or cut from the chain's end in between may pass
  this run and show in the next (`Collect`, `Damage`, `VerifyChains`). `job.damaged` is therefore what was gone when
  the leaves were taken, and is only held against a run while the disk stays as it was until it has verified.
* Conversation. A fact card asked for in PAUSE leaves a frame of PAUSE on the stack, because only `respond` pops
  the frame of a side question; with room for it (the default is two frames) the resume that follows finds
  no state to resume and starts over in S0, where side_query.py:3 says a question never loses the
  customer's place. The run asks for fact cards in S3 (`FactsIn`), where the frame is only left over;
  `TypesAndFrames` is proved of any states they are asked in.
* Conversation. An answer changed at the read-back whose new read-back fails at a lookup (s1.py:636) leaves the old read-back open:
  a yes to the retry it offers confirms what was never read back, where subsystems.md:130 has a slot confirmed
  after the read-back (`Proceed` with "lookup", then `Respond`; `Took` in `Reply`). After several side questions the offer to
  carry on (side_query.py:427) likewise replaces a fresh read-back and leaves it open.
* Conversation. A side question while the election or the amber question is open has S2 read the needs back again, so
  the question is put anew after another confirmation (`S2Answer`, `Summary`).
* Purchase. Terms of the customer's own applied for after the acknowledgment go to the hand-off in the same turn,
  at a price the reply before did not show (`Apply`, `HandOff`). INTAKE_PENDING is recorded and not sent again by
  this code. An option shown on a quote may be handed over after midnight within its turn (`Midnight`, `Post`).
  Quote numbers restart with the process (QuoteAdapter.java:230).
* Retrieval. A reranker replaced between its model check (service.py:421) and its use (service.py:266) has its scores judged by the
  old model's threshold (`Redeploy` between `Embed` and `Rerank`); `JudgedOnItsScale` excepts it. A process
  that has counted a snapshot does not notice that Qdrant lost points of it later; `Lose` spares those.

## 5. Proofs

`JourneyProofs`, `TurnProofs`, `ErasureProofs`, `AuditProofs`, `ReplyProofs`, `ClientProofs`, `OptionsProofs` and
`RetrievalProofs` are checked by TLAPS for every value of the constants.

* `JourneyProofs`, first part, about one decision (`FsmDecision`). The argument is by the first matching row: each guard (G1 for consent, G4 for
  suitability, CC1 and CC1b for erasure) has an order below the rows that would move the
  session where it must not go, so the row that decides has a condition which excludes the bad
  case. The lemmas say that `Deciding` is a matching row of least order and that its order is
  at most that of any matching row. Assumptions: `FsmAssumption`, `DecisionAssumption`.
* `JourneyProofs`, second part, about the session. A turn is a chain of functions on a scratch: load, the node, decide, the move, the enter hook.
  Each function has a lemma that it keeps the scratch `Sound`: an eligibility result is of the confirmed profile
  (`JudgedFor`), a suitability record is of the confirmed needs (`BoundTo`), an open question is about what is there
  (`PromptsHeld`). Between turns the invariant (`JourneyInvariant`) adds that who is in S2 or S3, or paused
  there, is eligible and confirmed (`Standing`), and that S3 has a record (`Shown`). It is needed because the
  properties speak of the committed session and the records of answers given turns before. That decide keeps it is a fact about rows: a
  move to S2 or S3 from outside asks for the engine's word, and one that stays there is outranked by G2 after a
  correction (`EarnedAdvises`, by the lemmas of the first part). A session hydrated from the tables has nothing to be wrong about.
  The hand-off needs more. The options on the table are ranked from the profile and the record the session
  holds, with a product among them (`OfferFor`), are on the table only in S3 (`OffTable`), and a turn that may stay there
  leaves them so (`OfferKept`). A turn that took the intake raised that and nothing else, on the offer and the records
  it was loaded with (`Handing`); so no row before S3.4 matches (`Undisturbed`, `EarnedTakes`) and decide hands off,
  and it does so only then (`MoveTakes`, `MoveHandsOff`): the intake and the end of the session are one (`TakenOnce`). That the intake
  is taken in the middle of the turn, and the move decided after it, is the hazard this settles.
  The frames need that a turn of a pause never ends paused (`MoveResumes`, `EarnedPauses`); otherwise a fact card asked
  for there would leave the stack a frame beyond its bound (`Framed`).
  Assumptions: `FsmAssumption`, `StateNodesAssumption`, `JourneyAssumption`. It is a bound to the needs that is proved, not to the profile:
  `SuitabilityForProfile` is what the code breaks (section 4).
* `TurnProofs`. None of the properties is inductive alone. The invariant adds: who is past
  load and before commit holds the row lock; its `base` and `in_seq` are those of the log as it
  is now, because nobody else can append while it holds that lock; its key is not in the log;
  a turn's graph state and the checkpoint hold a turn of the log or nothing; a response is a
  place in the log with that key; a hint's key is in the log. Each action preserves it, one
  step per action, and the properties and the refinement (`Commit` maps to `LogTurn`,
  `Release` and `Unlock` to `ReleaseReply`, everything else to a stutter) follow.
  A second invariant, for behaviours in which no lock has lapsed, says that who is inside the turn holds the valkey
  lock: then nothing is committed between a timer's recheck and its commit, and no other turn
  between a turn's read of the checkpoint and its write; `TimerOnlyIdle` and `CheckpointAdvances` follow.
  Assumption: `TurnAssumption`.
* `ErasureProofs`. The valkey lock is worthless here (it may lapse, and `sweep` never takes it), so
  the invariant rests on three other things. The row lock: a turn from its load to its commit
  holds it and the row is there (`RowHeld`), so no delete comes between. The order of `erase`:
  whoever is about to touch the key has seen the row go, and a deleted row never returns
  (`KeyLast`). The chain: it only grows, so a request an eraser acts on stays there with
  its reason (`ErasersAsked`), and it has a last request (`HasLast`); "withdrawn" is known
  only from the Consent Service, by the row, by a turn's copy and by a sweep that is about to append it
  (`LedgerKnown`).
  A second invariant (`FInv`) holds until something has failed or lapsed: then the valkey lock does keep other turns
  out (`LockHeld`), and a session marked erased is in the hands of the turn that marked it, which has counted the children it
  is about to delete (`UnderWay`), so the delete cannot be refused and nobody else can load the session.
  `InertUpToTheFirstFault` follows for every bound on faults, `ErasedIsInert` for none. Assumption:
  `ErasureAssumption`.
* `AuditProofs`. The argument rests on the advisory lock: a transaction holds its session's lock
  from its first append to its end (`Held`), so no two transactions with rows are in one session;
  what it sees and what is committed are both chains with a last event (`Chains`), and what it
  has read is still the last event when it inserts (`ReadIsLast`). `LastIsLast` and `NextIsLinked` say that a chain
  has one last event and that one more event linked to it keeps it a chain. All of that holds as long as
  nothing was damaged. What verification finds when something was is an argument about hashes. A row's hash,
  which the disk is not taken to change, tells which event was first written there (`Original`), so two rows with one
  event are one row. A chain that verifies holds, undamaged, every event its last hash was computed from
  (`VerifiedHolds`: the shortest hash of a counterexample would have a shorter one before it). A leaf is the
  hash of a row that was there when the leaves were taken (`JobGood`); so once the chains have verified, no event
  under the leaves is among those lost before (`VerifiedSpares`), which the anchors inherit because there is one a
  day (`OneADay`). A dossier is right because sequence numbers of a session only grow at the end (`Later`): the
  rows verified are the first ones for good (`FirstAreBefore`). Assumption: `AuditAssumption`.
* `ReplyProofs`. The properties speak of a reply that is out and of a turn that is gone, so the invariant follows
  the turn. What the reply is made from: the products among its handles are options it shows or of the
  recommendation held (`Stocked`); while there is a text, what the model was shown is what the rails count as
  issued (`Shown`); whatever was recommended is what was last offered (`Held`). What was judged: the number of verdicts says how many
  attempts were, a second attempt means the first was sent back and not held (`SentBack`), and at the
  render the last attempt either passed with the text chosen or ended in a fallback (`Concluded`); rail 8's verdicts follow, with a block
  if a text leaks or an option lacks its disclosure (`Guarded`). Each action keeps it; the commit turns it into
  `ReleaseIsSound`. Assumption: `ReplyAssumption`.
* `ClientProofs`. The screen's order rests on what a key ties together. All requests with one key are the same ask
  of one session (`OneAsk`), and so is the turn they may have led to. What the page holds is the
  newest thing asked, so its turn, whenever it is committed, comes after every turn on the screen (`Held`);
  a request of an older ask may still be served, but nobody waits for its answer (`WaitedFor`). An
  answer on its way back stays true, because logs only grow and an erased session stays erased (`AnswersTrue`,
  `ErasedSound`). Between calls what is open and what is shown as a trouble agree (`Settled`), and a call under way
  has a session with nothing else on the screen (`UnderWay`, `Shown`). `Serve` maps to `Commit`, `Receive` to
  `Show`, `Restart` to `Clear`, everything else to a stutter. Assumption: `ClientAssumption`, by which `None`
  is neither a session nor an ask.
* `OptionsProofs`. The recommendation is carried through four invariants. Every offer is quoted for its own plan
  within its limits and every acknowledgment names the version shown (`Sound`); a selection was
  chosen since these options were shown, because showing options anew drops it (`RecsGood`, `FreshIsLast`);
  whoever hands over has an acknowledged selection (`HandingOver`); and the turn's row, its state
  and the journey's intake agree (`RowIsTrue`). A turn that dies leaves the recorded recommendation, which
  satisfies the same. The types are an invariant beside it (`TInv`): a selection becomes a quote when it is chosen,
  and stays one until the row that names it is written (`QuoteHeld`). Assumption: `OptionsAssumption`.
* `RetrievalProofs`. Sorting gives each item the place that the number of items before it says.
  Trimming and the parents are recursions over a sequence, written in `Evidence` as recursive functions. `RecursionExists` shows that such a function is there, `StepByStep` carries along it what
  every step keeps; an induction on a number is all they need. Of the
  pure part they give: what is selected, completed by parents and cut is in order and without repeats (`RankedIsNeat`,
  `SelectIsNeat`, `AddParentsIsNeat`), and the envelope's cut leaves sufficient evidence sufficient (`EnvelopeKeeps`).
  The latter has two halves. A collection's quota: as the cut goes from the worst item to the best,
  an item not yet reached is there, and of one spared every later item of its collection may not go (`Owed`,
  `Closed`, `Stuck`). And one chunk over the bar: the best chunk is reached last, alone, and fits (`FirstStays`).
  Of the service, the invariant says what each step of a question relies on (`AskInv`): from its begin on, its
  snapshots are recorded and a product's only where products may be spoken of (`Pinned`); from the embedding on they
  are all checked; at the gate every item has the one scale of the search. A checked snapshot stays complete
  (`VerifiedInv`), because a build writes only under an id without a row (`BuildInv`) and a row never changes
  (`Steady`, `RecordedIsImmutable`). Counting points is enough to check a snapshot because those under a recorded id are a
  part of its release (`CatalogInv`). Assumptions: `EvidenceAssumption`, `RetrievalAssumption`.


Only model-checked: every liveness property (`ENABLED` and fairness are out of the prover's reach), so that
an erasure, a turn, a reply, a build and a queued erase end, that a session reopens and that a missed withdrawal
arrives.
Every invariant and every action property of a passing run is proved, `ErasedStaysInert` under the bounds of its run (no failed
erase, no crash, no lapse), elsewhere up to the first of them.

## 6. Not modelled

Text: prompts, templates, redaction patterns, chunking, the search scores. Loading and pinning of prompt
bundles (`compose/bundle.py`): a bundle is validated once at the start and does not change afterwards. The domain client,
the gateway adapter, configuration and logging keep no state; their failures are outcomes in the modules that call
them. Cryptography and hashing: a
hash is an element of a set. Clocks: a timeout or a TTL is an action that may happen. The model's
and the customer's words are inputs from small sets. The arithmetic of premiums, cover and suitability, the rule tables of
eligibility and the seed of the catalog are data behind constants. The evaluation harness, the bake-off and the deployment files
are offline or stateless. What the plan calls open is not modelled or not proved yet.
