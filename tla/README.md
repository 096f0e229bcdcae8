# Nanobot: TLA+ specifications

Nanobot is a self-hosted agent server for private and group chats and for long
tasks.  A FastAPI process takes messages from a chat gateway, runs an agent (a
model loop with tools), stores everything in SQLite, and sends replies and
proactive messages back through the gateway.  Workers in the same or in other
processes repair what a dead or slow process leaves behind.

Nearly all of its correctness is in **database protocols**: a row is leased with
a token and an expiry, somebody works outside any transaction, and the result is
written by a compare-and-swap.  These specifications model those protocols,
check them with TLC on small instances, and prove with TLAPS, for every
instance, all their safety properties and the one refinement.

Source paths are relative to the repository (`core/...` is `src/core/...`).

## 1. Inventory

### 1.1 Components with a protocol

| Component | State it keeps | Operations | Hard behaviour |
|---|---|---|---|
| **Durable Task** `core/durable_tasks`, with `core/tracing.py`, `core/run_ledger`, `core/run_recovery`, `core/agent_runtime/native.py` | `durable_tasks` row (status, owner, lease, deadline, cancel mark), the Run's event stream, `agent_runs`, recovery operation, tool-effect receipts | admit, claim, heartbeat, settle, request cancel, reconcile; prepare / settle a tool effect | owner and reconciler close one Run at once; heartbeats that commit late; a tool whose outcome is unknown; a process that dies anywhere |
| **Outbound delivery** `core/outbound/{delivery_claims,settlement,replay,projection}.py`, `core/outbound_delivery_service.py`, `workers/outbound_delivery_worker.py` | outbox leaf, attempt, run, source row, circuits | expire leases, claim, preflight, start request, settle, cancel, replay, reset a circuit, clear history, drain | a message must not be sent twice although workers crash, answers come late and commits are lost |
| **Chat reply** `core/inbound_idempotency.py`, `core/inbound_claim_lifecycle.py`, `api/chat_route_runner.py`, `api/chat_streaming_result.py`, `core/chat_delivery_*`, `workers/chat_delivery_worker.py` | claim on an incoming message, journal marker and assistant rows, reply outbox | acquire / renew / complete / fail a claim, recover a marker, persist a turn, hand the stream over, register and deliver the reply | a client that disconnects between any two steps, a retry that meets the first request, a take-over of an expired claim |
| **Outbound control and admission** `core/outbound/{control,control_transitions,run_claims,generation}.py`, `core/scheduled_task_outbound.py` | control row (mode, effective slot, epoch, writer lease), run claims, generation attempts | acquire writer, claim or take over a run, start and commit a generation, fail, quarantine, hold, activate, drain, close | cut-over from direct delivery to the outbox while both are running; a producer that loses its claim while the model is thinking |
| **Group runtime, timing gate** `core/group_runtime` | per group: pending messages, generation, wait, linger, the running flag, gate transactions | process a message, fire a timer, apply or drop a verdict, roll back, speak unasked, note a reply | the lock is given back while a model is asked; a timer that carries a generation already replaced |
| **Sandbox leases** `sandboxd` | container, network and proxy, snapshot file, process records, permits, the Lease lock | ensure, get, recycle, recreate, start, watch, read, reconcile, sweep, restart | steps outside the lock; a container without a snapshot, a snapshot without a container; a daemon that dies between any two Docker calls |
| **Job kernel, schedules, triggers** `core/jobs`, `core/scheduled_workflow*.py`, `core/trigger_runtime.py` | job rows and claims, due times | claim, run, retry, reschedule | missed and doubled ticks |
| **Proactive outreach** `core/proactive` | generation lease, outreach rows | plan, generate, hand over to the outbox | two schedulers, a lease lost while the model is thinking |
| **Run recovery** `core/run_recovery` | checkpoints, lineage, operations | prepare, preflight, resume | resuming a Run whose side effects are half known |
| **Agent orchestration, agent link, MCP, model routes, index workers, event bus, goals** | task graph, correlation ids, connections, cool-downs, jobs, subscriptions | see `PROJECT.json` | smaller protocols of the same kinds |

The remaining parts (prompt assembly, providers, HTTP presentation, retrieval,
schema, front ends, evaluations, release tools) hold text, formats and
presentation; `PROJECT.json` lists each with the reason it is not modelled.

### 1.2 How they interact

    gateway --> proxy_chat --> claim on the message --> agent Run (Durable Task)
                                  |                          |
                                  |                   tools, receipts, ledger
                                  v                          v
                        journal + claim completion <---- settled result
                                  |
                     SSE stream, or reply outbox --> chat delivery worker --> gateway

    proactive / scheduled source --> run claim --> outbox leaf
                                                     |
                          outbound delivery worker --+--> gateway
                          operator: cancel, replay, reset circuit, drain

    group message --> timing gate (message, timer, verdict) --> agent --> group
    agent tool --> sandboxd: Lease --> container, network, process

A Durable Task admits one Run per request; its owner is the request's coroutine.
The chat reply path decides who may answer a message and how the reply reaches
the user.  Outbound delivery carries messages no request is waiting for;
outbound control decides who may produce them and through which lane they leave.
The group runtime decides whether the agent is asked at all.  The sandbox daemon
is a process of its own, with threads instead of coroutines.

### 1.3 What makes each one correct

* Durable Task: task row, event stream, `agent_runs` and recovery operation
  agree on one result, the event stream decides, and a result that stands is
  not rewritten; a recovery Run with an unknown side effect is never recorded as
  a success; every Run ends even when its owner dies.
* Outbound delivery: one leaf puts at most one copy in the chat and its status
  never hides one; nothing is sent after the user cleared the history or while a
  circuit is open; a settled leaf is never written again; every leaf converges.
* Chat reply: one answer per message, one assistant row in the journal, and the
  reply reaches the client by the stream or by the outbox.
* Outbound control: an occurrence is written by one producer, its text is frozen
  once, a cut-over leaves no run behind, and a source that drains can be closed.
* Group runtime: the group is never locked out, no verdict is applied to a
  message it was not shown, a message that addresses the bot is decided on.
* Sandbox leases: the limiter's count matches the permits that are held, a
  reported outcome stands, what a failure leaves behind is removed, no command
  runs for ever.

`PROJECT.json` lists the hazards behind these, each at its source line, with the
properties that would catch it.

## 2. Plan

Order: what decides the fate of a user's work first, then what carries messages,
then admission and timing.

1. `DurableTask` — done, proved.
2. `OutboundDelivery` — done, proved.
3. `ChatReply` — the claim on an incoming message, the journal and the reply
   outbox, with the streaming finalizer that decides between them; done, proved.
4. `OutboundControl` — writer lease, cycle of modes, run claims, generations and
   the legacy lane, shown to implement `OutboundLifecycle`; done, proved.
5. `GroupRuntime` — generations, timers and the timing gate; done, proved.
6. `SandboxLease` — one Lease of the sandbox daemon; done, proved.
7. Left: the smaller protocols: job kernel and schedules, proactive lease,
   recovery coordinator, plug-in life cycle; a pure module for
   `outbound_transport._classify_http` against what settlement accepts.  Agent
   orchestration comes last: nothing in production starts it yet.

Every invariant, every action property and the refinement that the passing runs
check are also theorems.  What stays with TLC is in section 9.

## 3. DurableTask

### 3.1 State and actions

`task`, `ledger`, `run` and `rop` are the rows of a Run: the task, its event
stream, `agent_runs` and the recovery operation; `receipt` is its side effect.
The owner is the coroutine that executes the Run: `pc`, the `lease` it believes
in, the cancellation on its way to it (`cancelMsg`), the `outcome` it will
report and the clock it reports it with (`finishAt`).  `hb` and `hbAt` are its
heartbeat, which runs in a thread; `canc` is a cancellation request between its
read and its write.  The reconciler is `recPc`, the clock `recAt` and batch
`recBatch` of its scan, and what it holds of the current candidate: `recLoaded`,
`recSnap`, `recRun`, `recRow`, `recStatus`.  `now` is the wall clock.

Each database transaction is one step.  What the code reads in one transaction
and uses in a later one (the reconciler's receipts and row, a heartbeat's
expiry) is state of the actor in between.  Crashes are the owner stopping at any
step.  The status words of the agent runtime are kept, because the rule that an
unknown tool outcome ends `ambiguous` travels through three layers of them.

A tool whose outcome is unknown (`ToolUnknown`), or whose receipt cannot be
written (`ToolUnconfirmed`), leaves the owner `reporting`: it announces the
activity and writes a checkpoint before it raises the ambiguous error again.  If
both succeed the error goes on (`ReportAmbiguous`).  If one fails, its error takes
the place of the ambiguous one: a failure of the ledger ends the Run as `error`
(`ReportFails`), and any other failure looks to the bridge like a failed model, so
that a chat goes on with its next candidate (`ReportSwallowed`).

### 3.2 Runs

| Run | Instance | Shows |
|---|---|---|
| `durable_chat` | two chat Runs, lease 1, timeout 2, two candidates per scan, clock to 3; the second owner hangs | the event stream decides, a terminal status changes only through a row read again by the reconciler, a terminated stream is final |
| `durable_recovery` | one recovery Run, lease 2, timeout 3, clock to 4, with fairness | an owned or claimable task always has an open stream, a recorded success has no unknown side effect, every Run terminates |
| `durable_overwrite` (violation) | two chats, lease 2, timeout 1, two candidates per scan, clock to 2; the second owner hangs | the rows can disagree when a scan has two candidates |
| `durable_unknown` (violation) | one chat, lease 1, timeout 2, clock to 4 | an owner can settle its Run with its side effect unknown and not say so |

A lease of 1 and a timeout of 2 are the smallest values for which a lease
expires before the deadline, is renewed, and the deadline passes under a live
lease (`durable_recovery` has the longer lease); the clock goes far enough past
both for every late write.  A second Run matters only as the candidate whose
commit comes first in a scan, so its owner may hang: `SecondOwnerHangs` is a
constraint of the two runs with two chats.  The theorems have no such bound.

That all four rows agree (`TerminalAgreement`) is false for the batch of 100 that
the code uses.  What remains of it for every batch is `LedgerDecides`, and
`OnlyRereadRewrites` says that the re-read row is the only way to lose the rest.

### 3.3 Fairness

`Tick` and `ReconcileScan` are weakly fair: time passes, and the reconciler polls.
Deciding and writing a candidate are strongly fair: the database is not broken
for ever, and the loop starts again after an error.  Of an owner that is alive
only its own steps are assumed (heartbeat, end of a tool, delivery of a
cancellation, stop, finish); it may die instead at any time.

### 3.4 Proofs

`DurableTaskProofs` proves, for every set of Runs, lease, timeout and batch limit,
`TypeCorrect`, `OwnedOpen` (`OwnedMeansOpen`), `LedgerFinal` (`LedgerIsFinal`),
`LedgerIsDecisive` (`LedgerDecides`), `RewriteIsReread` (`OnlyRereadRewrites`) and
`SuccessIsCertain` (`RecoverySuccessIsCertain`).

What the rows say of each other is not inductive: it says nothing of the steps in
which they are being written.  The inductive invariant `IInv` adds `RowShape`,
what each task status says about ledger, `agent_runs`, recovery operation and
owner; `RecShape`, what the reconciler may be holding; and `OutcomeKnown`.
`ResultInv` is a second induction on top of it, for `LedgerDecides`: a settlement
by the owner writes its own word everywhere, and a reconciler that finds the
stream closed writes something other than a success.  `EffectKnown` follows the
receipt of a recovery Run from the tool call to the settlement: an execution that
goes on has settled its receipt, and one that leaves with it in doubt reports no
success.  A chat is left out of `RecoverySuccessIsCertain` because its bridge may
go on with the next candidate (section 10, finding 2).

## 4. OutboundDelivery

### 4.1 State and actions

A run owns a chain of leaves: the first, and one per approved replay.  `outbox`
holds the leaves with their last attempt, `run` the run rows with the status
projected on the source row and whether that row still stands for the run
(`bound`), `circuit` the open circuits, `mode` the control
mode, `worker` the worker coroutines.  `accepted` is not state of the program:
it counts the copies the gateway took, and is what the properties are about.

Every function of `core/outbound` takes the write lock of the control row first,
so each is one step.  A worker hands every transaction a clock it captured
earlier (`worker[w].now`): at the start of its cycle and when the gateway has
answered; the checks on expiry see that stale clock, as in the code.

A run can lose its source row.  A scheduled task is bound to a newer occurrence
(`RebindTask`): from then on the projection passes it over.  An outreach row that
was edited or removed from outside (`FenceSource`, one of the faults) makes the
projection raise `OutboundFencingError`, and its transaction is rolled back:
`SettleFenced`, `ExpiryFenced` and `ClaimFenced` are these ends.  A leaf past its
deadline fails all the same, because there the error is caught; a preflight
cancels the leaf as `source_fenced`, and a clear leaves it as it is.
`SourceMirrorsRun` speaks of the rows that still stand for their run.

The gateway is external.  It may take the message or not, and answer, fail or
never answer.  A definite HTTP error, the transient ones included, is taken to
mean it did not take the message: the classifier treats it so.

### 4.2 Runs

| Run | Instance | Shows |
|---|---|---|
| `outbound_race` | one proactive run, two rows (a replay), two workers, two attempts, deadline 2, two settlement tries, clock to 3, two faults (crash, lost commit, changed source row) | no leaf is sent twice, a success without replay is one copy, run and source rows tell the truth, final is final, a clear stops sends |
| `outbound_circuit` | two runs, the first proactive, the second with a malformed payload, two workers, one attempt, deadline 1, clock to 2, one fault, with fairness | no request starts under an open circuit, whichever scope opened it, and every leaf leaves the queue |

Two workers are enough for every pair of claim, expiry and late answer; a third
would only repeat one of these roles.  Two faults let a crash or a lost commit
fall between any two steps of the other worker, and after a change of the source
row.  The clock goes one past the deadline, so both budgets, attempts and time,
run out.

`EveryLeafConverges` exempts `LaneIsStuck`: a leaf that is leased while its
outreach row has changed.  The exemption is the code's (section 10).

### 4.3 Fairness

Time passes and every worker keeps taking its steps (weak fairness).  Nothing is
assumed of users, operators or the gateway.

### 4.4 Proofs

`OutboundDeliveryProofs` proves for any number of runs, rows, workers, crashes,
attempts and any lease: `TypeCorrect`, `OneCopyPerLeaf`, `OneHolder`,
`RunsMirror`, `ClosedQuiet`, `SettledForGood`, `ClearedIsNotSent`,
`CircuitIsHonoured`, `SourceFollowsRun` and `PlainSuccess`.

The argument: that a status hides no copy (`CopiesMatchStatus`) must hold while a
request is in flight, so it rests on `InFlight`, which ties a worker that is
sending to the leaf's durable request mark.  That tie is unique because of
`LeaseHasOneHolder`, which rests on `HoldsOld`: a worker never holds an attempt
number the leaf has not allocated.  Lease expiry decides by the run row what to
do with a leaf, so `RunMirrorsLeaf` is in the same induction; and a drain closes
only when no leaf is leased, which is `Closed`.  The lemmas `GivesBack`,
`Withdraws`, `Claims`, `Walked` and `Careful` state once what a kind of step
does to a leaf, and each action is shown to be of one of these kinds.

The last two are a second induction on top of the first.  `Chain` says that a
run whose outcome was never in doubt has one leaf, the active one, and that a
plain success was never in doubt.  Every step but a replay is `InPlace`: leaves
stay where they are, and a run row that moves is written together with a source
that fits, unless that source is no longer its own.  A replay lengthens only a
chain that is in doubt.  The copies of a run are then counted from its chain and
`CopiesMatchStatus`.

## 5. ChatReply

### 5.1 State and actions

One private message and all requests made for it.  `claim` is its row in
`inbound_message_claims`, `marker` and `rows` are what the request journal and
`ChatLog` hold of its answer, `outbox` is its row in `chat_delivery_outbox`.
`req` holds the requests: where each is between `proxy_chat` and the end of its
finalizer, and what its client was told.  `pub` holds whoever publishes: the
delivery task of a request, and the workers.  `shown` is not state of the
program: it is what the gateway took.

The actions follow a request through the code: `Acquire`, `DuplicateInflight`
and `Replay` are the outcomes of `acquire_inbound_claim`; `JournalPhase`,
`PersistEarly`, `PersistReply` and `Prepared` the route up to the agent; `Pull`
the first pull of a stream, which resumes a paused owner; `CheckpointBefore`,
`AgentReturns`, `GuardCancels` and `CheckpointAfter` the agent under
`_await_with_owner_guard`; `Persist` the one transaction that writes row and
marker.  A plain request then `Finish`es; a stream completes the claim and hands
its done event over, or, when the client has left, goes through
`deliver_after_finalizer` (`BeginDelivery`, `Register`, `CompleteRegistered`).
`ClaimAttempt` to `AbandonAttempt` are `chat_delivery_service`, for the delivery
task and for the worker.

* Each database transaction is one step, with the SELECTs inside it; it may fail
  anywhere (`Raises`, `CompletionRaises`, `ClaimNothing`), and a completion may
  commit although its caller sees an error.
* A request acquires at most once and draws a fresh token, so it is its own
  token, and the name of the answer it computes.  The ways a message can end
  without an answer (blocked, silent, stored only) are the one value `Early`.
* The assistant row is archived through a sanitizer that cuts host paths, inline
  data and asset tokens; the marker is not.  `exact` says whether the row of a
  request holds the answer as it was given (`HoldsAnswer`).
* Leases carry no numbers.  The lease of the claim may run out at any step
  (`LeaseExpires`).  The lease of a delivery (`DeliveryLeaseExpires`) does not run
  out under a publisher that is sending, because `_validate_attempt_window` cuts
  the attempt off before.
* Three stretches of a request end in a write that does not look at the claim
  (`Unfenced`): the journal phase, the steps up to the agent, and the one from
  the checkpoint behind the agent to the write of the answer, in which a stream
  yields its events to the client.  `late` records that a lease ran out in one
  of them.  The code does not exclude it, so the model does not either; the
  three properties of the journal hold until it happens, the others always.

### 5.2 Runs

| Run | Instance | Shows |
|---|---|---|
| `chat_reply` | two requests, the second with an empty answer, one worker, with fairness | every client that is told an answer is told the same one; one assistant row per marker, the claim is completed with the marker, the agent does not run for an answered message, the push is the answer of the journal (these four until `late`); one publisher at the gateway at a time, final is final, every registered reply is delivered or refused |

Two requests are an owner and one that takes over or meets it; a third can only
take over once more.  The delivery tasks of the requests publish beside the
worker, so there are three publishers.  No counter needs a bound: a
request acquires once, so a claim has at most as many attempts as there are
requests.

### 5.3 Fairness

The clock runs (a delivery lease runs out, a back-off elapses), every attempt
ends by an answer or its time-out, and a worker keeps polling: weak fairness.
Two assumptions are strong: the gateway answers True or False again and again,
and a worker does not die, or stand still for a whole lease, in every one of
these settlements.  Without them nothing converges, and the code says so: an
uncertain delivery is retried without limit.

### 5.4 Proofs

`ChatReplyProofs` proves for any number of requests and workers, whatever the
leases do: `TypeCorrect`, `SameAnswer` (`ClientsAgree`), `CompletedFinal`,
`OneAtTheGateway` (`OneSender`), `TakenBeforeDelivered`, `DeliveryFinal`
(`DeliveryIsFinal`), `JournalSound` (`JournalAgrees`), `PushesTheAnswer`
(`PushIsTheAnswer`) and `AgentRunsUnanswered` (`AnsweredOnce`).

The 28 actions of a request are read once, in `RequestSteps`, and sorted into
nine kinds by what they do to the claim and to the journal; each invariant is
shown to survive each kind.  `Base` is the types and who must have an answer or
a delivery.  `Told` adds to `ClientsAgree` the moment between the completion of
the claim and the done event.  `Sent` says that whoever is at the gateway holds
the live lease.  `Journal` is the strengthening behind the last three, inductive
until `late`: whoever is unfenced holds a live claim, an owner that is still
working has no marker before it, and a first attempt finds none;
so the marker is written once, and every later answer, response and envelope is
a copy of it.

## 6. OutboundControl

### 6.1 State and actions

One source and its delivery control.  `control` is the control row: mode,
effective slot, epoch and the writer lease; `run` holds for each occurrence its
run row with its newest attempt and leaf; `proc` the producer coroutines;
`circuit` and `clock` the endpoint's circuit and the wall clock; `snap` is the
writer's identity as the legacy drain read it in an earlier transaction.

The source moves around a cycle: `Hold`, `Activate`, `StartDraining`, `Close`
(`control_transitions.py`), each refused while `UnsafeEpoch` counts a run that
the next mode would leave behind.  A producer claims an occurrence (`ClaimNew`),
takes over or is refused (`Reclaim`, `ReclaimHitsCircuit`, `ClaimRefused`),
starts a generation, and commits or fails it; `EnqueuePrepared` is the source
whose text is ready.  Between these steps its claim or the writer lease runs
out, its process dies, the user cancels, or an operator moves the control.  The
life of a leaf is `OutboundDelivery` in summary: claim by either lane, request
mark, the five ways to settle, expiry, deadline, cancellation and replay.

Each function takes the write lock of the control row first and is one step.
The clock that it is given was read before: an expired lease that nobody took
may still pass, so expiry is a mark, and the owner of an expired lease goes on
or is fenced.

### 6.2 The abstract specification

`OutboundLifecycle` says what the subsystem promises of one occurrence: its text
is frozen once, by one producer, and never generated again; delivered and
dropped are final; an occurrence in doubt is sent again only by a replay.
`ImplementsLifecycle` is that specification under the mapping `PhaseOf`, which
reads the phase off the run row and its leaf.

### 6.3 Run and fairness

| Run | Instance | Shows |
|---|---|---|
| `outbound_cutover` | two occurrences (one manual with malformed facts, one scheduled and prepared), two producers in one process, grace 1, clock to 2, two epochs, with fairness | no run is left behind by a cut-over, the epochs cut the schedule into consecutive pieces, the refinement, and that a drain ends |

Two producers are an owner and the one that takes over; they share a process
because the writer lease belongs to the process, the claim to the coroutine.
Two occurrences can lie on both sides of the boundary; two epochs are a whole
cut-over and its rollback.  Time passes (`Tick`), and the delivery worker's
cycle expires stale leases and drops what is past its deadline: the first is
weakly fair, the second strongly, because a claim can come in between again and
again.  Nothing is assumed of producers, operators or users.

`DrainEnds` has an exception, and the code has it: a leaf that turns ambiguous
in a draining source can neither be replayed, which needs `outbox_active`, nor
be left behind.

The legacy drain compares the control row with its snapshot before it claims a
leaf (`scheduled_task_outbound.py:909`).  No property depends on this check: mode
and epoch are tested again when the leaf is claimed, and the claim token when it
is settled.

### 6.4 Proofs

`OutboundControlProofs` proves for every set of occurrences, producers and
processes, every schedule and any number of cut-overs: `TypeCorrect`,
`NoRunStranded` (`LaneIsCurrent`), `EpochsCutTheSchedule` (`EpochsInOrder`) and
`Refinement`.  The assumptions are those the module names for its constants.

`EpochsInOrder` compares runs with each other and is not inductive: a new run is
ordered after the old ones because of where the old ones lie relative to the
boundary in the control row, which is `Boundary`.  `LaneIsCurrent` is kept because
a transition scans the runs it would leave behind (`UnsafeEpoch`).  `RowShape`
(an occurrence nobody claimed has neither leaf nor author) and `ProcHasOcc`
serve the refinement.  Its steps are sorted by what they do to the runs: at most
one occurrence moves, and the mapped step is a step of `OutboundLifecycle` or a
stutter.

`EpochsInOrder` speaks of runs of an outbox epoch and of the current epoch.  For
the legacy epoch before a hold it is false, as the attempt to prove it showed
(section 10).

## 7. GroupRuntime

### 7.1 State and actions

One group.  `state` is its `GroupChatState`; `gate` holds for each call that is
waiting for a model its `_GateTransaction` with the snapshot to go back to;
`timers` are the generations the client was told to call back with.  `sent`,
`failed` and `retried` describe the client, `answered` counts how often a message
was handed to the agent, `owed` and `replied` are answers under way.

`ReceiveMessage` and `TimerFired` are `process_message` and `handle_timer_fired`
up to the point where they decide or ask a model; there the lock is given back.
`GateReturns`, `GateOutdated`, `ProactiveReturns` and `GateFails` are what
happens when the model has answered, was too late, or the call was cancelled or
raised.  What a text scores is data: `decide_timing` gives any action it can
give.  When messages that all address somebody else cannot be scored,
`process_message` swallows the error and answers `no_reply` (`Unscored` in
`Considers`).  A timer tests the cooldown as a timer and scores with the last
trigger of the group, so after a message to the bot it can decide to continue in
a cooldown, even while a gate is running (`CooldownActions`).  Time is a set of
marks, each falling in a step of its own.

### 7.2 Runs and fairness

| Run | Instance | Shows |
|---|---|---|
| `group_gate` | a message to the bot and one to somebody else, two calls, thresholds 1 and 2, at most 2 pending, 2 linger messages, one unasked reply per window, one command being answered, one fault, with fairness | the group is never locked out, pending messages have a timer or a gate of their generation unless a call failed or they all address somebody else, no message is answered twice or dropped unseen, one that addresses the bot is decided on or crowded out |
| `group_second_gate` (violation) | the same, without fairness | two gates of one group at a time |

Two messages and two calls are the smallest group in which a verdict is
overtaken; every limit is at most 2, so that each is reached.  The client calls
back when it was told to, a model answers or times out (the call has a time
limit), the minimal interval and the reply's age pass: weak fairness of each.

### 7.3 Proofs

`GroupRuntimeProofs` proves for every finite set of messages, every set of calls,
every threshold and limit: `TypeCorrect`, `NeverLockedOut` (`RunningIsHeld`),
`PendingIsCovered` (`Covered`), `NoSecondAnswer` (`AnsweredOnce`) and
`UnseenMessagesStay` (`NothingUnseenIsDropped`).

The generation ties a verdict and a timer to the messages they are about.  It
grows with every message received, hence `Counted` bounds it, and no gate and no
timer is of a later one (`GateShape`, `TimersOld`).  `OneHolder` is the core: as
long as no message was sent again, the current generation has one holder, a
timer or one gate, and that gate's snapshot is what is pending.  `Unanswered`
says that what is pending was not answered.  Every entry into the runtime is
shown to be a `Called` (it ends under the lock or asks a model), every return of
a model a `GateClosed`, and the rest `Quiet`.

`AnsweredOnce` and `NothingUnseenIsDropped` hold until a message is sent again
(`~retried`).  The second was first stated without this premise and passed with
two messages and one fault; the proof failed, and three messages with three
faults violate it (section 10).

## 8. SandboxLease

### 8.1 State and actions

One Lease of the sandbox daemon, with a network profile.  Docker's facts are
`cont` (state, epoch label, age), `execs` (what runs in the container) and
`net`; `snap` is the snapshot file.  These survive the daemon.  The rest does
not: `rec`, the process records; `permit`, the permits that are not marked as
released, and `inUse`, the count the limiter keeps of them; `lock` and `pc`, the
holder of the Lease lock and where each thread is.  Threads are the starter,
reader and watchdog of a process, a client, an administrator and the reconciler.
`owed` and `giving` are the permits a thread has still to release and the one it
is releasing; `found`, `last` and `stale` are other locals of theirs.
`recreate` is a recycle followed by the client's `ensure`.

A step that holds the lock to its end is one action.  It is split where a crash,
a step without the lock or the failure of a later part can come in between: the
removal of a container, of its network and snapshot, and the notification
(`RecycleRemove`, `RecycleForget`, `RecycleNotify`); the look, the network, the
container and the snapshot of an `ensure`; permit, exec and snapshot of a start.
Three things happen without the lock, as in the code: the notification of a
recycle, the save of a snapshot by `get` (`GetRead`, `GetSave`), and the
reconciler's facts and sweep of networks (`ReconcileList`, `ReconcileSweep`).
`After` says where each caller goes on when its recycle is done, found nothing
or failed.  Time is two marks, for the idle and the maximal TTL.

A notifier closes the records of a recycled Lease first and releases their
permits one by one afterwards.  `ConcurrencyPermit.release` tests its mark,
takes the permit off the count and sets the mark, with no lock around the three;
so the look (`Release`, `StartUndo`) and the rest (`ReleaseGive`, `StartGive`)
are two steps, and a failed start and a notifier can both get past the look.
The second of them takes a permit too many off the count, or finds the count at
zero and raises, which a notifier swallows together with its remaining releases.
`raced` records that this happened.  `PermitsBalance` says what holds in spite
of it: a process on record as running has its permit, and the count never
includes a permit that nobody is left to release; without a race the count is
exact.

`Crash` is a kill of the daemon, not its orderly shutdown.

### 8.2 Runs, bounds and fairness

| Run | Instance | Shows |
|---|---|---|
| `sandbox_lease` | one process, limit 1, two daemon lives, two attempts to create the container, one trouble, with fairness | the limiter's count and the permits balance, a reported outcome stands, leftovers go, every command stops |
| `sandbox_late_notice` (violation) | the same, without fairness | a command recorded as lost goes on running |

`MaxTrouble` counts requests to recycle, Docker faults and crashes: one of them
may fall between any two steps of the others, and `MaxBoots` and `MaxEpoch` let
the Lease be made anew after it.  The time-out, the reconciler's own recycles,
the exit of the command and the two TTLs are not counted.  One process is enough
for every pair of threads that release one permit; the harm to the permit of
another process is in the theorem, which holds for any number.  An exec whose
start is unknown followed by a recycle that fails is two troubles and so outside
the run.

Some thread with a step to take goes on (one weakly fair action for all of
them), the reconciler makes its passes, a dead daemon is started again (by its
supervisor), a `get` saves what it read and the maximal TTL passes: weak
fairness of each.  Requests, exits, the end of a stream and faults may not come.
A client that repeats its `ensure` for ever, each time overtaken by the sweep,
is outside the bound `MaxBoots`.

### 8.3 Proofs

`SandboxLeaseProofs` proves for every set of processes, every limit, and any
number of daemon lives, containers and faults: `TypeCorrect`,
`PermitsAreBalanced` (`PermitsBalance`) and `OutcomesStand` (`OutcomeStands`).
`TypeOK` includes that the Lease lock is held exactly between taking and releasing
it, and that nothing executes in a container that does not run.

The permits are not protected by the lock, so the induction follows a permit
from hand to hand.  Before its exec the record of a start is new and its permit
is there (`BeginIsNew`); after it, if the record is closed, somebody has the
permit to release (`ExecIsListed`); whoever has one to release has closed the
record or is the failed start itself (`OwedIsClosed`, `GiveupGives`) and is at a
place from which it goes on to release it (`InTime`); reader and watchdog exist
only once the start is done (`Threaded`).  `Counted` then compares the count
with the finite set of held permits, step by step.  `BeginIsNew` is also why no
start overwrites an outcome.

## 9. Only model-checked

* Liveness under fairness: `EveryRunTerminates`, `EveryLeafConverges`,
  `DeliveryConverges`, `DrainEnds`, `DirectIsDecided`, `LeftoversGo`,
  `EveryCommandStops`.  TLAPS proves no liveness here.

The bounds on clocks, rows, epochs and faults are guards of actions; the theorems
hold for every value of them.

The theorems `OneHolder`, `ClosedQuiet`, `CompletedFinal` and
`TakenBeforeDelivered` are proved and not also run.  `TerminalAgreement`,
`OwnerReportsUnknownEffect`, `OneGate` and `LostIsGone` are what the repository
says of itself and the code does not keep: they appear in the four runs that end
in a violation, and nowhere else.

## 10. Findings

1. **A scan with several candidates can rewrite a finished task**
   (`core/durable_tasks/reconciler.py:99`, run `durable_overwrite`).  After the
   first commit the session reads the next candidate again; if its owner settled
   it meanwhile, the terminal row is used as the expected value and is replaced,
   while the event stream keeps the first result.
2. **An unknown side effect can be reported as a failure or a success**
   (`core/agent_runtime/native.py:1928`, run `durable_unknown`).  Before the
   ambiguous error of a tool is raised again, the activity is announced and a
   checkpoint is written.  If the checkpoint cannot be confirmed, that error
   replaces the ambiguous one and the Run is settled `failed`; another exception
   makes the bridge try its next candidate, which may succeed.  The comment of
   the bridge says that such a turn must not go on and stays `ambiguous`.
3.  **Two gates of one group** (`core/group_runtime/runtime.py:608`, run
   `group_second_gate`).  `handle_timer_fired` tests the cooldown before it
   tests whether a gate is running.  A timer of the current generation that
   fires in a cooldown, while an older call still waits for its model, commits a
   transaction of its own and clears the running flag.  If the decision was to
   wait, the client calls back, and that call opens a second gate while the
   first still waits.  A test of the repository says that this must not happen.
4. **A recycled Lease's notification can hit the next container**
   (`sandboxd/lease_backend.py:1033`, run `sandbox_late_notice`).  The observers
   are called after the lock is released.  A command started in the re-created
   Lease before that is recorded as lost: its permit is given back, its watchdog
   ends, it goes on running, and since the snapshot lists it as active, only the
   maximal TTL stops it.

Observations made while modelling, with no run of their own:

* *Durable Task.* A receipt prepared after the reconciler looked at the receipts
  is not seen (`reconciler.py:94`): a Run can end `failed` or `timed_out` with a
  prepared effect.  A recovery Run closed before it was claimed leaves its
  operation `prepared` (`reconciler.py:166`).
* *Chat reply.* `persist_claimed_chat_turn` (`api/chat_persistence.py:346`) does
  not look at the claim; the last fence is the checkpoint behind the agent.  A
  process that stands still for a whole lease between the two, or a client that
  takes that long to read its stream, whose events are yielded there, adds a
  second assistant row, after which the journal cannot be recovered from; no
  client is told a second answer (`SameAnswer`).
* *Chat reply.* The assistant row holds the sanitized answer, the marker the
  answer itself, and the recovery (`api/chat_recovery.py:356`) refuses a marker
  whose reply differs from the row: an answer the sanitizer alters cannot be
  recovered, and every retry takes the claim over, fails and gives it back.
* *Chat reply.* The design document says that a done event lost in its connection
  is delivered from the outbox.  `iter_streaming_chat_response` sets its flag
  before the yield, and two tests ask for that; a retry replays the answer.
* *Outbound delivery.* A leaf that exhausted its attempts cannot be replayed
  (`core/outbound/replay.py:110`), although the design document says it can.
* *Outbound delivery.* An outreach row that changes while its leaf is leased
  stops the lane: settlement (`settlement.py:539`) and every expiry pass
  (`settlement.py:755` and `818`) raise `OutboundFencingError` and are rolled
  back, and no worker gets past the expiry.  The sweep of exhausted leaves
  catches the same error in a savepoint (`delivery_claims.py:489`).  Nothing in
  the repository edits such a row.
* *Outbound control.* Nothing renews a claim during a generation: one that takes
  longer than the lease is taken over, and generated again, every time.  An
  ambiguous leaf of the legacy lane can never be replayed and blocks every later
  transition.  A cancelled run leaves older attempts `started`.  The remediation
  design says that hold stops the legacy lane; slots before the boundary are
  still admitted to it.  After a rollback `legacy_direct` refuses a slot before
  its boundary as one of a closed epoch (`control.py:265`).  Once the next hold
  begins, only the new boundary is looked at (`control.py:258`), and such a slot
  is admitted again, to the legacy epoch before the hold.
* *Group runtime.* Bridge and route both call `note_bot_replied` for one reply,
  which counts twice against the linger limit.  `force_next_continue` is not
  cleared on the timer path.  `restore_exact` takes back a reply that was counted
  while the gate was open.  A decision does not move the generation on, so a left
  over timer can open a gate with nothing pending.  Ambient messages below the
  threshold are polled for ever.  A message that is sent again keeps its
  generation, so two gates of one generation can be open: when the first fails,
  `_abort_gate_sync` restores its snapshot, and the verdict of the second clears
  messages that it was not shown.
* *Sandbox leases.* An `ensure` that finds a drifted network removes container
  and snapshot without notifying (`lease_backend.py:617`); if the new container
  cannot be made, the recycles of the command's reader and watchdog find nothing
  and raise, and the record stays `running` with its permit until the daemon
  stops.  The reconciler acts on facts read without the lock: it stops a command
  started meanwhile in a Lease that was idle, and a container that was created
  and not yet started counts as missing.  A snapshot saved by a late `get` hides
  the active processes from the idle TTL.
* *Sandbox leases.* `ConcurrencyPermit.release` (`concurrency.py:27`) is
  documented as idempotent and tests and sets its mark without a lock.  A failed
  start (`process_manager.py:607`) and a notifier (`process_manager.py:808`) can
  both give one permit back: the limiter then admits one command too many, or
  raises at zero.  `_notify_recycled` swallows that, and the notifier's other
  permits stay.

## 11. Left out of the modelled parts

* Durable Task: `attach_delivery_receipt`, which nothing calls after admission;
  the reasons given with a cancellation.
* Outbound delivery: changes of an endpoint's configuration revision.  What
  edits an outreach row from outside is one step, `FenceSource`.  The
  `legacy_direct` lane is in `OutboundControl`.
* Outbound control: `renew_outbound_run_claim` and
  `check_outbound_generation_gate`, which the modelled producer does not use;
  `resolve_legacy_ambiguous_outreach`; processes of mixed protocol versions.
* Group runtime: the scores of `timing_score.py`; `cleanup_idle`, which nothing
  calls; the retry of a message whose bridge call failed after the decision.
* Sandbox leases: the orderly shutdown (`terminate_all` and `close`), the
  limiter's count per profile beside the one per Lease, the quota maintenance
  gate, stdin, the output buffer, drift of the policy catalogue, the environment
  manager, the security options of a container, the one-shot containers and the
  client side in `core/sandbox`.
* Chat reply: requests without a message id, which bypass the claim; group
  messages, which use the claim from another handler; the private buffer; the
  fingerprint of a request and the codec of a stored response, hence also a
  stored response or envelope that cannot be read.
* Most of the repository's lines are not protocols: schema and migrations,
  prompts, providers, HTTP presentation, file operations, front ends and tests.
  `PROJECT.json` gives the reason for each.
* Formats, wording, logging and metrics everywhere.

## 12. Running

    tlc -workers 2 -config OutboundRace.cfg MCOutboundDelivery
    tlapm OutboundDeliveryProofs.tla

`PROJECT.json` names the module, configuration and properties of every run, the
source lines each definition models, and for every property a mutated definition
under which TLC finds the property violated.
