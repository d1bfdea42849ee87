# TLA+ models of the Pico / CodeCub runtime

The repository is an agent runtime. All production entries (terminal UI, REPL,
gateway, native adapters) assemble the same core, the *Spine* under
`pico/spine/`: a scheduler that executes Turns, and a delivery hub that carries
what Turns emit to the user. Around it are the parts that share state between
tasks or processes: the terminal's turn handlers with the questions a turn asks,
the subagents, the cron service and the session store. This directory holds
models of these parts, the TLC configurations that check them, and
machine-checked proofs of the safety properties for every size of the system.

Line numbers below refer to `src/`; `PROJECT.json` maps every definition to
the lines it models.

## 1. Inventory

### Spine scheduler - `pico/spine/scheduler.py`, `turn.py`, `runner.py`
* State: one `Lane` per conversation (queue `_pending`, `_inject_mailbox`,
  worker task, payload task, running future, idle clock), two semaphores
  (`OriginPools`), the lane table, `_draining`, the reaper, the shutdown task.
* Operations: `submit` with APPEND / INJECT / INTERRUPT, `TurnHandle.cancel`,
  `cancel_conversation` (/stop), the reaper's sweep, `shutdown`.
* Interaction: callers hold a `TurnHandle` per Turn; the payload calls the
  `TurnRunner` and an event sink. Runners pull injects through `drain()`.
* Hard: tasks interleave at every `await`; `Task.cancel()` takes effect later,
  wherever the task is suspended then; the terminal sinks suspend; the
  shutdown task starts one step after the seal.
* Correct when: every accepted Turn is executed, merged or withdrawn once and
  its handle resolved once; no lost wake-up; no slot is lost; order is kept;
  shutdown ends and leaves nothing.

### Delivery hub - `pico/spine/delivery.py`
* State: outlets, a bounded queue with its join counter and one worker per
  channel, two stream tables, `_closed`, the close task.
* Operations: `register`, `dispatch` / `post`, `close_stream`, `wait_idle`,
  `drain`, `aclose`; the worker's delivery with retries and failure report.
* Interaction: called by the sinks of Turns; calls outlets, which may hang or
  fail.
* Hard: back-pressure (a put suspends), a close while callers are suspended, a
  caller cancelled in a put, streams whose first delta never got into the queue.
* Correct when: events of a conversation arrive in order, a stream is closed
  once, `wait_idle` is a true render barrier, a hanging outlet holds up only its
  own channel, a closed hub is and stays empty.

### Cron service - `pico/proactive_engine/schedulers/cron/service.py`
* State: `jobs.json`, shared by the gateway, the terminal UI, the REPL and the
  `cron` command; per process `_running`, the timer task and the jobs it is
  executing.
* Operations: `start`, `stop`, `run_due` (the timer's tick), `run_job`,
  `add_job` with its three kinds of deduplication, `remove_job`, `enable_job`,
  `record_silent_fire`, `notify_user_active`.
* Interaction: a job's callback submits a Turn; the agent's cron tool and the
  `cron` command edit the file while other processes execute its jobs.
* Hard: jobs run outside the file lock, so a result is merged into a record that
  was edited, taken over or removed meanwhile; `start` does not lock; a process
  may die with claims on disk; re-arming the timer cancels the executing tick.
* Correct when: a job is executed by one live process, every claim is given back
  or expires, an enabled job stays without a next run only when its calendar has
  ended, a due job is taken.

### Session store - `pico/session/manager.py`, `pico/utils/atomic_io.py`
* State: per session key a JSON-lines file, its `.epoch` and `.known` side files;
  per holder a `Session` object with the snapshot of what it last saved.
* Operations: `get_or_create`, recording a message, `save` (append or rewrite),
  `session.clear` / `session.undo`, `/new`, `invalidate`, `delete`.
* Hard: several processes hold old objects of the same key; a process dies
  between the epoch, the marker and the file, or inside a block of records.
* Correct when: a saved message stays until someone removes it, a removed one
  does not come back, nothing is written twice, a holder that is up to date
  agrees with the file.

### Terminal turn flow and question broker - `pico/tui_rpc/`
* State: active slot per session and the ids of bound requests (`methods/turn.py`,
  `spine.py`), the running request of a conversation; pending questions and the
  index by request id (`question_broker.py`). An answer names either.
* Operations: `turn.send`, `turn.cancel`, the runner, the sink with its render
  barrier, `await_question`, `reply`, `cancel_all`, the loss of the connection.
* Hard: a handler uses what it read before its awaits; a second cancel cuts the
  sink off; system Turns share the lane; answers race with timeouts.
* Correct when: the slot belongs to the Turn under way and is always released,
  each Turn's events reach the front end in order and for that Turn, an answer by
  request id reaches only its own question, the end of a connection ends all work.

### Subagents - `pico/agent/subagent/manager.py`
* State: registry of tasks, registry per session, spawn window per session, gate,
  `_closing`, the close task.
* Operations: `spawn`, `cancel_by_session` (/stop), `begin_close`, `close`, the
  task with its sandbox and its announcement, the done callback.
* Interaction: `/stop` and the shutdown of the host call it; a task owns a sandbox,
  a virtual machine, whose `stop()` (`sandbox/boxlite_executor.py`) is not shielded
  from a cancellation.
* Hard: two /stop of one session, a stop while agents wait at the gate or close
  their sandbox, an agent that ends during the close.
* Correct when: /stop returns only when the session's agents are gone, an agent that
  has ended has no machine left, `close` ends and leaves nothing.

### Not modelled
| Component | Why |
|---|---|
| `finish_barrier` (`spine/_barrier.py`) | a shielded wait; the closes behind it are modelled in `Scheduler` and `DeliveryHub`, their order in `TuiTurn` |
| Confirm broker | same shape as the question broker |
| Agent loop, providers, context and memory engines, tools, sandbox | model calls, text and operating-system I/O; the seams (a runner returns, raises, drains, is cancelled; a sandbox fails) are in the models |
| Channels, CLI, evolver, CodeCub runtime, front ends, benchmarks | adapters, wiring, offline pipelines and user interfaces |

Most of the repository's lines are in the last two rows, so the models map
a small share of it; they cover the parts in which several actors share state.

## 2. Plan

1. `Scheduler` with its abstract specification `TurnLedger`; proofs in
   `SchedulerProofs`. *Done.*
2. `DeliveryHub`; proofs in `DeliveryProofs`. *Done.*
3. `Cron`: processes, claims and the job file, the unlocked start. *Done.*
4. `SessionStore`: epochs, appends, rewrites, crashes. *Done.*
5. `TuiTurn`: composition of one lane, the TUI sink, the hub and the
   `QuestionBroker`. *Done.*
6. `SubagentManager`. *Done.*
7. Theorems. Every safety property that a passing run checks, invariant or action
   property, and the refinement of `TurnLedger`, is proved (section 10). *Done.*
   Left: the safety content of two liveness runs (that a suspended put or a
   `wait_idle` always has a worker or a close to wake it) stated as invariants,
   and properties for the hazards that have none yet.

## 3. Scheduler

`Scheduler.tla` models one asyncio loop. A step is the code between two
suspension points, so synchronous functions (`submit`, `cancel_turn`,
`drain_pending`, `_sweep`) are single steps. A Turn is a number, the order of
its acceptance.

| Variables | Code |
|---|---|
| `req`, `fut`, `result` | `TurnRequest` with the applied policy, the terminal future, what it holds (the Turn whose outcome it is, or `None`) |
| `life` | lifecycle events the sink has received |
| `pending`, `mailbox`, `worker`, `idle`, `lanes` | the `Lane` fields and `Scheduler._lanes` |
| `running`, `phase`, `cancelReq`, `outcome`, `chained` | the payload task: its Turn, where it is suspended, a `cancel()` not yet delivered, its return value, the merged injects |
| `free` | the semaphores |
| `draining`, `shutdown`, `awaited`, `reaper` | seal, position of the shutdown task, its futures, the reaper |

Actions: `Submit`; `WorkerStart`, `WorkerResume` (`_run_worker`); `BeginNow`,
`BeginWaiting`, `Acquire`, `StartFails`, `CancelledEarly`, `Drain`,
`RunnerReturns`, `RunnerRaises`, `RunnerCancelled`, `TerminalSent`,
`TerminalCut` (`_run_turn`); `CancelTurn`, `CancelConversation`; `Sweep`;
`Seal`, `DrainLanes`, `CollectRunning`, `GraceEnds`, `CascadeEnds`.

Modelling decisions: the sink call for TurnStarted does not suspend in any host
of the repository (`tui_rpc/spine.py`, `cli/_gateway_spine.py`,
`cli/_repl_spine.py`, `codecub/native_gateway.py`), those for TurnEnded and
TurnFailed do. The TTL of a lane may expire at any sweep. The semaphore is
asyncio's: a newcomer does not pass a waiter. The forced cancellation of a
worker at interpreter exit (lines 241-249), spans and the depth warning are left
out.

`TurnLedger.tla` is what a holder of handles may rely on: an accepted Turn
waits, executes alone in its conversation or is merged into the one executing
there, and is settled once, with an outcome only from the Turn that produced it.
`KeepsLedger` is the refinement (`StageOf` is the mapping).

## 4. Delivery hub

`DeliveryHub.tla`: a caller is the producer of one conversation; it makes one
call at a time and may be cancelled wherever the call suspends. Item `<<v, n>>`
is the n-th event of conversation `v`; kinds are delta, text (a terminal
deliverable), notice (any other) and the close marker.

| Variables | Code |
|---|---|
| `outlets`, `queue`, `unfinished`, `routed`, `open`, `closed` | `_outlets`, `_queues` with the join counter, keys of `_stream_channel` and `_open_streams`, `_closed` |
| `worker`, `hand`, `attempt`, `cancelled` | the `_run_outlet` task: where it is suspended, its item, failed attempts, a `cancel()` not yet delivered |
| `closing` | position of `_finish_close` |
| `pc`, `barrier`, `ops`, `seen` | where a caller is suspended, what its `wait_idle` must outlast, the events emitted, the calls the outlet got |

Actions: `Register`, `Enqueue`, `CloseStream`, `PutProceeds`, `PutRefused`,
`PutCancelled`, `WaitIdle`, `WaitEnds`; `WorkerStart`, `TakeDeliverable`,
`TakeDelta`, `TakeClose`, `Skip`, `Sent`, `ChunkFails`, `DeliveryFails`,
`RetryAfter`, `Resend`, `Reported`, `WorkerCancelled`, `WorkerDies`; `Aclose`,
`CloseCancels`, `CloseFinishes`. Each call on a closed hub or to an unknown
channel changes nothing and is not a step. A worker that goes from one item
to the next without suspending does so in two steps; the state between them is
the one of a worker whose `get` is ready.

## 5. Cron

`Cron.tla` models several processes on one `jobs.json`. Each block under
`_locked()` drops the cache and reads the file again, so it is one step on `disk`.

| Variables | Code |
|---|---|
| `disk`, `unused` | the records of `jobs.json` (schedule, recipient, topic tag, message, `enabled`, next run, last status, claim, silent fires); ids not handed out |
| `running`, `pending`, `timer` | `_running`; a `start` between its load and its save; a sleeping tick task |
| `batch` | the `run_due` and `run_job` calls that execute jobs: owner, claim time, the job objects read, the job under way, and whether the task is a tick, a command or cancelled |
| `now`, `calls` | the clock; a bound on calls |
| `orphan`, `overtaken`, `clobbered`, `rescheduled` | history: claims whose process died; services whose `start` loaded before the last write; a `start` overwrote a write made after its load; jobs that `add_job` gave another schedule while a call had them |

Actions: `StartLoad`, `StartSave` (`start`), `Stop`, `Crash`, `RunDue`, `RunJob`,
`FinishJob`, `FinishBatch`, `CancelBatch` (`_execute_job`,
`_persist_job_result`, `_release_claims`, `_arm_timer`), `AddJob`, `RemoveJob`,
`EnableJob`, `DisableJob`, `RecordSilentFire`, `NotifyUserActive`, `Tick`.

Modelling decisions: a cron expression is a grid of instants with a last one, the
end of its year range or of what croniter can tell. After it `_compute_next_run`
returns `None` (75-91), which `add_job` and `enable_job` refuse, `_execute_job` stores
in a job that stays enabled (676-677), and the next `start` turns into a disabled,
expired job (479-486). `OnlyEndedStall` says that this is the only way to an enabled job
without a next run. `run_job` reads the
clock before it gets the lock, at most `LockWait` earlier. Crashes and late starts
happen only while the bounded clock can still run past the claims they leave
(`InHorizon`). `_arm_timer` cancels the task in `_timer_task` even when that task is
executing a job, as the code does. The unlocked `start` may write back records
older than another process's claim; `OneLiveOwner`, `NoLeakedClaim` and
`ForeignClaimsKept` are stated for runs in which that did not happen, which
`clobbered` records; so is `OnlyEndedStall`, which also excepts the jobs in
`rescheduled`: their result brings the next run of the schedule they no longer have.
Requests are those `add_job` accepts: a known kind of schedule
and a positive time (`CronAssumption`); a job that an earlier process left has a fire
ahead of the first instant. Records of a newer schema, which the code keeps
untouched, and the reading operations are left out.

## 6. Session store

`SessionStore.tla` models one key. Every mutation runs under the file's lock,
so a mutation that completes is one step; the two crash actions leave each
intermediate state of an append, a replacement and a deletion.

| Variables | Code |
|---|---|
| `file`, `epoch`, `known` | the JSON-lines file (messages, metadata, a torn last record), `.epoch`, `.known` |
| `session` | per holder the `Session` object: messages, metadata, `_persisted_snapshot`, storage epoch, rewrite flag |
| `count` | messages recorded; message n is the n-th |
| `acked`, `gone` | history: messages of saves that returned; messages removed by somebody who had them in view |

Actions: `Open`, `Record`, `SetMeta`, `SaveAppend`, `SaveRewrite`, `CutHistory`
(clear and undo), `NewConversation`, `Invalidate`, `Delete`, `CrashInAppend`,
`CrashInFence`. A save that the code refuses with a conflict changes nothing and
is not a step, except in `NewConversation`, which clears the object first.

Modelling decisions: metadata, consolidation cursor and pending clarification
are one value, since the code compares them together. A file that has no metadata
record yet counts as one with blank metadata. The state after a crash in the
first append of a key, which the code then reports as corrupt, is in the model
(`Corrupt`); nothing can be opened or written in it. Left out: fork, the read without
a lock on a read-only disk, listing and key resolution, and disk calls that
fail without the process dying.

## 7. Terminal turn flow

`TuiTurn.tla` composes the handlers, the runner and the sink of the terminal with
`QuestionBroker.tla`, and with what they see of the scheduler and the hub: one
lane (queue, running Turn, phase of the payload, a pending cancellation) and the
queue of tokens.

| Variables | Code |
|---|---|
| `origin`, `queue`, `running`, `phase`, `cancelReq`, `done` | the lane and its payload task, the resolved handles |
| `slot`, `bound`, `runningReq` | `_active_turns` and `_active_request_keys`, `turn_ids` and `submission_ids`, `running_requests` |
| `waiting` | `turn.cancel` handlers suspended in `handle.result()` |
| `hub`, `shown`, `wire`, `leaked`, `cut` | tokens still to render; history of what the front end got, `wire` the sequence of lifecycle events sent for each Turn |
| `link` | the connection and the steps of the host's cleanup |
| `asked`, `pending`, `index`, `stage`, `future` | the broker: questions, `_pending`, `_by_request`, where `await_question` is suspended, its future with the handle an answer was addressed by and the question its sender meant |

Actions: `TurnSend`, `SystemSubmit`; `WorkerStart`, `WorkerCollect`;
`RunnerStart`, `CancelledEarly`, `EmitToken`, `HubDeliver`, `RunnerLeaves`;
`SinkEnds`, `SinkCut`; `CancelAtOnce`, `CancelRunning`, `CancelReturns`;
`AskUser`, `Asking`, `ClarifyRespond`, `Answered`, `AskCancelled`; `Hangup`, `Sweep`,
`Teardown`. The broker's steps are `Ask`, `FrameSent`, `Expire`, `Resume`,
`FrameFails`, `Interrupt`, `ReplyTo`, `CancelAll`.

Modelling decisions: `clarify.respond` takes a conversation id or a request id and
prefers the former (`methods/question.py:30`); the model answers either way, at any
time and for any question asked so far. An answer by request id reaches its own
question or none. One by conversation reaches whatever question is registered there,
so a late one may complete the next question; `AnswersTheQuestion` then promises only
that it is the one meant or a later one of the same conversation. Every `turn.cancel`
appends its own error to `wire` (`OneCancelError`, section 11). The error that
`turn.cancel` sends is not behind the render barrier in the code, and
`StreamsKeptApart` asks nothing of it. A second cancel that hits the sink cuts its
wait; `cut` records it and `StreamsKeptApart` excepts that Turn. A request has an
identity of its own, where the code uses `id(req)`. The overlap branch of `Ask` (a
question replaces one that is still registered) cannot be reached with one Turn
per lane; it is kept because the code has it. Left out: the coalescing of events
per subscription, attachments, and the branch of `turn.send` without a scheduler.

## 8. Subagents

`SubagentManager.tla`: an agent is a task that waits at the gate, runs, closes its
sandbox, and announces its result in its last step; its done callback runs one
step later. A cancellation in the loop closes the sandbox first (`unwinding`); one
that arrives while the sandbox is being closed, after the loop or after an earlier
cancellation, cuts `stop()` short, and the machine may stay up.

| Variables | Code |
|---|---|
| `owner`, `task`, `cancelReq` | session of an agent, where its task is suspended, a `cancel()` not yet delivered |
| `vms`, `broken`, `lateCancel` | machines that are up; history: sandboxes that failed, agents cancelled while their sandbox was being closed |
| `registered`, `bySession`, `window` | `_running_tasks`, `_session_tasks`, `_session_spawn_times` |
| `stopping`, `stopped` | `cancel_by_session` calls in progress; history: agents such a call vouched for |
| `closing`, `close`, `gathered` | `_closing`, `_close_task` and the tasks it waits for |
| `announced` | results submitted to the Spine |

Actions: `Spawn`, `AgeOut`; `Enter`, `LoopEnds`, `Interrupted`, `Ends`,
`SandboxFails`, `Deregister`; `Stop`, `StopReturns`; `BeginClose`, `Close`,
`Gather`, `CloseEnds`. `StopReachesAll` is about the agents only; what their ends leave
of the sandboxes is `SandboxesClosed`, with the two exceptions above. A machine that
fails to stop is logged and nothing more (`_cleanup_box`), and counts as a failed
sandbox. A spawn without a session key and the loop of model calls are
left out.

`TypeOK` of `Cron`, `TuiTurn` and `SubagentManager` is proved (`CronTyped`,
`TuiTyped`, `SubagentsTyped`); no run lists it.

## 9. Runs

| Run | Instance | Shows |
|---|---|---|
| `sched_lane` | 1 lane, 3 Turns, USER and CRON | `OneOwner`, `NoStrandedWork`, `AppendOrder`, `TerminalBeforeResult`, `OutcomeStaysInConversation`, refinement of `TurnLedger` |
| `sched_live` | 2 lanes, 2 Turns, pool of 1, fairness | `TypeOK`, `ShutdownLeavesNothing`, `EveryHandleResolves`, `ShutdownFinishes`, `CancelIsDelivered` |
| `delivery` | 2 callers (4 and 1 events) of one outlet, queue of 1, 1 retry | `TypeOK`, `JoinCountsWork`, `DeliveryInOrder`, `OneDonePerStream`, `RenderBarrier`, `ClosedHubIsEmpty` |
| `delivery_live` | 2 channels, 2 events each, fairness | `ChannelServesItsCallers`, `CloseReleasesEveryone` |
| `cron` | 2 daemons and a command, 2 jobs, 3 requests, clock to 5, TTL 2, 2 calls | `OneLiveOwner`, `NoLeakedClaim`, `OnlyEndedStall`, `ForeignClaimsKept`, `DueJobIsTaken` |
| `session` | 2 writers, 3 messages, 2 metadata values, epoch to 2 | `TypeOK`, `SavedTurnsSurvive`, `NoResurrection`, `NoDuplicates`, `CurrentViewIsStored`, `EpochFencesHistory` |
| `tui` | 1 session, 3 Turns, 2 cancel handlers, hub of 1, 2 questions | `SlotFollowsTurn`, `StreamsKeptApart`, `AnswersTheQuestion`, `EventsInOrder`, `CancelFreesSlot`, `HangupEndsTurns` |
| `subagents` | 2 sessions, 2 /stop handlers, 2 agents, 1 permit | `StopReachesAll`, `CloseLeavesNothing`, `SandboxesClosed`, `StopsEnd` |
| `sched_seal`, `sched_merged`, `cron_disable`, `tui_cancel` | | the findings below |

Bounds. Three Turns are a host, an inject or interrupter and a backlog, the
largest group that one decision of the code looks at; two lanes and one slot
make a payload wait for a pool. Pools have one slot so that they fill. The
queue of one place makes puts suspend at once; four events are what it takes
to close a stream, lose a delta and close again. One retry distinguishes
"budget left" from "used up".
In `cron` the two daemons serve different recipients and share one, the jobs have
the three kinds of schedule, the calendar ends within the clock, and the clock lets a claim expire and a job become due
again; two calls are an edit and a second one (or a crash) while jobs run. In
`session` two rewrites and a third message are what it takes for a holder to be one
and two generations behind and still have something to save. In `tui` three Turns are
the one cancelled, a system Turn behind it and the next user Turn; two handlers
make the second cancel that cuts the sink. In `subagents` one permit makes an agent
wait at the gate, and two handlers stop the same session twice.

Deadlock is not checked where the bounds stop the system: all calls are used up
and everything is at rest.

Fairness. `LoopFairness` of the scheduler: asyncio runs every ready task, the
grace timeout expires, sinks return, and a runner that gets a CancelledError
unwinds (no handler in `pico/agent/loop` swallows it). Nothing is assumed of
callers, of the TTL, or of a runner that is not cancelled; that runners end at
last is a premise of `EveryHandleResolves` only. In the hub: ready tasks run,
sleeps end, a suspended put is woken when there is a place. That the outlet of
a channel answers is a premise of `ChannelServesItsCallers`, for that channel
alone. `delivery_live` assumes that no outlet lets a CancelledError of its own
escape; the worker it kills would be restarted by the next enqueue only, and
`wait_idle` would hang until then. `delivery` includes that step.
In `Cron` the clock advances, a tick that sleeps wakes (its sleep is capped),
callbacks end and a `start` that has loaded saves; nobody has to call the API, to
start or to crash. In `TuiTurn` the lane, the payload, the outlet and the host's
cleanup go on and a cancelled runner unwinds; the user, a runner left alone and the
timeout of a question owe nothing. In `SubagentManager` a cancellation is delivered,
closing a sandbox ends and a wait for finished tasks returns; an agent's own loop
owes nothing.

## 10. Proofs

Every theorem holds for all values of the constants that satisfy the named
assumption of its module: any number of processes, Turns, agents, writers, events,
any pool, queue and retry limits. The bounds on counters are constants, too. The
assumptions say that limits are positive, that sets of channels and the like fit
together, that cron requests are those `add_job` accepts and, where a value may be
`None`, that `None` is not such a value (`CronAssumption`, `SessionAssumption`).
Each inductive invariant was checked by TLC on a small instance before it was
proved: 1,359,865 states for `OrderInv`, 668,909 for `TuiInv`, 588,679 for `StoreInv`,
373,639 for `ManagerInv` and `SandboxInv`, 331,336 for `StallInv` (which contains
`ClaimInv`), 323,999 for `LifeInv`.

| Module | Theorems | Inductive invariant |
|---|---|---|
| `SchedulerProofs` | `TypeCorrect`, `HandlesHaveOneOwner` (`OneOwner`), `WorkIsNeverStranded` (`NoStrandedWork`) | `OwnershipInv` |
| `LedgerProofs` | `TerminalComesFirst` (`TerminalBeforeResult`), `OutcomesStayHome` (`OutcomeStaysInConversation`), `ShutdownIsComplete` (`ShutdownLeavesNothing`), `QueueKeepsOrder` (`AppendOrder`), `SchedulerKeepsLedger` (`KeepsLedger`) | `LifeInv`, `ShutdownInv`, both on `OwnershipInv` |
| `DeliveryProofs` | `JoinCounterIsExact` (`JoinCountsWork`), `ClosedHubStaysEmpty` (`ClosedHubIsEmpty`), `HubTyped`, `OutletsSeeOrder` (`DeliveryInOrder`), `StreamsEndOnce` (`OneDonePerStream`), `BarrierHolds` (`RenderBarrier`) | `HubInv`, `OrderInv` |
| `CronProofs` | `CronTyped`, `LiveOwnerIsAlone` (`OneLiveOwner`), `ClaimsGivenBack` (`NoLeakedClaim`), `ForeignClaimsStay` (`ForeignClaimsKept`), `OnlyEndedCalendarsStall` (`OnlyEndedStall`) | `BaseInv`, `ClaimInv`, `StallInv` |
| `SessionProofs` | `StoreTyped`, `SavedTurnsAreKept` (`SavedTurnsSurvive`), `RemovedStaysRemoved` (`NoResurrection`), `JournalIsDuplicateFree` (`NoDuplicates`), `ViewsAreStored` (`CurrentViewIsStored`), `EpochIsAFence` (`EpochFencesHistory`) | `StoreInv` |
| `TuiProofs` | `TuiTyped`, `SlotIsTheTurns` (`SlotFollowsTurn`), `MessagesKeptApart` (`StreamsKeptApart`), `AnswersMatch` (`AnswersTheQuestion`), `EventsAreOrdered` (`EventsInOrder`) | `TuiInv` |
| `SubagentProofs` | `SubagentsTyped`, `StopIsComplete` (`StopReachesAll`), `CloseIsComplete` (`CloseLeavesNothing`), `SandboxesAreClosed` (`SandboxesClosed`) | `ManagerInv`, `SandboxInv` |
| `SequenceFacts` | lemmas on `Append`, `Cons`, `\o`, `Tail`, `RemoveAt` and sequences without repetition, used by the others | |

The arguments:

* *Ownership of Turns.* `OneOwner` and `NoStrandedWork` need each other: that the
  worker's fall-back of the mailbox does not lose a Turn needs that a mailbox is
  only filled while a Turn runs; that a lane with work is registered needs that the
  idle clock is set only when nothing is held. `PayloadShape` ties merged injects to
  the phases of the payload that settle them.
* *Lifecycle and shutdown.* `LifeInv` says what the phase of a payload tells of the
  events the sink has got and of the outcome the payload holds; a cancellation that
  hits any await then cannot resolve a Turn the sink believes to run.
  `ShutdownInv` says that after the drain nothing is queued again and that the task
  waits for every running Turn, although it looks at the lanes only twice.
* *Order and refinement.* `AppendOrder` is inductive on top of these: the mailbox
  that falls back in front of the queue holds injects only, which it does not order.
  For the refinement,
  `StageMeaning` reads the stage of a Turn off the places that hold it; with one owner
  per Turn every action is then one step of the ledger or a stutter.
* *Hub.* `HubInv` adds that a worker has an item exactly while it is suspended in
  handling one (without it `task_done` could be called for nothing), and `Swept`: a
  close task implies the seal, a finished one empty queues, no worker and empty stream
  tables. `OrderInv` needs to know which events have been put: all that is queued, in a
  hand, waited for or seen is `Old`, hence older than the event a suspended caller is
  still putting (`AllOld`); the queue keeps each conversation's order and is behind
  what the outlet has seen (`Ordered`); in an open stream a delta follows every
  `done=True` (`Streams`).
* *Cron.* `BaseInv` holds even when an unlocked `start` has overwritten the store:
  records have their shape, and what a `start` has loaded is what is on disk unless
  the history variable says that it was overtaken. `ClaimInv` is about the
  executions in which none has overwritten a write. A call owns the jobs it still has to execute until its
  claim runs out (`Owned`). The hard case is a claim, owner and time, that is not
  unique: a tick cancelled by a re-armed timer and the next tick of the same process
  may claim in the same millisecond, and `_release_claims` of one would then clear the
  claims of the other. They took different jobs (`Apart`), because a job executed in
  this instant is not due again in it (`Rested`), neither through an edit nor through
  the result of a peer that claimed it since (`Linked`). Every step is an edit, a
  claim, the end of a callback or a tick of the clock (`StepKinds`), and each kind is
  one lemma. `StallInv` adds that a record, and the copy a call would write its result
  from, are `Lasting`: enabled without a next run only if the calendar has ended. It
  needs `ClaimInv`, since only the holder of the claim writes, and that the copy has
  the schedule of the record, which an edit breaks only for `rescheduled` jobs; that a
  calendar that has ended stays ended carries it over a tick of the clock.
* *Session store.* A message not yet saved is known to its writer only (`Private`), and
  an object of the current epoch has a view that the file contains in the same order
  (`Sound`). So an append repeats nothing, a rewrite loses nothing, and an object of an
  older epoch is refused for ever.
* *Terminal.* While the runner or the sink has a Turn, the request table names it
  (`Correlated`); a Turn that keeps the slot although it is cancelled or over has a
  suspended `turn.cancel` that will release it (`ReleasePending`); tokens still to be
  rendered are the running Turn's (`HubKept`). The broker's two registries agree
  (`IndexMatches`): a request id that is indexed is the one registered for its
  conversation, which is why `reply` may look the question up by conversation.
* *Subagents.* Both registries know every live agent (`RegistryComplete`), and a stop
  or a close in progress waits for all it has to vouch for (`StopCovers`,
  `CloseCovers`). `SandboxInv` adds that a machine is up only inside the gate, and that
  a cancellation that can meet a sandbox being closed is recorded as late.

Only model-checked: the liveness properties (`EveryHandleResolves`,
`ShutdownFinishes`, `CancelIsDelivered`, `ChannelServesItsCallers`,
`CloseReleasesEveryone`, `DueJobIsTaken`, `CancelFreesSlot`, `HangupEndsTurns`,
`StopsEnd`), since fairness and ENABLED are beyond the prover, and the four
violations below, which are counterexamples.

## 11. Findings

* `sched_seal`: the comment at `scheduler.py:467-468` requires that nothing is
  awaited between seal and drain, so that work not started is settled
  atomically. `shutdown` (494-497) seals and only *creates* the task that drains.
  A worker that is ready at that moment starts a queued Turn of a sealed
  scheduler, which then uses the grace window.
* `sched_merged`: the comment at `scheduler.py:345-346` says that drained
  injects share the outcome of their Turn. They are resolved before TurnEnded is
  sent; a cancel or INTERRUPT that hits the suspended sink makes the host's own
  result `None`, and the sink does not finish its work for that Turn.
* `cron_disable`: `enable_job` with `enabled=False` is documented to clear the next
  run (`cron/service.py:978-979`). `_persist_job_result` (605) writes `enabled` and the
  next run of the job object read when the run was claimed over the record on
  disk. A recurring job that was disabled while it ran, by the command or by
  `record_silent_fire`, is enabled again when its run ends.
* `tui_cancel`: `methods/turn.py:324-325` calls the error of `turn.cancel` the only one a
  cancelled turn gets. The slot stays taken until the turn has unwound, so a second
  `turn.cancel` in that time finds it and sends the error again (344-362); a runner that
  raises while it unwinds is reported by the sink as well.

Observed without a run of its own, against a docstring:

* `_execute_job` saves an enabled job whose calendar has ended
  (`cron/service.py:676-677`); the docstring at 64-65 tells the callers of
  `_compute_next_run` not to save a job that never runs. `OnlyEndedStall` holds this
  to be the only such case.
* A `start` after the last fire's time disables the job of an ended calendar and drops
  its pending fire (479-486), where `_recompute_next_runs` is said to keep one.
* A second `/stop`, or one that meets an agent closing its sandbox, returns without the
  sandbox cleanup that `cancel_by_session` says it waits for (`manager.py:413-414`);
  `SandboxesClosed` excepts exactly these agents.

Observed, with no line of the repository saying what should happen, so hazards and not
findings: a job that `add_job` reschedules by its topic tag while it runs gets the next
run of its old schedule, or is deleted when it was a one-shot job; an add or a remove
from inside a job's own callback re-arms the timer and so cancels that very callback; a
late answer by conversation id completes the next question of the conversation; a crash
in the first append of a session key leaves a state that every later access reports as
corrupt.
