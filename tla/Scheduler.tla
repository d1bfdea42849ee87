------------------------------ MODULE Scheduler ------------------------------
(***************************************************************************)
(* The Spine scheduler of pico/spine/scheduler.py: one Lane per            *)
(* conversation, one worker per Lane, one payload task per running Turn,   *)
(* two origin pools, and the seal / drain / grace / cascade shutdown.      *)
(*                                                                         *)
(* Everything runs on one asyncio loop, so a step of the model is the code *)
(* between two suspension points, and steps of different tasks interleave  *)
(* freely.  Task.cancel() only marks a task (cancelReq); the CancelledError*)
(* is raised at the point where the task is suspended, by its next step.   *)
(*                                                                         *)
(* A Turn is named by the order of its acceptance, 1..MaxTurns.  The sink  *)
(* call for TurnStarted does not suspend in any host of the repository;    *)
(* the calls for TurnEnded and TurnFailed do (TUI and gateway wait there   *)
(* for the render barrier), so they are steps of their own.                *)
(***************************************************************************)
EXTENDS Integers, FiniteSets, SequencesExt

CONSTANTS
  Conversations,   \* lane keys
  MaxTurns,        \* bound: how many Turns are ever submitted
  Origins,         \* the origins that submit
  UserPool,        \* OriginPools(user = ...)
  SystemPool       \* OriginPools(system = ...)

ASSUME ConstantsAssumption ==
  /\ Conversations # {}
  /\ IsFiniteSet(Conversations)
  /\ MaxTurns \in Nat
  /\ Origins \subseteq {"USER", "CRON", "SUBAGENT"}
  /\ UserPool \in Nat \ {0}
  /\ SystemPool \in Nat \ {0}

Turns == 1 .. MaxTurns
NoTurn == 0                 \* the Python None: no running Turn
None == 0                   \* the Python None: cancelled or failed
BusyPolicies == {"APPEND", "INJECT", "INTERRUPT"}
Pools == {"user", "system"}

Request == [conversation : Conversations, origin : Origins, busy : BusyPolicies]
NoRequest == [conversation |-> "none", origin |-> "none", busy |-> "none"]

VARIABLES
  \* the handles
  accepted,   \* how many Turns have been submitted
  req,        \* their TurnRequests, with the policy applied at submit
  fut,        \* "new" | "open" | "done": the terminal future of each Turn
  result,     \* what a done future holds: the Turn whose TurnOutcome it is, or None
  life,       \* the lifecycle events the sink has received for each Turn
  \* the lanes
  lanes,      \* registered lane keys
  pending,    \* Lane._pending
  mailbox,    \* Lane._inject_mailbox
  worker,     \* "none" | "ready" | "waiting": Lane._worker
  idle,       \* Lane._idle_since is set
  \* the payload task of each lane
  running,    \* the Turn of Lane._running_fut / Lane._run_task
  phase,      \* where that task is suspended
  cancelReq,  \* Task.cancel() was called and is not delivered yet
  outcome,    \* what the finished task returned
  chained,    \* the local list of injects merged into the running Turn
  free,       \* the value of each pool's semaphore
  \* the scheduler
  draining,   \* Scheduler._draining
  shutdown,   \* where the shared shutdown task is
  awaited,    \* the futures that task waits for
  reaper      \* "none" | "sleeping"

handleVars == <<accepted, req, fut, result, life>>
laneVars == <<lanes, pending, mailbox, worker, idle>>
payloadVars == <<running, phase, cancelReq, outcome, chained, free>>
shutdownVars == <<draining, shutdown, awaited, reaper>>
vars == <<handleVars, laneVars, payloadVars, shutdownVars>>

Phases == {"none", "created", "acquiring", "running",
           "ending", "failing", "cancelling", "done"}
TerminalPhases == {"ending", "failing", "cancelling"}
LifeStages == {"silent", "started", "ended", "failed", "cancelled", "cut"}

-----------------------------------------------------------------------------
(* Helpers of the code. *)

\* OriginPools.for_origin
for_origin(origin) == IF origin = "USER" THEN "user" ELSE "system"
PoolSize(p) == IF p = "user" THEN UserPool ELSE SystemPool

\* Faulty variant: no demotion of system origins.
effective_busy_trusting(origin, busy) == busy

\* Scheduler._effective_busy: only USER may inject or interrupt.
effective_busy(origin, busy) ==
  IF busy = "APPEND" \/ origin = "USER" THEN busy ELSE "APPEND"

\* Lane._run_task is not None and not done.
IsRunning(c) == running[c] # NoTurn /\ phase[c] # "done"

PoolOf(c) == for_origin(req[running[c]].origin)

\* Faulty variant: enter without asking the semaphore.
SlotIgnored(c) == TRUE

\* asyncio.Semaphore: a free slot nobody is queued for.
SlotFree(c) ==
  /\ free[PoolOf(c)] > 0
  /\ \A d \in Conversations \ {c} :
       phase[d] = "acquiring" /\ ~cancelReq[d] => PoolOf(d) # PoolOf(c)

\* set_result on every future of S that is not done.
Resolve(S, value) ==
  /\ fut' = [t \in Turns |-> IF t \in S THEN "done" ELSE fut[t]]
  /\ result' = [t \in Turns |->
                  IF t \in S /\ fut[t] # "done" THEN value ELSE result[t]]

Init ==
  /\ accepted = 0
  /\ req = [t \in Turns |-> NoRequest]
  /\ fut = [t \in Turns |-> "new"]
  /\ result = [t \in Turns |-> None]
  /\ life = [t \in Turns |-> "silent"]
  /\ lanes = {}
  /\ pending = [c \in Conversations |-> <<>>]
  /\ mailbox = [c \in Conversations |-> <<>>]
  /\ worker = [c \in Conversations |-> "none"]
  /\ idle = [c \in Conversations |-> FALSE]
  /\ running = [c \in Conversations |-> NoTurn]
  /\ phase = [c \in Conversations |-> "none"]
  /\ cancelReq = [c \in Conversations |-> FALSE]
  /\ outcome = [c \in Conversations |-> None]
  /\ chained = [c \in Conversations |-> {}]
  /\ free = [p \in Pools |-> PoolSize(p)]
  /\ draining = FALSE
  /\ shutdown = "none"
  /\ awaited = {}
  /\ reaper = "none"

-----------------------------------------------------------------------------
(* Submission: Scheduler.submit, which calls Lane.submit.  It is           *)
(* synchronous.  A sealed scheduler raises and changes nothing.            *)

\* Faulty variant: only the lane's creation starts its worker.
WakeOnlyNewLane(c) ==
  worker' = [worker EXCEPT ![c] = IF c \in lanes THEN @ ELSE "ready"]

\* The worker is started when the lane has none, or its task is done.
WakeWorker(c) ==
  worker' = [worker EXCEPT ![c] = IF @ = "none" THEN "ready" ELSE @]

\* Lane.submit with INTERRUPT while a payload runs: cancel it, go to the front.
PlaceInterrupt(c, t) ==
  /\ cancelReq' = [cancelReq EXCEPT ![c] = TRUE]
  /\ pending' = [pending EXCEPT ![c] = Cons(t, @)]
  /\ WakeWorker(c)
  /\ UNCHANGED mailbox

\* Lane.submit with INJECT while a payload runs: wait for its drain.
PlaceInject(c, t) ==
  /\ mailbox' = [mailbox EXCEPT ![c] = Append(@, t)]
  /\ UNCHANGED <<cancelReq, pending, worker>>

\* Faulty variant: the front of the queue for everybody.
PlaceAppendAtFront(c, t) ==
  /\ pending' = [pending EXCEPT ![c] = Cons(t, @)]
  /\ WakeWorker(c)
  /\ UNCHANGED <<cancelReq, mailbox>>

\* Lane.submit otherwise: an ordinary Turn at the tail.
PlaceAppend(c, t) ==
  /\ pending' = [pending EXCEPT ![c] = Append(@, t)]
  /\ WakeWorker(c)
  /\ UNCHANGED <<cancelReq, mailbox>>

Place(c, t, policy) ==
  \/ /\ policy = "INTERRUPT" /\ IsRunning(c)
     /\ PlaceInterrupt(c, t)
  \/ /\ policy = "INJECT" /\ IsRunning(c)
     /\ PlaceInject(c, t)
  \/ /\ policy = "APPEND" \/ ~IsRunning(c)
     /\ PlaceAppend(c, t)

Submit(c, origin, busy) ==
  LET t == accepted + 1
      policy == effective_busy(origin, busy)
  IN  /\ ~draining
      /\ accepted < MaxTurns
      /\ accepted' = t
      /\ req' = [req EXCEPT ![t] =
                   [conversation |-> c, origin |-> origin, busy |-> policy]]
      /\ fut' = [fut EXCEPT ![t] = "open"]
      /\ lanes' = lanes \cup {c}
      /\ idle' = [idle EXCEPT ![c] = FALSE]
      /\ Place(c, t, policy)
      /\ reaper' = "sleeping"
      /\ UNCHANGED <<result, life, running, phase, outcome, chained, free,
                     draining, shutdown, awaited>>

-----------------------------------------------------------------------------
(* The worker: Lane._run_worker. *)

\* One turn of the while loop on the backlog q: pop and create the payload
\* task, or leave with the idle clock set.
TakeNext(c, q) ==
  /\ outcome' = [outcome EXCEPT ![c] = None]
  /\ cancelReq' = [cancelReq EXCEPT ![c] = FALSE]
  /\ \/ /\ q # <<>>
        /\ pending' = [pending EXCEPT ![c] = Tail(q)]
        /\ running' = [running EXCEPT ![c] = Head(q)]
        /\ phase' = [phase EXCEPT ![c] = "created"]
        /\ worker' = [worker EXCEPT ![c] = "waiting"]
        /\ UNCHANGED idle
     \/ /\ q = <<>>
        /\ pending' = [pending EXCEPT ![c] = <<>>]
        /\ running' = [running EXCEPT ![c] = NoTurn]
        /\ phase' = [phase EXCEPT ![c] = "none"]
        /\ worker' = [worker EXCEPT ![c] = "none"]
        /\ idle' = [idle EXCEPT ![c] = TRUE]

\* The worker task runs for the first time.
WorkerStart(c) ==
  /\ worker[c] = "ready"
  /\ TakeNext(c, pending[c])
  /\ UNCHANGED <<handleVars, lanes, mailbox, chained, free, shutdownVars>>

\* Faulty variant: injects that were not drained are dropped.
WorkerResumeForgetful(c) ==
  /\ worker[c] = "waiting"
  /\ phase[c] = "done"
  /\ Resolve({running[c]}, outcome[c])
  /\ mailbox' = [mailbox EXCEPT ![c] = <<>>]
  /\ TakeNext(c, pending[c])
  /\ UNCHANGED <<accepted, req, life, lanes, chained, free, shutdownVars>>

\* The payload is done: resolve its future, turn the injects it did not drain
\* into ordinary Turns, and go on with the backlog, all in one step.
WorkerResume(c) ==
  /\ worker[c] = "waiting"
  /\ phase[c] = "done"
  /\ Resolve({running[c]}, outcome[c])
  /\ mailbox' = [mailbox EXCEPT ![c] = <<>>]
  /\ TakeNext(c, pending[c] \o mailbox[c])
  /\ UNCHANGED <<accepted, req, life, lanes, chained, free, shutdownVars>>

-----------------------------------------------------------------------------
(* The payload task: Lane._run_turn. *)

\* The task ends; the value is what the worker will read.
Finish(c, value) ==
  /\ phase' = [phase EXCEPT ![c] = "done"]
  /\ outcome' = [outcome EXCEPT ![c] = value]
  /\ cancelReq' = [cancelReq EXCEPT ![c] = FALSE]

\* The slot is taken, the sink gets TurnStarted and the runner is entered.
Enter(c) ==
  /\ free' = [free EXCEPT ![PoolOf(c)] = @ - 1]
  /\ life' = [life EXCEPT ![running[c]] = "started"]
  /\ phase' = [phase EXCEPT ![c] = "running"]
  /\ UNCHANGED <<accepted, req, fut, result, cancelReq, outcome, running,
                 chained, laneVars, shutdownVars>>

\* First step of the task.
BeginNow(c) ==
  /\ phase[c] = "created"
  /\ ~cancelReq[c]
  /\ SlotFree(c)
  /\ Enter(c)

BeginWaiting(c) ==
  /\ phase[c] = "created"
  /\ ~cancelReq[c]
  /\ ~SlotFree(c)
  /\ phase' = [phase EXCEPT ![c] = "acquiring"]
  /\ UNCHANGED <<handleVars, laneVars, running, cancelReq, outcome, chained,
                 free, shutdownVars>>

\* The semaphore wakes a waiter.
Acquire(c) ==
  /\ phase[c] = "acquiring"
  /\ ~cancelReq[c]
  /\ free[PoolOf(c)] > 0
  /\ Enter(c)

\* The sink raises on TurnStarted: the slot is given back, nothing is emitted.
StartFails(c) ==
  /\ \/ phase[c] = "created" /\ SlotFree(c)
     \/ phase[c] = "acquiring" /\ free[PoolOf(c)] > 0
  /\ ~cancelReq[c]
  /\ Finish(c, None)
  /\ UNCHANGED <<handleVars, laneVars, running, chained, free, shutdownVars>>

\* Faulty variant: a payload queued at the pool cannot be cancelled.
CancelledEarlyUnlessQueued(c) ==
  /\ phase[c] = "created"
  /\ cancelReq[c]
  /\ Finish(c, None)
  /\ UNCHANGED <<handleVars, laneVars, running, chained, free, shutdownVars>>

\* Cancelled before TurnStarted: no body or no slot, and no event.
CancelledEarly(c) ==
  /\ phase[c] \in {"created", "acquiring"}
  /\ cancelReq[c]
  /\ Finish(c, None)
  /\ UNCHANGED <<handleVars, laneVars, running, chained, free, shutdownVars>>

\* The drain() the runner calls in a gap of its tool loop.
Drain(c) ==
  /\ phase[c] = "running"
  /\ ~cancelReq[c]
  /\ mailbox[c] # <<>>
  /\ chained' = [chained EXCEPT ![c] = @ \cup ToSet(mailbox[c])]
  /\ mailbox' = [mailbox EXCEPT ![c] = <<>>]
  /\ UNCHANGED <<handleVars, lanes, pending, worker, idle, running, phase,
                 cancelReq, outcome, free, shutdownVars>>

\* Faulty variant: the slot is kept on the cancellation path.
LeavePoolUnlessCancelled(c) ==
  free' = [free EXCEPT ![PoolOf(c)] = IF cancelReq[c] THEN @ ELSE @ + 1]

\* Leaving "async with pool", on every path.
LeavePool(c) == free' = [free EXCEPT ![PoolOf(c)] = @ + 1]

\* The runner returns: the slot is released, the merged injects get the
\* outcome, and the sink is called with TurnEnded.
RunnerReturns(c) ==
  /\ phase[c] = "running"
  /\ ~cancelReq[c]
  /\ LeavePool(c)
  /\ Resolve(chained[c], running[c])
  /\ chained' = [chained EXCEPT ![c] = {}]
  /\ outcome' = [outcome EXCEPT ![c] = running[c]]
  /\ phase' = [phase EXCEPT ![c] = "ending"]
  /\ UNCHANGED <<accepted, req, life, laneVars, running, cancelReq, shutdownVars>>

\* The runner raises: the sink is called with TurnFailed(cancelled=False).
\* An Exception raised while unwinding a CancelledError takes this path too.
RunnerRaises(c) ==
  /\ phase[c] = "running"
  /\ LeavePool(c)
  /\ phase' = [phase EXCEPT ![c] = "failing"]
  /\ cancelReq' = [cancelReq EXCEPT ![c] = FALSE]
  /\ UNCHANGED <<handleVars, laneVars, running, outcome, chained, shutdownVars>>

\* Faulty variant: no TurnFailed for a cancelled runner.
RunnerCancelledSilently(c) ==
  /\ phase[c] = "running"
  /\ cancelReq[c]
  /\ LeavePool(c)
  /\ Resolve(chained[c], None)
  /\ chained' = [chained EXCEPT ![c] = {}]
  /\ Finish(c, None)
  /\ UNCHANGED <<accepted, req, life, laneVars, running, shutdownVars>>

\* The cancellation reaches the runner: TurnFailed(cancelled=True).
RunnerCancelled(c) ==
  /\ phase[c] = "running"
  /\ cancelReq[c]
  /\ LeavePool(c)
  /\ phase' = [phase EXCEPT ![c] = "cancelling"]
  /\ cancelReq' = [cancelReq EXCEPT ![c] = FALSE]
  /\ UNCHANGED <<handleVars, laneVars, running, outcome, chained, shutdownVars>>

\* The event whose sink call a phase is suspended in.
TerminalEvent(ph) ==
  CASE ph = "ending" -> "ended"
    [] ph = "failing" -> "failed"
    [] ph = "cancelling" -> "cancelled"

\* The terminal sink call returns; the finally clause has resolved, or now
\* resolves, the merged injects.
TerminalSent(c) ==
  /\ phase[c] \in TerminalPhases
  /\ ~cancelReq[c]
  /\ life' = [life EXCEPT ![running[c]] = TerminalEvent(phase[c])]
  /\ Resolve(chained[c], None)
  /\ chained' = [chained EXCEPT ![c] = {}]
  /\ Finish(c, outcome[c])
  /\ UNCHANGED <<accepted, req, laneVars, running, free, shutdownVars>>

\* A cancellation hits the terminal sink call: CancelledError is no Exception,
\* so _emit_terminal lets it out and the task ends as cancelled.
TerminalCut(c) ==
  /\ phase[c] \in TerminalPhases
  /\ cancelReq[c]
  /\ life' = [life EXCEPT ![running[c]] = "cut"]
  /\ Resolve(chained[c], None)
  /\ chained' = [chained EXCEPT ![c] = {}]
  /\ Finish(c, None)
  /\ UNCHANGED <<accepted, req, laneVars, running, free, shutdownVars>>

-----------------------------------------------------------------------------
(* Cancellation by the callers. *)

\* Lane.cancel_turn on a queued Turn: it is removed and resolved with None.
CancelQueued(t) ==
  LET c == req[t].conversation
  IN  /\ \E i \in DOMAIN pending[c] :
           /\ pending[c][i] = t
           /\ pending' = [pending EXCEPT ![c] = RemoveAt(@, i)]
      /\ Resolve({t}, None)
      /\ UNCHANGED <<mailbox, cancelReq>>

\* Lane.cancel_turn on an inject that is not drained yet.
CancelMailboxed(t) ==
  LET c == req[t].conversation
  IN  /\ \E i \in DOMAIN mailbox[c] :
           /\ mailbox[c][i] = t
           /\ mailbox' = [mailbox EXCEPT ![c] = RemoveAt(@, i)]
      /\ Resolve({t}, None)
      /\ UNCHANGED <<pending, cancelReq>>

\* Faulty variant: the canceller resolves the running future itself.
CancelRunningResolves(t) ==
  LET c == req[t].conversation
  IN  /\ running[c] = t
      /\ IsRunning(c)
      /\ cancelReq' = [cancelReq EXCEPT ![c] = TRUE]
      /\ Resolve({t}, None)
      /\ UNCHANGED <<pending, mailbox>>

\* Lane.cancel_turn on the running Turn: only its payload is cancelled.
CancelRunning(t) ==
  LET c == req[t].conversation
  IN  /\ running[c] = t
      /\ IsRunning(c)
      /\ cancelReq' = [cancelReq EXCEPT ![c] = TRUE]
      /\ UNCHANGED <<pending, mailbox, fut, result>>

\* TurnHandle.cancel.  On a done future or a merged inject it does nothing.
CancelTurn(t) ==
  /\ fut[t] = "open"
  /\ CancelQueued(t) \/ CancelMailboxed(t) \/ CancelRunning(t)
  /\ UNCHANGED <<accepted, req, life, lanes, worker, idle, running, phase,
                 outcome, chained, free, shutdownVars>>

\* Faulty variant: the mailbox is not drained.
DrainOnlyQueue(L) ==
  /\ Resolve(UNION {ToSet(pending[c]) : c \in L}, None)
  /\ pending' = [c \in Conversations |-> IF c \in L THEN <<>> ELSE pending[c]]
  /\ UNCHANGED mailbox

\* Lane.drain_pending on a set of lanes.
DrainPending(L) ==
  /\ Resolve(UNION {ToSet(pending[c]) \cup ToSet(mailbox[c]) : c \in L}, None)
  /\ pending' = [c \in Conversations |-> IF c \in L THEN <<>> ELSE pending[c]]
  /\ mailbox' = [c \in Conversations |-> IF c \in L THEN <<>> ELSE mailbox[c]]

\* Lane.cancel_running on a set of lanes.
CancelPayloads(L) ==
  cancelReq' = [c \in Conversations |->
                  cancelReq[c] \/ (c \in L /\ IsRunning(c))]

\* Scheduler.cancel_conversation, the /stop command.
CancelConversation(c) ==
  /\ c \in lanes
  /\ CancelPayloads({c})
  /\ DrainPending({c})
  /\ UNCHANGED <<accepted, req, life, lanes, worker, idle, running, phase,
                 outcome, chained, free, shutdownVars>>

-----------------------------------------------------------------------------
(* The reaper and the shutdown task. *)

\* Scheduler._reap_loop wakes and sweeps: any idle lane may have reached its
\* TTL.  Without lanes left the task ends.
Sweep ==
  /\ reaper = "sleeping"
  /\ \E gone \in SUBSET {c \in lanes : idle[c]} :
       /\ lanes' = lanes \ gone
       /\ idle' = [c \in Conversations |-> idle[c] /\ c \notin gone]
  /\ reaper' = IF lanes' = {} THEN "none" ELSE "sleeping"
  /\ UNCHANGED <<handleVars, pending, mailbox, worker, payloadVars,
                 draining, shutdown, awaited>>

\* Scheduler.shutdown: seal and create the shared task.  Later callers only
\* wait for it.
Seal ==
  /\ shutdown = "none"
  /\ draining' = TRUE
  /\ shutdown' = "sealed"
  /\ UNCHANGED <<handleVars, laneVars, payloadVars, awaited, reaper>>

\* Collect the running futures; with none there is nothing left to wait for.
Collect ==
  /\ awaited' = {running[c] : c \in lanes} \ {NoTurn}
  /\ shutdown' = IF awaited' = {} THEN "finished" ELSE "grace"

\* First step of _finish_shutdown: drain every lane and stop the reaper.
DrainLanes ==
  /\ shutdown = "sealed"
  /\ DrainPending(lanes)
  /\ \/ /\ reaper = "sleeping"
        /\ reaper' = "none"
        /\ shutdown' = "reaped"
        /\ UNCHANGED awaited
     \/ /\ reaper = "none"
        /\ Collect
        /\ UNCHANGED reaper
  /\ UNCHANGED <<accepted, req, life, lanes, worker, idle, payloadVars, draining>>

\* The cancelled reaper has ended.
CollectRunning ==
  /\ shutdown = "reaped"
  /\ Collect
  /\ UNCHANGED <<handleVars, laneVars, payloadVars, draining, reaper>>

\* Faulty variant: the survivors of the grace window are not cancelled.
GraceEndsGently ==
  /\ shutdown = "grace"
  /\ awaited' = {t \in awaited : fut[t] # "done"}
  /\ shutdown' = IF awaited' = {} THEN "finished" ELSE "cascade"
  /\ UNCHANGED <<handleVars, laneVars, payloadVars, draining, reaper>>

\* asyncio.wait returns, at the timeout or because every future is done, and
\* the payloads still running are cancelled.
GraceEnds ==
  /\ shutdown = "grace"
  /\ CancelPayloads(lanes)
  /\ awaited' = {t \in awaited : fut[t] # "done"}
  /\ shutdown' = IF awaited' = {} THEN "finished" ELSE "cascade"
  /\ UNCHANGED <<handleVars, laneVars, running, phase, outcome, chained, free,
                 draining, reaper>>

\* The survivors are done.
CascadeEnds ==
  /\ shutdown = "cascade"
  /\ \A t \in awaited : fut[t] = "done"
  /\ awaited' = {}
  /\ shutdown' = "finished"
  /\ UNCHANGED <<handleVars, laneVars, payloadVars, draining, reaper>>

\* The scheduler is shut down and no task of it is left: nothing more happens.
Stopped ==
  /\ shutdown = "finished"
  /\ \A c \in Conversations : worker[c] = "none"
  /\ UNCHANGED vars

-----------------------------------------------------------------------------
Worker(c) == WorkerStart(c) \/ WorkerResume(c)

\* What the runner and the sinks decide, and the pool wait.
Payload(c) ==
  \/ BeginNow(c) \/ BeginWaiting(c) \/ Acquire(c) \/ StartFails(c)
  \/ CancelledEarly(c) \/ Drain(c)
  \/ RunnerReturns(c) \/ RunnerRaises(c) \/ RunnerCancelled(c)
  \/ TerminalSent(c) \/ TerminalCut(c)

Callers ==
  \/ \E c \in Conversations, o \in Origins, b \in BusyPolicies : Submit(c, o, b)
  \/ \E t \in Turns : CancelTurn(t)
  \/ \E c \in Conversations : CancelConversation(c)
  \/ Seal

Shutdown == DrainLanes \/ CollectRunning \/ GraceEnds \/ CascadeEnds

Next ==
  \/ Callers
  \/ \E c \in Conversations : Worker(c) \/ Payload(c)
  \/ Sweep
  \/ Shutdown
  \/ Stopped

Safety == Init /\ [][Next]_vars

\* The steps of a payload that do not wait for the runner to finish its work.
PayloadMoves(c) ==
  \/ BeginNow(c) \/ BeginWaiting(c) \/ Acquire(c) \/ CancelledEarly(c)
  \/ RunnerCancelled(c) \/ TerminalSent(c) \/ TerminalCut(c)

\* The event loop runs every ready task, a timeout expires, a sink returns and
\* a cancelled runner unwinds.  Callers, the TTL and the runner owe nothing.
LoopFairness ==
  /\ \A c \in Conversations : WF_vars(Worker(c)) /\ WF_vars(PayloadMoves(c))
  /\ WF_vars(Shutdown)

Spec == Safety /\ LoopFairness

\* In addition a runner that is not cancelled ends at last.
RunnerFairness ==
  \A c \in Conversations : WF_vars(RunnerReturns(c) \/ RunnerRaises(c))

-----------------------------------------------------------------------------
(* Properties. *)

\* Every variable stays in its range.
TypeOK ==
  /\ accepted \in 0 .. MaxTurns
  /\ req \in [Turns -> Request \cup {NoRequest}]
  /\ \A t \in Turns : t <= accepted => req[t] \in Request
  /\ fut \in [Turns -> {"new", "open", "done"}]
  /\ result \in [Turns -> Turns \cup {None}]
  /\ life \in [Turns -> LifeStages]
  /\ lanes \subseteq Conversations
  /\ pending \in [Conversations -> Seq(Turns)]
  /\ mailbox \in [Conversations -> Seq(Turns)]
  /\ worker \in [Conversations -> {"none", "ready", "waiting"}]
  /\ idle \in [Conversations -> BOOLEAN]
  /\ running \in [Conversations -> Turns \cup {NoTurn}]
  /\ phase \in [Conversations -> Phases]
  /\ cancelReq \in [Conversations -> BOOLEAN]
  /\ outcome \in [Conversations -> Turns \cup {None}]
  /\ chained \in [Conversations -> SUBSET Turns]
  /\ free \in [Pools -> Nat]
  /\ draining \in BOOLEAN
  /\ shutdown \in {"none", "sealed", "reaped", "grace", "cascade", "finished"}
  /\ awaited \subseteq Turns
  /\ reaper \in {"none", "sleeping"}

\* The Turns a lane owes an end to.
Held(c) ==
  ToSet(pending[c]) \cup ToSet(mailbox[c]) \cup chained[c]
    \cup ({running[c]} \ {NoTurn})

\* The four places of a lane share no Turn and hold none twice.
PlacesDisjoint(c) ==
  /\ IsInjective(pending[c])
  /\ IsInjective(mailbox[c])
  /\ ToSet(pending[c]) \cap ToSet(mailbox[c]) = {}
  /\ chained[c] \cap (ToSet(pending[c]) \cup ToSet(mailbox[c])) = {}
  /\ running[c] \notin ToSet(pending[c]) \cup ToSet(mailbox[c]) \cup chained[c]

\* Every accepted handle that is not done is owned by its own lane, in exactly
\* one of queue, mailbox, merged list and running slot, and a done handle by
\* nobody: queueing, injecting, merging, falling back, cancelling and draining
\* neither lose a Turn nor let it run or be resolved a second time.
OneOwner ==
  /\ \A t \in Turns : fut[t] = "new" <=> t > accepted
  /\ \A t \in Turns : fut[t] = "open" <=> \E c \in Conversations : t \in Held(c)
  /\ \A c \in Conversations :
       /\ \A t \in Held(c) : req[t].conversation = c
       /\ PlacesDisjoint(c)

\* No lost wake-up: queued work has a worker that will look at it, a mailbox
\* has a Turn that drains it or a worker that requeues it, and a lane with
\* work is still registered, so that /stop and shutdown find it.
NoStrandedWork ==
  \A c \in Conversations :
    /\ pending[c] # <<>> => worker[c] # "none"
    /\ mailbox[c] # <<>> \/ chained[c] # {} => running[c] # NoTurn
    /\ running[c] # NoTurn <=> worker[c] = "waiting"
    /\ Held(c) # {} => c \in lanes /\ ~idle[c]

\* A lane has a payload exactly while it has a running Turn, and that payload
\* has merged injects to settle only from the first drain to its last handler.
PayloadShape ==
  \A c \in Conversations :
    /\ phase[c] = "none" <=> running[c] = NoTurn
    /\ chained[c] # {} => phase[c] \in {"running", "failing", "cancelling"}

\* The inductive invariant behind OneOwner and NoStrandedWork.
OwnershipInv == TypeOK /\ OneOwner /\ NoStrandedWork /\ PayloadShape

\* APPEND Turns of a conversation are taken in the order of submission,
\* whatever is injected, interrupted, cancelled or requeued between them.
AppendOrder ==
  \A c \in Conversations :
    LET before(t, u) == req[t].busy = "APPEND" /\ req[u].busy = "APPEND" => t < u
    IN  /\ \A i, j \in DOMAIN pending[c] :
             i < j => before(pending[c][i], pending[c][j])
        /\ running[c] # NoTurn =>
             \A i \in DOMAIN pending[c] : before(running[c], pending[c][i])

\* An outcome reaches only the Turn that produced it and USER injects of the
\* same conversation; a Turn the sink never heard of yields no outcome.
OutcomeStaysInConversation ==
  \A t \in Turns : result[t] # None =>
    /\ life[result[t]] # "silent"
    /\ result[t] # t =>
         /\ req[t].busy = "INJECT"
         /\ req[t].origin = "USER"
         /\ req[t].conversation = req[result[t]].conversation

\* A Turn is resolved only after the sink got the terminal event of a Turn it
\* saw start, and a Turn cancelled or failed earlier stays silent and fruitless.
TerminalBeforeResult ==
  \A t \in Turns : fut[t] = "done" =>
    /\ life[t] # "started"
    /\ result[t] = t => life[t] = "ended"

\* When shutdown returns, every handle is resolved, no Turn is queued, merged
\* or running, and the reaper is gone.
ShutdownLeavesNothing ==
  shutdown = "finished" =>
    /\ \A t \in Turns : fut[t] # "open"
    /\ \A c \in Conversations : Held(c) = {}
    /\ reaper = "none"

\* A sealed scheduler finishes its shutdown even if no runner ever returns.
ShutdownFinishes == draining ~> shutdown = "finished"

\* If runners end, every accepted handle is resolved: TurnHandle.result()
\* never hangs.
EveryHandleResolves ==
  RunnerFairness => \A t \in Turns : fut[t] = "open" ~> fut[t] = "done"

\* Even behind a runner that never ends, cancelling the conversation's running
\* Turn frees the lane: a cancellation is always delivered.
CancelIsDelivered ==
  \A c \in Conversations : cancelReq[c] ~> ~cancelReq[c]

\* The ledger a holder of handles sees.
StageOf(t) ==
  CASE fut[t] = "new" -> "new"
    [] fut[t] = "done" -> "settled"
    [] fut[t] = "open" ->
         IF \E c \in Conversations : running[c] = t THEN "executing"
         ELSE IF \E c \in Conversations : t \in chained[c] THEN "merged"
         ELSE "waiting"

Ledger == INSTANCE TurnLedger WITH
  stage <- [t \in Turns |-> StageOf(t)],
  home <- [t \in Turns |-> req[t].conversation]

\* The scheduler keeps the promise of TurnLedger: one executing Turn per
\* conversation, injects merged only into it, every handle settled once and
\* with an outcome only from the Turn that produced it.
KeepsLedger == Ledger!Spec

\* Once sealed, no worker takes another Turn from its queue.
SealStopsStarts ==
  [][draining => \A c \in Conversations : running'[c] \in {running[c], NoTurn}]_vars

\* A merged inject and its host end with the same result.
MergedFollowHost ==
  \A t \in Turns :
    LET h == result[t]
    IN  h # None /\ fut[h] = "done" => result[h] = h

=============================================================================
