-------------------------- MODULE SubagentManager --------------------------
(***************************************************************************)
(* The manager of background subagents (pico/agent/subagent/manager.py),   *)
(* its use by the gateway's /stop command, and its part of the shutdown.   *)
(*                                                                         *)
(* A subagent is an asyncio task: it waits for a permit of the gate, runs  *)
(* in a sandbox, closes the sandbox, gives the permit back and announces   *)
(* its result to the spine in the step it ends.  A done callback removes   *)
(* it from the registries one turn of the event loop later.  Agents are    *)
(* numbered in the order they are spawned.                                 *)
(***************************************************************************)
EXTENDS Naturals, FiniteSets

CONSTANTS
  Sessions,
  NoSession,
  Handlers,        \* /stop commands that may be in progress at the same time
  MaxAgents,       \* bound on the subagents spawned
  MaxConcurrent,   \* permits of the gate
  MaxSpawns        \* spawns a session may make in an hour

ASSUME SubagentAssumption ==
  /\ NoSession \notin Sessions
  /\ MaxAgents \in Nat /\ MaxConcurrent \in Nat \ {0} /\ MaxSpawns \in Nat

VARIABLES
  owner,       \* session of each agent, once it is spawned
  task,        \* where its task stands
  cancelReq,   \* agents with a cancellation to deliver
  vms,         \* agents whose virtual machine is up
  broken,      \* agents whose sandbox failed to start or to stop
  lateCancel,  \* agents cancelled while their sandbox was being closed
  registered,  \* _running_tasks
  bySession,   \* _session_tasks
  window,      \* length of _session_spawn_times, per session
  stopping,    \* per handler, the call of cancel_by_session in progress
  stopped,     \* agents of a session whose cancel_by_session has returned
  closing,     \* _closing
  close,       \* _close_task: not created, created, the tasks it gathers, done
  gathered,    \* the tasks it gathers
  announced    \* agents whose result was submitted to the spine

agentVars == <<owner, task, cancelReq>>
sandboxVars == <<vms, broken, lateCancel>>
registryVars == <<registered, bySession, window>>
closeVars == <<closing, close, gathered>>
stopVars == <<stopping, stopped>>
vars == <<agentVars, sandboxVars, registryVars, stopVars, closeVars, announced>>

Agents == 1..MaxAgents
Idle == [on |-> NoSession, tasks |-> {}, before |-> {}]

Spawned == {a \in Agents : task[a] # "new"}
Live == {a \in Spawned : task[a] # "done"}

\* Agents whose sandbox is being closed, after their loop or a cancellation.
Closing == {a \in Agents : task[a] \in {"cleanup", "unwinding"}}

\* Agents that hold a permit of the gate: it is given back after the sandbox
\* is closed.
Holders == {a \in Agents : task[a] \in {"running", "cleanup", "unwinding"}}

TypeOK ==
  /\ owner \in [Agents -> Sessions \cup {NoSession}]
  /\ task \in [Agents -> {"new", "queued", "running", "cleanup", "unwinding", "done"}]
  /\ cancelReq \subseteq Live
  /\ vms \subseteq Spawned /\ broken \subseteq Spawned /\ lateCancel \subseteq Spawned
  /\ registered \subseteq Spawned
  /\ bySession \in [Sessions -> SUBSET Spawned]
  /\ window \in [Sessions -> 0..MaxSpawns]
  /\ stopping \in [Handlers -> [on : Sessions \cup {NoSession},
                                tasks : SUBSET Spawned, before : SUBSET Spawned]]
  /\ stopped \subseteq Spawned
  /\ closing \in BOOLEAN
  /\ close \in {"none", "created", "gathering", "done"}
  /\ gathered \subseteq Spawned
  /\ announced \subseteq Spawned
  /\ Cardinality(Holders) <= MaxConcurrent

Init ==
  /\ owner = [a \in Agents |-> NoSession]
  /\ task = [a \in Agents |-> "new"]
  /\ cancelReq = {} /\ vms = {} /\ broken = {} /\ lateCancel = {}
  /\ registered = {}
  /\ bySession = [s \in Sessions |-> {}]
  /\ window = [s \in Sessions |-> 0]
  /\ stopping = [h \in Handlers |-> Idle] /\ stopped = {}
  /\ closing = FALSE /\ close = "none" /\ gathered = {}
  /\ announced = {}

-----------------------------------------------------------------------------
(* Spawning.                                                               *)

\* Mutant: a manager that is closing still accepts work.
AdmitsAlways(s) == window[s] < MaxSpawns

\* spawn is refused while the manager closes or the session's window is full.
Admits(s) == ~closing /\ window[s] < MaxSpawns

Spawn(s) ==
  /\ Admits(s)
  /\ \E a \in Agents \ Spawned :
       /\ \A b \in Agents \ Spawned : a <= b
       /\ owner' = [owner EXCEPT ![a] = s]
       /\ task' = [task EXCEPT ![a] = "queued"]
       /\ registered' = registered \cup {a}
       /\ bySession' = [bySession EXCEPT ![s] = @ \cup {a}]
  /\ window' = [window EXCEPT ![s] = @ + 1]
  /\ UNCHANGED <<cancelReq, sandboxVars, stopVars, closeVars, announced>>

\* The oldest spawn of a session leaves the rolling window.
AgeOut(s) ==
  /\ window[s] > 0
  /\ window' = [window EXCEPT ![s] = @ - 1]
  /\ UNCHANGED <<agentVars, sandboxVars, registered, bySession, stopVars, closeVars, announced>>

-----------------------------------------------------------------------------
(* The task of a subagent.                                                 *)

Move(a, stage) == task' = [task EXCEPT ![a] = stage]

Others == <<owner, registryVars, stopVars, closeVars>>

\* The gate lets it in and its sandbox starts.
Enter(a) ==
  /\ task[a] = "queued" /\ a \notin cancelReq
  /\ Cardinality(Holders) < MaxConcurrent
  /\ Move(a, "running")
  /\ vms' = vms \cup {a}
  /\ UNCHANGED <<cancelReq, broken, lateCancel, announced, Others>>

\* The agent's loop ends, completed, failed or out of iterations, and the
\* sandbox is being closed.
LoopEnds(a) ==
  /\ task[a] = "running" /\ a \notin cancelReq
  /\ Move(a, "cleanup")
  /\ UNCHANGED <<cancelReq, sandboxVars, announced, Others>>

\* stop() of the sandbox is cut short or raises: its machine may be left up.
MayLeave(a) == vms' \in {vms, vms \ {a}}

\* Mutant: the cancellation is delivered once the gate has let the agent in.
InterruptedInside(a) ==
  /\ a \in cancelReq
  /\ task[a] \in {"running", "cleanup", "unwinding"}
  /\ Move(a, IF task[a] = "running" THEN "unwinding" ELSE "done")
  /\ IF a \in Closing THEN MayLeave(a) ELSE UNCHANGED vms
  /\ cancelReq' = cancelReq \ {a}
  /\ UNCHANGED <<broken, lateCancel, announced, Others>>

\* Mutant: a cancelled agent leaves its sandbox without closing it.
InterruptedAtOnce(a) ==
  /\ a \in cancelReq
  /\ Move(a, "done")
  /\ IF a \in Closing THEN MayLeave(a) ELSE UNCHANGED vms
  /\ cancelReq' = cancelReq \ {a}
  /\ UNCHANGED <<broken, lateCancel, announced, Others>>

\* A cancellation is delivered: at the gate the task ends; in the loop the
\* sandbox is closed first; while the sandbox is being closed, that is cut
\* short.
Interrupted(a) ==
  /\ a \in cancelReq
  /\ Move(a, IF task[a] = "running" THEN "unwinding" ELSE "done")
  /\ IF a \in Closing THEN MayLeave(a) ELSE UNCHANGED vms
  /\ cancelReq' = cancelReq \ {a}
  /\ UNCHANGED <<broken, lateCancel, announced, Others>>

\* _announce_result: dropped when the manager is closing.
AnnounceResult(a) == announced' = IF closing THEN announced ELSE announced \cup {a}

\* The sandbox is closed, or its machine fails to stop, which is only logged.
\* A cancelled agent ends with its CancelledError.
Ends(a) ==
  /\ a \in Closing /\ a \notin cancelReq
  /\ IF task[a] = "cleanup" THEN AnnounceResult(a) ELSE UNCHANGED announced
  /\ Move(a, "done")
  /\ \/ vms' = vms \ {a} /\ UNCHANGED broken
     \/ UNCHANGED vms /\ broken' = broken \cup {a}
  /\ UNCHANGED <<cancelReq, lateCancel, Others>>

\* Starting or closing the sandbox raises: the exception replaces the result,
\* or the cancellation, and is announced as a failure.
SandboxFails(a) ==
  /\ a \in Holders /\ a \notin cancelReq
  /\ AnnounceResult(a)
  /\ Move(a, "done")
  /\ MayLeave(a)
  /\ broken' = broken \cup {a}
  /\ UNCHANGED <<cancelReq, lateCancel, Others>>

\* Mutant: the callback drops every task of the session.
ForgetSession(a) == bySession' = [bySession EXCEPT ![owner[a]] = {}]

ForgetAgent(a) == bySession' = [bySession EXCEPT ![owner[a]] = @ \ {a}]

\* The done callback.
Deregister(a) ==
  /\ task[a] = "done" /\ a \in registered
  /\ registered' = registered \ {a}
  /\ ForgetAgent(a)
  /\ UNCHANGED <<agentVars, sandboxVars, window, stopVars, closeVars, announced>>

-----------------------------------------------------------------------------
(* cancel_by_session, called by /stop.                                     *)

Cancelled(tasks) ==
  /\ cancelReq' = cancelReq \cup tasks
  /\ lateCancel' = lateCancel \cup (tasks \cap Closing)

\* The end of the call: the session's window is dropped.
Stopped(s, agents) ==
  /\ window' = [window EXCEPT ![s] = 0]
  /\ stopped' = stopped \cup agents

\* The tasks of the session are cancelled; with none the call is one step.
Stop(h, s) ==
  LET tasks == bySession[s] \cap registered \cap Live
      before == {a \in Spawned : owner[a] = s}
  IN /\ stopping[h] = Idle
     /\ Cancelled(tasks)
     /\ IF tasks = {}
          THEN Stopped(s, before) /\ UNCHANGED stopping
          ELSE /\ stopping' = [stopping EXCEPT ![h] =
                                 [on |-> s, tasks |-> tasks, before |-> before]]
               /\ UNCHANGED <<window, stopped>>
     /\ UNCHANGED <<owner, task, vms, broken, registered, bySession, closeVars, announced>>

\* Every task it collected is done.
StopReturns(h) ==
  /\ stopping[h] # Idle
  /\ stopping[h].tasks \cap Live = {}
  /\ Stopped(stopping[h].on, stopping[h].before)
  /\ stopping' = [stopping EXCEPT ![h] = Idle]
  /\ UNCHANGED <<agentVars, sandboxVars, registered, bySession, closeVars, announced>>

-----------------------------------------------------------------------------
(* begin_close, before the spine is torn down, and close.                  *)

\* Seals the manager and cancels every task, the first time it is called.
Sealed ==
  /\ closing' = TRUE
  /\ Cancelled(IF closing THEN {} ELSE registered \cap Live)

BeginClose ==
  /\ ~closing
  /\ Sealed
  /\ UNCHANGED <<owner, task, vms, broken, registryVars, stopVars, close, gathered, announced>>

\* close calls begin_close and creates _close_task, once.
Close ==
  /\ close = "none"
  /\ close' = "created"
  /\ Sealed
  /\ UNCHANGED <<owner, task, vms, broken, registryVars, stopVars, gathered, announced>>

\* _finish_close collects the tasks it waits for.
Gather ==
  /\ close = "created"
  /\ close' = "gathering"
  /\ gathered' = registered
  /\ UNCHANGED <<agentVars, sandboxVars, registryVars, stopVars, closing, announced>>

CloseEnds ==
  /\ close = "gathering" /\ gathered \cap Live = {}
  /\ close' = "done"
  /\ registered' = {}
  /\ bySession' = [s \in Sessions |-> {}]
  /\ window' = [s \in Sessions |-> 0]
  /\ UNCHANGED <<agentVars, sandboxVars, stopVars, closing, gathered, announced>>

-----------------------------------------------------------------------------
Task(a) == Enter(a) \/ LoopEnds(a) \/ Interrupted(a) \/ Ends(a) \/ SandboxFails(a)

Next ==
  \/ \E s \in Sessions : Spawn(s) \/ AgeOut(s)
  \/ \E a \in Agents : Task(a) \/ Deregister(a)
  \/ \E h \in Handlers : StopReturns(h) \/ \E s \in Sessions : Stop(h, s)
  \/ BeginClose \/ Close \/ Gather \/ CloseEnds

Safety == Init /\ [][Next]_vars

\* The event loop delivers a cancellation, closing a sandbox ends, and a
\* gather returns.  An agent's own loop owes nothing.
Spec ==
  /\ Safety
  /\ \A a \in Agents : WF_vars(Interrupted(a)) /\ WF_vars(Ends(a))
  /\ \A h \in Handlers : WF_vars(StopReturns(h))
  /\ WF_vars(Gather) /\ WF_vars(CloseEnds)

-----------------------------------------------------------------------------
(* Properties.                                                             *)

\* When cancel_by_session returns, every subagent its session had spawned
\* before the call has ended, including those that waited at the gate and
\* those another call was already stopping.  What it says of a sandbox is
\* SandboxesClosed.
StopReachesAll == stopped \cap Live = {}

\* A subagent that has ended, completed, cancelled at the gate, in its loop or
\* by a shutdown, has no virtual machine left, so the gate bounds the machines
\* too.  The exceptions are a sandbox that failed and a cancellation that
\* came while the sandbox was being closed already: stop() of the sandbox is
\* not shielded, and a second /stop, or one that meets the agent in its normal
\* cleanup, cuts it short.
SandboxesClosed == \A a \in vms : a \in Live \/ a \in broken \cup lateCancel

\* After close no subagent is left, registered or not.
CloseLeavesNothing == close = "done" => Live = {} /\ registered = {}

\* A /stop and a close come to their end whatever the subagents of other
\* sessions do.
StopsEnd ==
  /\ \A h \in Handlers : stopping[h] # Idle ~> stopping[h] = Idle
  /\ close # "none" ~> close = "done"
=============================================================================
