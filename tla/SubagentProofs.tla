--------------------------- MODULE SubagentProofs ---------------------------
(***************************************************************************)
(* Proofs about SubagentManager, for any sessions, /stop commands, number  *)
(* of agents, permits and spawn quota.                                     *)
(***************************************************************************)
EXTENDS SubagentManager, FiniteSetTheorems, TLAPS

\* Both registries know every subagent that has not ended.
RegistryComplete ==
  \A a \in Live : /\ owner[a] \in Sessions
                  /\ a \in registered /\ a \in bySession[owner[a]]

\* A cancel_by_session in progress waits for every agent its session had when
\* it was called.
StopCovers ==
  \A h \in Handlers : stopping[h] # Idle => stopping[h].before \cap Live \subseteq stopping[h].tasks

\* _finish_close waits for every agent there is.
CloseCovers ==
  /\ close # "none" => closing
  /\ close \in {"gathering", "done"} => Live \subseteq gathered

\* The inductive invariant.
ManagerInv ==
  TypeOK /\ RegistryComplete /\ StopCovers /\ CloseCovers /\ StopReachesAll /\ CloseLeavesNothing

-----------------------------------------------------------------------------
(* The gate. *)

\* The agents are finitely many, and so are those behind the gate.
LEMMA HoldersFinite ==
  ASSUME NEW S \in SUBSET Agents
  PROVE  IsFiniteSet(S) /\ Cardinality(S) \in Nat
<1>1. IsFiniteSet(Agents)
  BY FS_Interval, SubagentAssumption DEF Agents
<1>2. IsFiniteSet(S)
  BY <1>1, FS_Subset
<1> QED
  BY <1>2, FS_CardinalityType

\* A step of one agent to a stage behind the gate needs a permit, and no other
\* step adds a holder.
LEMMA GateStep ==
  ASSUME TypeOK, NEW a \in Agents, NEW stage,
         task' = [task EXCEPT ![a] = stage],
         \/ a \in Holders
         \/ stage \notin {"running", "cleanup", "unwinding"}
         \/ Cardinality(Holders) < MaxConcurrent
  PROVE  Cardinality(Holders') <= MaxConcurrent
<1>1. Holders \in SUBSET Agents /\ Holders' \in SUBSET Agents
  BY DEF Holders
<1>2. Holders' \subseteq Holders \cup {a}
  BY DEF Holders, TypeOK
<1>3. IsFiniteSet(Holders) /\ Cardinality(Holders) \in Nat /\ Cardinality(Holders') \in Nat
  BY <1>1, HoldersFinite
<1>4. CASE Holders' \subseteq Holders
  <2>1. Cardinality(Holders') <= Cardinality(Holders)
    BY <1>3, <1>4, FS_Subset
  <2> QED
    BY <1>3, <2>1, SubagentAssumption DEF TypeOK
<1>5. CASE Cardinality(Holders) < MaxConcurrent
  <2>0. /\ IsFiniteSet(Holders \cup {a})
        /\ Cardinality(Holders \cup {a}) =
             IF a \in Holders THEN Cardinality(Holders) ELSE Cardinality(Holders) + 1
    BY <1>3, FS_AddElement
  <2>1. /\ IsFiniteSet(Holders \cup {a})
        /\ Cardinality(Holders \cup {a}) <= Cardinality(Holders) + 1
    BY <1>3, <2>0
  <2>2. Cardinality(Holders') <= Cardinality(Holders \cup {a})
    BY <1>2, <2>1, FS_Subset
  <2>3. Cardinality(Holders \cup {a}) \in Nat
    BY <2>1, FS_CardinalityType
  <2> QED
    BY <1>3, <1>5, <2>1, <2>2, <2>3, SubagentAssumption
<1>6. CASE a \in Holders \/ stage \notin {"running", "cleanup", "unwinding"}
  <2>1. Holders' \subseteq Holders
    BY <1>2, <1>6 DEF Holders, TypeOK
  <2> QED
    BY <1>4, <2>1
<1> QED
  BY <1>5, <1>6

-----------------------------------------------------------------------------
(* Type correctness. *)

\* The initial state satisfies every part of the invariant.
LEMMA InitManager == Init => ManagerInv
<1> SUFFICES ASSUME Init PROVE ManagerInv
  OBVIOUS
<1>1. Spawned = {} /\ Live = {} /\ Holders = {}
  BY DEF Init, Spawned, Live, Holders
<1>2. Cardinality(Holders) <= MaxConcurrent
  BY <1>1, FS_EmptySet, SubagentAssumption
<1>3. stopping \in [Handlers -> [on : Sessions \cup {NoSession},
                                tasks : SUBSET Spawned, before : SUBSET Spawned]]
  BY DEF Init, Idle
<1>4. /\ owner \in [Agents -> Sessions \cup {NoSession}]
      /\ task \in [Agents -> {"new", "queued", "running", "cleanup", "unwinding", "done"}]
      /\ bySession \in [Sessions -> SUBSET Spawned]
      /\ window \in [Sessions -> 0..MaxSpawns]
  BY SubagentAssumption DEF Init
<1>5. TypeOK
  BY <1>2, <1>3, <1>4 DEF Init, TypeOK
<1> QED
  BY <1>1, <1>5 DEF Init, ManagerInv, RegistryComplete, StopCovers, CloseCovers,
                    StopReachesAll, CloseLeavesNothing

\* What a step of one agent's task changes: its stage, its cancellation and
\* the announcements.  It may end but is not reborn.
AgentMoves(a, stage) ==
  /\ a \in Live
  /\ stage \in {"running", "cleanup", "unwinding", "done"}
  /\ task' = [task EXCEPT ![a] = stage]
  /\ cancelReq' \in {cancelReq, cancelReq \ {a}}
  /\ stage = "done" => a \notin cancelReq'
  /\ announced' \in {announced, announced \cup {a}}
  /\ vms' \subseteq vms \cup {a}
  /\ broken' \subseteq broken \cup {a} /\ lateCancel' = lateCancel
  /\ stage \notin {"running", "cleanup", "unwinding"} \/ a \in Holders
       \/ Cardinality(Holders) < MaxConcurrent
  /\ UNCHANGED Others

\* Every action of a task is such a move.
LEMMA TaskMoves ==
  ASSUME TypeOK, NEW a \in Agents, Task(a)
  PROVE  \E stage : AgentMoves(a, stage)
<1> USE DEF TypeOK, AgentMoves, Move, Live, Spawned, Holders, Closing, MayLeave, sandboxVars
<1>1. CASE Enter(a)
  BY <1>1 DEF Enter
<1>2. CASE LoopEnds(a)
  BY <1>2 DEF LoopEnds
<1>3. CASE Interrupted(a)
  BY <1>3 DEF Interrupted
<1>4. CASE Ends(a)
  BY <1>4 DEF Ends, AnnounceResult
<1>5. CASE SandboxFails(a)
  BY <1>5 DEF SandboxFails, AnnounceResult
<1> QED
  BY <1>1, <1>2, <1>3, <1>4, <1>5 DEF Task

\* A step of a task keeps the invariant: the live agents only get fewer.
LEMMA TaskStep ==
  ASSUME ManagerInv, NEW a \in Agents, Task(a)
  PROVE  ManagerInv'
<1> USE DEF ManagerInv
<1>1. PICK stage : AgentMoves(a, stage)
  BY TaskMoves
<1>2. Spawned' = Spawned /\ Live' \subseteq Live
  BY <1>1 DEF AgentMoves, Spawned, Live, TypeOK
<1>3. Cardinality(Holders') <= MaxConcurrent
  BY <1>1, GateStep DEF AgentMoves
<1>4. UNCHANGED <<owner, registered, bySession, window, stopping, stopped,
                  closing, close, gathered>>
  BY <1>1 DEF AgentMoves, Others, registryVars, stopVars, closeVars
<1>5. /\ cancelReq' \subseteq Live' /\ announced' \subseteq Spawned'
      /\ vms' \subseteq Spawned' /\ broken' \subseteq Spawned' /\ lateCancel' \subseteq Spawned'
  BY <1>1, <1>2 DEF AgentMoves, Live, Spawned, TypeOK
<1>6. task' \in [Agents -> {"new", "queued", "running", "cleanup", "unwinding", "done"}]
  BY <1>1 DEF AgentMoves, TypeOK
<1>7. TypeOK'
  BY <1>2, <1>3, <1>4, <1>5, <1>6 DEF TypeOK
<1>8. RegistryComplete' /\ StopCovers' /\ CloseCovers'
  BY <1>2, <1>4 DEF RegistryComplete, StopCovers, CloseCovers
<1>9. StopReachesAll' /\ CloseLeavesNothing'
  BY <1>2, <1>4 DEF StopReachesAll, CloseLeavesNothing
<1> QED
  BY <1>7, <1>8, <1>9

\* A spawn enters the new agent in both registries, and only an open manager
\* makes one.
LEMMA SpawnStep ==
  ASSUME ManagerInv, NEW s \in Sessions, Spawn(s)
  PROVE  ManagerInv'
<1> USE DEF ManagerInv
<1>1. PICK a \in Agents \ Spawned :
        /\ owner' = [owner EXCEPT ![a] = s]
        /\ task' = [task EXCEPT ![a] = "queued"]
        /\ registered' = registered \cup {a}
        /\ bySession' = [bySession EXCEPT ![s] = @ \cup {a}]
  BY DEF Spawn
<1>2. /\ ~closing /\ window[s] < MaxSpawns
      /\ window' = [window EXCEPT ![s] = @ + 1]
      /\ UNCHANGED <<cancelReq, vms, broken, lateCancel, stopping, stopped, closing, close,
                     gathered, announced>>
  BY DEF Spawn, Admits, sandboxVars, stopVars, closeVars
<1>3. Spawned' = Spawned \cup {a} /\ Live' = Live \cup {a} /\ a \notin Live
  BY <1>1 DEF Spawned, Live, TypeOK
<1>4. Cardinality(Holders') <= MaxConcurrent
  BY <1>1, GateStep
<1>5. window' \in [Sessions -> 0..MaxSpawns]
  BY <1>2, SubagentAssumption DEF TypeOK
<1>6. /\ owner' \in [Agents -> Sessions \cup {NoSession}]
      /\ task' \in [Agents -> {"new", "queued", "running", "cleanup", "unwinding", "done"}]
      /\ bySession' \in [Sessions -> SUBSET Spawned']
      /\ registered' \subseteq Spawned'
  BY <1>1, <1>3 DEF TypeOK
<1>7. stopping' \in [Handlers -> [on : Sessions \cup {NoSession},
                                 tasks : SUBSET Spawned', before : SUBSET Spawned']]
  <2> SUFFICES ASSUME NEW h \in Handlers
               PROVE  stopping[h] \in [on : Sessions \cup {NoSession},
                                       tasks : SUBSET Spawned', before : SUBSET Spawned']
    BY <1>2 DEF TypeOK
  <2>1. stopping[h] \in [on : Sessions \cup {NoSession},
                         tasks : SUBSET Spawned, before : SUBSET Spawned]
    BY DEF TypeOK
  <2> QED
    BY <1>3, <2>1
<1>8. TypeOK'
  BY <1>2, <1>3, <1>4, <1>5, <1>6, <1>7 DEF TypeOK
<1>9. RegistryComplete'
  <2> SUFFICES ASSUME NEW b \in Live'
               PROVE  /\ owner'[b] \in Sessions
                      /\ b \in registered' /\ b \in bySession'[owner'[b]]
    BY DEF RegistryComplete
  <2>1. CASE b = a
    BY <1>1, <2>1 DEF TypeOK
  <2>2. CASE b # a
    <3>1. b \in Live /\ owner'[b] = owner[b]
      BY <1>1, <1>3, <2>2 DEF TypeOK, Live, Spawned
    <3>2. owner[b] \in Sessions /\ b \in registered /\ b \in bySession[owner[b]]
      BY <3>1 DEF RegistryComplete
    <3> QED
      BY <1>1, <3>1, <3>2 DEF TypeOK
  <2> QED
    BY <2>1, <2>2
<1>10. StopCovers'
  <2> SUFFICES ASSUME NEW h \in Handlers, stopping[h] # Idle
               PROVE  stopping[h].before \cap Live' \subseteq stopping[h].tasks
    BY <1>2 DEF StopCovers
  <2>1. stopping[h].before \subseteq Spawned
    BY DEF TypeOK
  <2> QED
    BY <1>3, <2>1 DEF StopCovers
<1>11. CloseCovers' /\ CloseLeavesNothing'
  BY <1>2 DEF CloseCovers, CloseLeavesNothing
<1>12. StopReachesAll'
  BY <1>2, <1>3 DEF StopReachesAll, TypeOK
<1> QED
  BY <1>8, <1>9, <1>10, <1>11, <1>12

\* A step that leaves the tasks alone keeps the sets built from them.
LEMMA TasksStay ==
  ASSUME UNCHANGED task
  PROVE  Spawned' = Spawned /\ Live' = Live /\ Holders' = Holders
BY DEF Spawned, Live, Holders

\* The rolling window forgets a spawn; nothing depends on it.
LEMMA AgeOutStep ==
  ASSUME ManagerInv, NEW s \in Sessions, AgeOut(s)
  PROVE  ManagerInv'
<1> USE DEF ManagerInv
<1>1. UNCHANGED <<owner, task, cancelReq, vms, broken, lateCancel, registered, bySession,
                  stopping, stopped, closing, close, gathered, announced>>
  BY DEF AgeOut, agentVars, sandboxVars, stopVars, closeVars
<1>2. window' \in [Sessions -> 0..MaxSpawns]
  BY SubagentAssumption DEF AgeOut, TypeOK
<1>3. Spawned' = Spawned /\ Live' = Live /\ Holders' = Holders
  BY <1>1, TasksStay
<1>4. TypeOK'
  BY <1>1, <1>2, <1>3 DEF TypeOK
<1>5. RegistryComplete' /\ StopCovers' /\ CloseCovers'
  BY <1>1, <1>3 DEF RegistryComplete, StopCovers, CloseCovers
<1>6. StopReachesAll' /\ CloseLeavesNothing'
  BY <1>1, <1>3 DEF StopReachesAll, CloseLeavesNothing
<1> QED
  BY <1>4, <1>5, <1>6

\* The done callback takes out only an agent that has ended.
LEMMA DeregisterStep ==
  ASSUME ManagerInv, NEW a \in Agents, Deregister(a)
  PROVE  ManagerInv'
<1> USE DEF ManagerInv
<1>1. /\ UNCHANGED <<owner, task, cancelReq, vms, broken, lateCancel, window, stopping,
                     stopped, closing, close, gathered, announced>>
      /\ registered' = registered \ {a}
      /\ bySession' = [bySession EXCEPT ![owner[a]] = @ \ {a}]
      /\ a \notin Live
  BY DEF Deregister, ForgetAgent, agentVars, sandboxVars, stopVars, closeVars, Live
<1>2. Spawned' = Spawned /\ Live' = Live /\ Holders' = Holders
  BY <1>1, TasksStay
<1>3. registered' \subseteq Spawned' /\ bySession' \in [Sessions -> SUBSET Spawned']
  BY <1>1, <1>2 DEF TypeOK
<1>4. TypeOK'
  BY <1>1, <1>2, <1>3 DEF TypeOK
<1>5. RegistryComplete'
  BY <1>1, <1>2 DEF RegistryComplete, TypeOK
<1>6. StopCovers' /\ CloseCovers'
  BY <1>1, <1>2 DEF StopCovers, CloseCovers
<1>7. StopReachesAll' /\ CloseLeavesNothing'
  BY <1>1, <1>2 DEF StopReachesAll, CloseLeavesNothing
<1> QED
  BY <1>4, <1>5, <1>6, <1>7

\* cancel_by_session collects every live agent of the session: with none it
\* may return at once.
LEMMA StopStep ==
  ASSUME ManagerInv, NEW h \in Handlers, NEW s \in Sessions, Stop(h, s)
  PROVE  ManagerInv'
<1> DEFINE tasks == bySession[s] \cap registered \cap Live
           before == {a \in Spawned : owner[a] = s}
<1> USE DEF ManagerInv
<1>1. /\ UNCHANGED <<owner, task, vms, broken, registered, bySession, closing, close,
                     gathered, announced>>
      /\ cancelReq' = cancelReq \cup tasks
      /\ lateCancel' \subseteq lateCancel \cup tasks
  BY DEF Stop, Cancelled, closeVars
<1>2. Spawned' = Spawned /\ Live' = Live /\ Holders' = Holders
  BY <1>1, TasksStay
<1>3. before \cap Live \subseteq tasks
  BY DEF RegistryComplete
<1>4. tasks \subseteq Live /\ tasks \subseteq Spawned /\ before \subseteq Spawned
  BY DEF Live
<1>5. /\ window' \in [Sessions -> 0..MaxSpawns]
      /\ stopped' \subseteq Spawned
      /\ StopReachesAll'
  <2>1. CASE tasks = {}
    <3>1. window' = [window EXCEPT ![s] = 0] /\ stopped' = stopped \cup before
      BY <2>1 DEF Stop, Stopped
    <3>2. window' \in [Sessions -> 0..MaxSpawns]
      BY <3>1, SubagentAssumption DEF TypeOK
    <3> QED
      BY <1>2, <1>3, <1>4, <2>1, <3>1, <3>2 DEF TypeOK, StopReachesAll
  <2>2. CASE tasks # {}
    BY <1>2, <2>2 DEF Stop, TypeOK, StopReachesAll
  <2> QED
    BY <2>1, <2>2
<1>6. \/ UNCHANGED stopping
      \/ stopping' = [stopping EXCEPT ![h] = [on |-> s, tasks |-> tasks, before |-> before]]
  BY DEF Stop
<1>7. stopping' \in [Handlers -> [on : Sessions \cup {NoSession},
                                 tasks : SUBSET Spawned, before : SUBSET Spawned]]
  <2> HIDE DEF tasks, before
  <2>1. [on |-> s, tasks |-> tasks, before |-> before] \in
          [on : Sessions \cup {NoSession}, tasks : SUBSET Spawned, before : SUBSET Spawned]
    BY <1>4
  <2> QED
    BY <1>6, <2>1 DEF TypeOK
<1>8. StopCovers'
  <2> HIDE DEF tasks, before
  <2> SUFFICES ASSUME NEW g \in Handlers, stopping'[g] # Idle
               PROVE  stopping'[g].before \cap Live \subseteq stopping'[g].tasks
    BY <1>2 DEF StopCovers, Idle
  <2>1. \/ stopping'[g] = stopping[g]
        \/ stopping'[g] = [on |-> s, tasks |-> tasks, before |-> before]
    BY <1>6 DEF TypeOK
  <2> QED
    BY <1>3, <2>1 DEF StopCovers
<1>9. TypeOK'
  BY <1>1, <1>2, <1>4, <1>5, <1>7 DEF TypeOK
<1>10. RegistryComplete' /\ CloseCovers' /\ CloseLeavesNothing'
  BY <1>1, <1>2 DEF RegistryComplete, CloseCovers, CloseLeavesNothing
<1> QED
  BY <1>5, <1>8, <1>9, <1>10

\* cancel_by_session returns only when what it collected has ended, and that
\* is all its session had.
LEMMA StopReturnsStep ==
  ASSUME ManagerInv, NEW h \in Handlers, StopReturns(h)
  PROVE  ManagerInv'
<1> USE DEF ManagerInv
<1>1. /\ UNCHANGED <<owner, task, cancelReq, vms, broken, lateCancel, registered, bySession,
                     closing, close, gathered, announced>>
      /\ stopping[h] # Idle /\ stopping[h].tasks \cap Live = {}
      /\ window' = [window EXCEPT ![stopping[h].on] = 0]
      /\ stopped' = stopped \cup stopping[h].before
      /\ stopping' = [stopping EXCEPT ![h] = Idle]
  BY DEF StopReturns, Stopped, agentVars, sandboxVars, closeVars
<1>2. Spawned' = Spawned /\ Live' = Live /\ Holders' = Holders
  BY <1>1, TasksStay
<1>3. stopping[h].before \subseteq Spawned
  BY DEF TypeOK
<1>4. StopReachesAll'
  BY <1>1, <1>2 DEF StopCovers, StopReachesAll
<1>5. stopping' \in [Handlers -> [on : Sessions \cup {NoSession},
                                 tasks : SUBSET Spawned, before : SUBSET Spawned]]
  <2>1. Idle \in [on : Sessions \cup {NoSession}, tasks : SUBSET Spawned, before : SUBSET Spawned]
    BY DEF Idle
  <2> QED
    BY <1>1, <2>1 DEF TypeOK
<1>6. window' \in [Sessions -> 0..MaxSpawns]
  <2>1. window \in [Sessions -> 0..MaxSpawns] /\ 0 \in 0..MaxSpawns
    BY SubagentAssumption DEF TypeOK
  <2> QED
    BY <1>1, <2>1, Zenon
<1>7. TypeOK'
  BY <1>1, <1>2, <1>3, <1>5, <1>6 DEF TypeOK
<1>8. StopCovers'
  <2> SUFFICES ASSUME NEW g \in Handlers, stopping'[g] # Idle
               PROVE  stopping'[g].before \cap Live \subseteq stopping'[g].tasks
    BY <1>2 DEF StopCovers, Idle
  <2>1. stopping'[g] = stopping[g]
    BY <1>1 DEF TypeOK
  <2> QED
    BY <2>1 DEF StopCovers
<1>9. RegistryComplete' /\ CloseCovers' /\ CloseLeavesNothing'
  BY <1>1, <1>2 DEF RegistryComplete, CloseCovers, CloseLeavesNothing
<1> QED
  BY <1>4, <1>7, <1>8, <1>9

\* begin_close seals the manager and cancels what is registered.
LEMMA SealStep ==
  ASSUME ManagerInv, BeginClose \/ Close
  PROVE  ManagerInv'
<1> USE DEF ManagerInv
<1>1. /\ UNCHANGED <<owner, task, vms, broken, registered, bySession, window, stopping,
                     stopped, gathered, announced>>
      /\ closing' = TRUE
      /\ cancelReq' \subseteq cancelReq \cup Live
      /\ lateCancel' \subseteq lateCancel \cup Live
      /\ close' \in {close, "created"}
      /\ close = "done" => close' = "done"
      /\ close' \in {"gathering", "done"} => close' = close
  BY DEF BeginClose, Close, Sealed, Cancelled, registryVars, stopVars
<1>2. Spawned' = Spawned /\ Live' = Live /\ Holders' = Holders
  BY <1>1, TasksStay
<1>3. TypeOK'
  BY <1>1, <1>2 DEF TypeOK, Live
<1>4. RegistryComplete' /\ StopCovers' /\ CloseCovers'
  BY <1>1, <1>2 DEF RegistryComplete, StopCovers, CloseCovers
<1>5. StopReachesAll' /\ CloseLeavesNothing'
  BY <1>1, <1>2 DEF StopReachesAll, CloseLeavesNothing
<1> QED
  BY <1>3, <1>4, <1>5

\* _finish_close collects the registry, which is complete, and the manager is
\* sealed by then.
LEMMA GatherStep ==
  ASSUME ManagerInv, Gather
  PROVE  ManagerInv'
<1> USE DEF ManagerInv
<1>1. /\ UNCHANGED <<owner, task, cancelReq, vms, broken, lateCancel, registered, bySession,
                     window, stopping, stopped, closing, announced>>
      /\ close = "created" /\ close' = "gathering" /\ gathered' = registered
  BY DEF Gather, agentVars, sandboxVars, registryVars, stopVars
<1>2. Spawned' = Spawned /\ Live' = Live /\ Holders' = Holders
  BY <1>1, TasksStay
<1>3. TypeOK'
  BY <1>1, <1>2 DEF TypeOK
<1>4. CloseCovers'
  BY <1>1, <1>2 DEF RegistryComplete, CloseCovers
<1>5. RegistryComplete' /\ StopCovers' /\ StopReachesAll' /\ CloseLeavesNothing'
  BY <1>1, <1>2 DEF RegistryComplete, StopCovers, StopReachesAll, CloseLeavesNothing
<1> QED
  BY <1>3, <1>4, <1>5

\* When the gather ends no agent is live, and the registries are emptied.
LEMMA CloseEndsStep ==
  ASSUME ManagerInv, CloseEnds
  PROVE  ManagerInv'
<1> USE DEF ManagerInv
<1>1. /\ UNCHANGED <<owner, task, cancelReq, vms, broken, lateCancel, stopping, stopped,
                     closing, gathered, announced>>
      /\ close = "gathering" /\ gathered \cap Live = {}
      /\ close' = "done" /\ registered' = {}
      /\ bySession' = [s \in Sessions |-> {}]
      /\ window' = [s \in Sessions |-> 0]
  BY DEF CloseEnds, agentVars, sandboxVars, stopVars
<1>2. Spawned' = Spawned /\ Live' = Live /\ Holders' = Holders
  BY <1>1, TasksStay
<1>3. Live = {}
  BY <1>1 DEF CloseCovers
<1>4. /\ bySession' \in [Sessions -> SUBSET Spawned]
      /\ window' \in [Sessions -> 0..MaxSpawns]
  BY <1>1, SubagentAssumption
<1>5. TypeOK'
  BY <1>1, <1>2, <1>4 DEF TypeOK
<1>6. RegistryComplete' /\ StopCovers' /\ CloseCovers'
  BY <1>1, <1>2, <1>3 DEF RegistryComplete, StopCovers, CloseCovers
<1>7. StopReachesAll' /\ CloseLeavesNothing'
  BY <1>1, <1>2, <1>3 DEF StopReachesAll, CloseLeavesNothing
<1> QED
  BY <1>5, <1>6, <1>7

\* Every step keeps the invariant.
LEMMA NextManager == ManagerInv /\ [Next]_vars => ManagerInv'
<1> SUFFICES ASSUME ManagerInv, [Next]_vars PROVE ManagerInv'
  OBVIOUS
<1>1. CASE UNCHANGED vars
  <2>1. UNCHANGED <<owner, task, cancelReq, vms, broken, lateCancel, registered, bySession,
                    window, stopping, stopped, closing, close, gathered, announced>>
    BY <1>1 DEF vars, agentVars, sandboxVars, registryVars, stopVars, closeVars
  <2>2. Spawned' = Spawned /\ Live' = Live /\ Holders' = Holders
    BY <2>1, TasksStay
  <2>3. TypeOK'
    BY <2>1, <2>2 DEF ManagerInv, TypeOK
  <2> QED
    BY <2>1, <2>2, <2>3 DEF ManagerInv, RegistryComplete, StopCovers, CloseCovers,
                            StopReachesAll, CloseLeavesNothing
<1>2. CASE \E s \in Sessions : Spawn(s) \/ AgeOut(s)
  BY <1>2, SpawnStep, AgeOutStep
<1>3. CASE \E a \in Agents : Task(a) \/ Deregister(a)
  BY <1>3, TaskStep, DeregisterStep
<1>4. CASE \E h \in Handlers : StopReturns(h) \/ \E s \in Sessions : Stop(h, s)
  BY <1>4, StopReturnsStep, StopStep
<1>5. CASE BeginClose \/ Close \/ Gather \/ CloseEnds
  BY <1>5, SealStep, GatherStep, CloseEndsStep
<1> QED
  BY <1>1, <1>2, <1>3, <1>4, <1>5 DEF Next

-----------------------------------------------------------------------------
(* Sandboxes. *)

\* A machine belongs to an agent that passed the gate, and a cancellation that
\* waits for an agent in the middle of closing its sandbox was asked for then:
\* one asked for earlier has been delivered, in the loop.
SandboxInv ==
  /\ \A a \in vms : task[a] # "queued"
  /\ cancelReq \cap Closing \subseteq lateCancel
  /\ SandboxesClosed

\* A step of one agent's task closes its machine, or leaves it for a reason.
LEMMA TaskSandbox ==
  ASSUME TypeOK, SandboxInv, NEW a \in Agents, Task(a)
  PROVE  SandboxInv'
<1>1. CASE Enter(a)
  BY <1>1 DEF Enter, Move, SandboxInv, SandboxesClosed, Closing, Live, Spawned, TypeOK
<1>2. CASE LoopEnds(a)
  BY <1>2 DEF LoopEnds, Move, sandboxVars, SandboxInv, SandboxesClosed, Closing, Live, Spawned,
              TypeOK
<1>3. CASE Interrupted(a)
  <2>1. CASE a \in Closing
    BY <1>3, <2>1 DEF Interrupted, Move, MayLeave, SandboxInv, SandboxesClosed, Closing, Live,
                      Spawned, TypeOK
  <2>2. CASE task[a] = "running"
    BY <1>3, <2>2 DEF Interrupted, Move, SandboxInv, SandboxesClosed, Closing, Live, Spawned,
                      TypeOK
  <2>3. CASE task[a] = "queued"
    BY <1>3, <2>3 DEF Interrupted, Move, SandboxInv, SandboxesClosed, Closing, Live, Spawned,
                      TypeOK
  <2> QED
    BY <1>3, <2>1, <2>2, <2>3 DEF Interrupted, Closing, Live, Spawned, TypeOK
<1>4. CASE Ends(a)
  BY <1>4 DEF Ends, Move, SandboxInv, SandboxesClosed, Closing, Live, Spawned, TypeOK
<1>5. CASE SandboxFails(a)
  BY <1>5 DEF SandboxFails, Move, MayLeave, SandboxInv, SandboxesClosed, Closing, Live, Spawned,
              TypeOK
<1> QED
  BY <1>1, <1>2, <1>3, <1>4, <1>5 DEF Task

\* A call that cancels tasks notes those that are closing.
LEMMA CancelSandbox ==
  ASSUME SandboxInv, NEW tasks, Cancelled(tasks), UNCHANGED <<task, vms, broken>>
  PROVE  SandboxInv'
BY DEF Cancelled, SandboxInv, SandboxesClosed, Closing, Live, Spawned

\* A step that cancels nothing leaves sandboxes and cancellations alone.
LEMMA QuietSandbox ==
  ASSUME SandboxInv, UNCHANGED <<task, cancelReq, vms, broken, lateCancel>>
  PROVE  SandboxInv'
BY DEF SandboxInv, SandboxesClosed, Closing, Live, Spawned

\* Every step keeps it.
LEMMA NextSandbox == TypeOK /\ SandboxInv /\ [Next]_vars => SandboxInv'
<1> SUFFICES ASSUME TypeOK, SandboxInv, [Next]_vars PROVE SandboxInv'
  OBVIOUS
<1>1. CASE UNCHANGED vars
  BY <1>1, QuietSandbox DEF vars, agentVars, sandboxVars
<1>2. ASSUME NEW s \in Sessions, Spawn(s) PROVE SandboxInv'
  BY <1>2 DEF Spawn, sandboxVars, SandboxInv, SandboxesClosed, Closing, Live, Spawned, TypeOK
<1>3. ASSUME NEW s \in Sessions, AgeOut(s) PROVE SandboxInv'
  BY <1>3, QuietSandbox DEF AgeOut, agentVars, sandboxVars
<1>4. ASSUME NEW a \in Agents, Deregister(a) PROVE SandboxInv'
  BY <1>4, QuietSandbox DEF Deregister, agentVars, sandboxVars
<1>5. ASSUME NEW h \in Handlers, StopReturns(h) PROVE SandboxInv'
  BY <1>5, QuietSandbox DEF StopReturns, agentVars, sandboxVars
<1>6. ASSUME NEW h \in Handlers, NEW s \in Sessions, Stop(h, s) PROVE SandboxInv'
  BY <1>6, CancelSandbox DEF Stop
<1>7. CASE BeginClose \/ Close
  BY <1>7, CancelSandbox DEF BeginClose, Close, Sealed
<1>8. CASE Gather \/ CloseEnds
  BY <1>8, QuietSandbox DEF Gather, CloseEnds, agentVars, sandboxVars
<1> QED
  BY <1>1, <1>2, <1>3, <1>4, <1>5, <1>6, <1>7, <1>8, TaskSandbox DEF Next

-----------------------------------------------------------------------------
(* Theorems. *)

\* The registries and the calls in progress name only agents that were
\* spawned, a cancellation waits only for a task that has not ended, no
\* session exceeds its spawn quota, and the gate never lets in more agents
\* than it has permits.
THEOREM SubagentsTyped == Safety => []TypeOK
<1>1. ManagerInv => TypeOK
  BY DEF ManagerInv
<1> QED
  BY <1>1, InitManager, NextManager, PTL DEF Safety

\* When cancel_by_session returns, no agent its session had spawned before the
\* call is live: whoever else stops, spawns or closes meanwhile, and wherever
\* the agent was, at the gate, in its loop or closing its sandbox.
THEOREM StopIsComplete == Safety => []StopReachesAll
<1>1. ManagerInv => StopReachesAll
  BY DEF ManagerInv
<1> QED
  BY <1>1, InitManager, NextManager, PTL DEF Safety

\* close leaves no live agent and empty registries: the tasks _finish_close
\* gathers are all there are, since nothing is spawned once _closing is set.
THEOREM CloseIsComplete == Safety => []CloseLeavesNothing
<1>1. ManagerInv => CloseLeavesNothing
  BY DEF ManagerInv
<1> QED
  BY <1>1, InitManager, NextManager, PTL DEF Safety

\* A subagent that has ended left no machine up, unless its sandbox raised or
\* a cancellation came while it was closing it.
THEOREM SandboxesAreClosed == Safety => []SandboxesClosed
<1>1. Init => SandboxInv
  BY DEF Init, SandboxInv, SandboxesClosed
<1>2. ManagerInv /\ SandboxInv /\ [Next]_vars => SandboxInv'
  BY NextSandbox DEF ManagerInv
<1>3. SandboxInv => SandboxesClosed
  BY DEF SandboxInv
<1> QED
  BY <1>1, <1>2, <1>3, InitManager, NextManager, PTL DEF Safety
=============================================================================
