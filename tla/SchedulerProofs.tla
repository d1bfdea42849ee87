--------------------------- MODULE SchedulerProofs ---------------------------
(***************************************************************************)
(* Proofs about Scheduler, for every set of conversations, number of Turns *)
(* and pool size.                                                          *)
(***************************************************************************)
EXTENDS Scheduler, SequenceFacts

-----------------------------------------------------------------------------
(* Type correctness. *)

\* What Resolve leaves in the handles.
LEMMA ResolveType ==
  ASSUME TypeOK, NEW S, NEW v \in Turns \cup {None}, Resolve(S, v)
  PROVE  /\ fut' \in [Turns -> {"new", "open", "done"}]
         /\ result' \in [Turns -> Turns \cup {None}]
BY DEF TypeOK, Resolve

\* What the worker's loop leaves in its lane.
LEMMA TakeNextType ==
  ASSUME TypeOK, NEW c \in Conversations, NEW q \in Seq(Turns), TakeNext(c, q)
  PROVE  /\ pending' \in [Conversations -> Seq(Turns)]
         /\ running' \in [Conversations -> Turns \cup {NoTurn}]
         /\ phase' \in [Conversations -> Phases]
         /\ worker' \in [Conversations -> {"none", "ready", "waiting"}]
         /\ idle' \in [Conversations -> BOOLEAN]
         /\ cancelReq' \in [Conversations -> BOOLEAN]
         /\ outcome' \in [Conversations -> Turns \cup {None}]
<1>1. <<>> \in Seq(Turns) /\ (q # <<>> => Head(q) \in Turns /\ Tail(q) \in Seq(Turns))
  BY HeadTailType
<1>2. pending' \in [Conversations -> Seq(Turns)]
  BY <1>1 DEF TypeOK, TakeNext
<1>3. running' \in [Conversations -> Turns \cup {NoTurn}]
  BY <1>1 DEF TypeOK, TakeNext
<1>4. phase' \in [Conversations -> Phases]
  BY DEF TypeOK, TakeNext, Phases
<1>5. worker' \in [Conversations -> {"none", "ready", "waiting"}]
  BY DEF TypeOK, TakeNext
<1>6. idle' \in [Conversations -> BOOLEAN] /\ cancelReq' \in [Conversations -> BOOLEAN]
  BY DEF TypeOK, TakeNext
<1>7. outcome' \in [Conversations -> Turns \cup {None}]
  BY DEF TypeOK, TakeNext
<1> QED
  BY <1>2, <1>3, <1>4, <1>5, <1>6, <1>7

\* Scheduler.submit keeps the types.
LEMMA SubmitType ==
  ASSUME TypeOK, NEW c \in Conversations, NEW o \in Origins,
         NEW b \in BusyPolicies, Submit(c, o, b)
  PROVE  TypeOK'
<1> DEFINE t == accepted + 1
           r == [conversation |-> c, origin |-> o, busy |-> effective_busy(o, b)]
<1>1. t \in Turns /\ accepted' = t
  BY ConstantsAssumption DEF TypeOK, Submit, Turns
<1>2. r \in Request
  BY DEF Request, effective_busy, BusyPolicies
<1>3. req' = [req EXCEPT ![t] = r]
  BY DEF Submit
<1>4. /\ req' \in [Turns -> Request \cup {NoRequest}]
      /\ \A u \in Turns : u <= accepted' => req'[u] \in Request
  BY <1>1, <1>2, <1>3 DEF TypeOK, Turns
<1>5. Place(c, t, effective_busy(o, b))
  BY DEF Submit
<1>6. /\ pending' \in [Conversations -> Seq(Turns)]
      /\ mailbox' \in [Conversations -> Seq(Turns)]
      /\ worker' \in [Conversations -> {"none", "ready", "waiting"}]
      /\ cancelReq' \in [Conversations -> BOOLEAN]
  <2>1. CASE PlaceInterrupt(c, t)
    BY <1>1, <2>1, ConsType DEF TypeOK, PlaceInterrupt, WakeWorker
  <2>2. CASE PlaceInject(c, t)
    BY <1>1, <2>2 DEF TypeOK, PlaceInject
  <2>3. CASE PlaceAppend(c, t)
    BY <1>1, <2>3 DEF TypeOK, PlaceAppend, WakeWorker
  <2> QED
    BY <1>5, <2>1, <2>2, <2>3 DEF Place
<1>7. accepted' \in 0 .. MaxTurns /\ fut' \in [Turns -> {"new", "open", "done"}]
  BY <1>1 DEF TypeOK, Submit, Turns
<1>8. lanes' \subseteq Conversations /\ idle' \in [Conversations -> BOOLEAN]
  BY DEF TypeOK, Submit
<1>9. reaper' = "sleeping"
      /\ UNCHANGED <<result, life, running, phase, outcome, chained, free,
                     draining, shutdown, awaited>>
  BY DEF Submit
<1> QED
  BY <1>4, <1>6, <1>7, <1>8, <1>9 DEF TypeOK

\* The two steps of a worker keep the types.
LEMMA WorkerType ==
  ASSUME TypeOK, NEW c \in Conversations, Worker(c)
  PROVE  TypeOK'
<1>1. CASE WorkerStart(c)
  <2>1. pending[c] \in Seq(Turns) /\ TakeNext(c, pending[c])
    BY <1>1 DEF WorkerStart, TypeOK
  <2> QED
    BY <1>1, <2>1, TakeNextType
    DEF WorkerStart, TypeOK, handleVars, shutdownVars
<1>2. CASE WorkerResume(c)
  <2> DEFINE q == pending[c] \o mailbox[c]
  <2>1. q \in Seq(Turns)
    BY DEF TypeOK
  <2>2. TakeNext(c, q)
    BY <1>2 DEF WorkerResume
  <2>3. /\ fut' \in [Turns -> {"new", "open", "done"}]
        /\ result' \in [Turns -> Turns \cup {None}]
    BY <1>2, ResolveType DEF WorkerResume, TypeOK
  <2>4. mailbox' \in [Conversations -> Seq(Turns)]
    BY <1>2 DEF WorkerResume, TypeOK
  <2> HIDE DEF q
  <2> QED
    BY <1>2, <2>1, <2>2, <2>3, <2>4, TakeNextType
    DEF WorkerResume, TypeOK, shutdownVars
<1> QED
  BY <1>1, <1>2 DEF Worker

\* Every step of a payload keeps the types; the guards on the semaphore keep
\* its value a natural number.
LEMMA PayloadType ==
  ASSUME TypeOK, NEW c \in Conversations, Payload(c)
  PROVE  TypeOK'
<1> USE DEF TypeOK, handleVars, laneVars, payloadVars, shutdownVars
<1>0. PoolOf(c) \in Pools
  BY DEF PoolOf, for_origin, Pools
<1>e. ASSUME Enter(c), free[PoolOf(c)] > 0  PROVE TypeOK'
  <2>1. free' \in [Pools -> Nat]
    BY <1>0, <1>e DEF Enter
  <2>2. life' \in [Turns -> LifeStages]
    BY <1>e DEF Enter, LifeStages
  <2>3. phase' \in [Conversations -> Phases]
    BY <1>e DEF Enter, Phases
  <2> QED
    BY <1>e, <2>1, <2>2, <2>3 DEF Enter
<1>1. CASE BeginNow(c)
  BY <1>1, <1>e DEF BeginNow, SlotFree
<1>2. CASE BeginWaiting(c)
  BY <1>2 DEF BeginWaiting, Phases
<1>3. CASE Acquire(c)
  BY <1>3, <1>e DEF Acquire
<1>4. CASE StartFails(c)
  BY <1>4 DEF StartFails, Finish, Phases, None
<1>5. CASE CancelledEarly(c)
  BY <1>5 DEF CancelledEarly, Finish, Phases, None
<1>6. CASE Drain(c)
  BY <1>6, ToSetType DEF Drain
<1>7. CASE RunnerReturns(c)
  BY <1>0, <1>7, ResolveType DEF RunnerReturns, LeavePool, Phases, None, NoTurn
<1>8. CASE RunnerRaises(c)
  BY <1>0, <1>8 DEF RunnerRaises, LeavePool, Phases
<1>9. CASE RunnerCancelled(c)
  BY <1>0, <1>9 DEF RunnerCancelled, LeavePool, Phases
<1>10. CASE TerminalSent(c)
  <2>1. life' \in [Turns -> LifeStages]
    BY <1>10 DEF TerminalSent, TerminalPhases, LifeStages, TerminalEvent
  <2>2. /\ phase' \in [Conversations -> Phases]
        /\ outcome' \in [Conversations -> Turns \cup {None}]
    BY <1>10 DEF TerminalSent, Finish, Phases
  <2>3. cancelReq' \in [Conversations -> BOOLEAN]
    BY <1>10 DEF TerminalSent, Finish
  <2>4. chained' \in [Conversations -> SUBSET Turns]
    BY <1>10 DEF TerminalSent
  <2>5. /\ fut' \in [Turns -> {"new", "open", "done"}]
        /\ result' \in [Turns -> Turns \cup {None}]
    BY <1>10, ResolveType DEF TerminalSent
  <2> QED
    BY <1>10, <2>1, <2>2, <2>3, <2>4, <2>5 DEF TerminalSent
<1>11. CASE TerminalCut(c)
  BY <1>11, ResolveType DEF TerminalCut, Finish, Phases, LifeStages, None
<1> QED
  BY <1>1, <1>2, <1>3, <1>4, <1>5, <1>6, <1>7, <1>8, <1>9, <1>10, <1>11
  DEF Payload

\* What a caller's cancellation, the reaper and the shutdown keep.
LEMMA DrainPendingType ==
  ASSUME TypeOK, NEW L \in SUBSET Conversations, DrainPending(L)
  PROVE  /\ fut' \in [Turns -> {"new", "open", "done"}]
         /\ result' \in [Turns -> Turns \cup {None}]
         /\ pending' \in [Conversations -> Seq(Turns)]
         /\ mailbox' \in [Conversations -> Seq(Turns)]
<1>1. None \in Turns \cup {None}
  OBVIOUS
<1>2. /\ fut' \in [Turns -> {"new", "open", "done"}]
      /\ result' \in [Turns -> Turns \cup {None}]
  BY <1>1, ResolveType DEF DrainPending
<1>3. /\ pending' \in [Conversations -> Seq(Turns)]
      /\ mailbox' \in [Conversations -> Seq(Turns)]
  BY DEF DrainPending, TypeOK
<1> QED
  BY <1>2, <1>3

LEMMA CancelTurnType ==
  ASSUME TypeOK, NEW t \in Turns, CancelTurn(t)
  PROVE  TypeOK'
<1> USE DEF TypeOK, shutdownVars
<1>1. None \in Turns \cup {None}
  OBVIOUS
<1>2. CASE CancelQueued(t)
  <2>1. pending' \in [Conversations -> Seq(Turns)]
    <3> DEFINE c == req[t].conversation
    <3>1. PICK i \in DOMAIN pending[c] : pending' = [pending EXCEPT ![c] = RemoveAt(@, i)]
      BY <1>2 DEF CancelQueued
    <3>2. c \in Conversations => RemoveAt(pending[c], i) \in Seq(Turns)
      BY RemoveAtType
    <3> QED
      BY <3>1, <3>2
  <2>2. /\ fut' \in [Turns -> {"new", "open", "done"}]
        /\ result' \in [Turns -> Turns \cup {None}]
    BY <1>1, <1>2, ResolveType DEF CancelQueued
  <2> QED
    BY <1>2, <2>1, <2>2 DEF CancelQueued, CancelTurn
<1>3. CASE CancelMailboxed(t)
  <2>1. mailbox' \in [Conversations -> Seq(Turns)]
    <3> DEFINE c == req[t].conversation
    <3>1. PICK i \in DOMAIN mailbox[c] : mailbox' = [mailbox EXCEPT ![c] = RemoveAt(@, i)]
      BY <1>3 DEF CancelMailboxed
    <3>2. c \in Conversations => RemoveAt(mailbox[c], i) \in Seq(Turns)
      BY RemoveAtType
    <3> QED
      BY <3>1, <3>2
  <2>2. /\ fut' \in [Turns -> {"new", "open", "done"}]
        /\ result' \in [Turns -> Turns \cup {None}]
    BY <1>1, <1>3, ResolveType DEF CancelMailboxed
  <2> QED
    BY <1>3, <2>1, <2>2 DEF CancelMailboxed, CancelTurn
<1>4. CASE CancelRunning(t)
  <2>1. cancelReq' \in [Conversations -> BOOLEAN]
    BY <1>4 DEF CancelRunning
  <2> QED
    BY <1>4, <2>1 DEF CancelRunning, CancelTurn
<1> QED
  BY <1>2, <1>3, <1>4 DEF CancelTurn

LEMMA ShutdownType ==
  ASSUME TypeOK, Shutdown
  PROVE  TypeOK'
<1> USE DEF TypeOK, handleVars, laneVars, payloadVars, shutdownVars
<1>0. lanes \in SUBSET Conversations
  OBVIOUS
<1>1. ASSUME Collect
      PROVE  /\ awaited' \subseteq Turns
             /\ shutdown' \in {"none", "sealed", "reaped", "grace", "cascade", "finished"}
  BY <1>1 DEF Collect
<1>2. CASE DrainLanes
  BY <1>0, <1>1, <1>2, DrainPendingType DEF DrainLanes
<1>3. CASE CollectRunning
  BY <1>1, <1>3 DEF CollectRunning
<1>4. CASE GraceEnds
  <2>1. cancelReq' \in [Conversations -> BOOLEAN]
    BY <1>4 DEF GraceEnds, CancelPayloads
  <2> QED
    BY <1>4, <2>1 DEF GraceEnds
<1>5. CASE CascadeEnds
  BY <1>5 DEF CascadeEnds
<1> QED
  BY <1>2, <1>3, <1>4, <1>5 DEF Shutdown

\* The initial state is well typed.
LEMMA InitType == Init => TypeOK
<1> SUFFICES ASSUME Init PROVE TypeOK
  OBVIOUS
<1>1. accepted \in 0 .. MaxTurns /\ \A t \in Turns : t <= accepted => req[t] \in Request
  BY ConstantsAssumption DEF Init, Turns
<1>2. /\ req \in [Turns -> Request \cup {NoRequest}]
      /\ fut \in [Turns -> {"new", "open", "done"}]
      /\ result \in [Turns -> Turns \cup {None}]
      /\ life \in [Turns -> LifeStages]
  BY DEF Init, LifeStages
<1>3. /\ pending \in [Conversations -> Seq(Turns)]
      /\ mailbox \in [Conversations -> Seq(Turns)]
      /\ worker \in [Conversations -> {"none", "ready", "waiting"}]
      /\ running \in [Conversations -> Turns \cup {NoTurn}]
      /\ phase \in [Conversations -> Phases]
      /\ outcome \in [Conversations -> Turns \cup {None}]
      /\ chained \in [Conversations -> SUBSET Turns]
  BY DEF Init, Phases
<1>4. idle \in [Conversations -> BOOLEAN] /\ cancelReq \in [Conversations -> BOOLEAN]
  BY DEF Init
<1>5. free \in [Pools -> Nat]
  BY ConstantsAssumption DEF Init, PoolSize
<1>6. /\ lanes \subseteq Conversations
      /\ draining \in BOOLEAN
      /\ shutdown \in {"none", "sealed", "reaped", "grace", "cascade", "finished"}
      /\ awaited \subseteq Turns
      /\ reaper \in {"none", "sleeping"}
  BY DEF Init
<1> QED
  BY <1>1, <1>2, <1>3, <1>4, <1>5, <1>6 DEF TypeOK

\* Every step keeps the types.
LEMMA NextType == TypeOK /\ [Next]_vars => TypeOK'
<1> SUFFICES ASSUME TypeOK, [Next]_vars PROVE TypeOK'
  OBVIOUS
<1>1. ASSUME NEW c \in Conversations, CancelConversation(c)  PROVE TypeOK'
  <2>1. cancelReq' \in [Conversations -> BOOLEAN]
    BY <1>1 DEF CancelConversation, CancelPayloads
  <2>2. {c} \in SUBSET Conversations /\ DrainPending({c})
    BY <1>1 DEF CancelConversation
  <2> QED
    BY <1>1, <2>1, <2>2, DrainPendingType DEF CancelConversation, TypeOK, shutdownVars
<1>2. CASE Seal
  BY <1>2 DEF Seal, TypeOK, handleVars, laneVars, payloadVars
<1>3. CASE Sweep
  <2>1. lanes' \subseteq Conversations /\ idle' \in [Conversations -> BOOLEAN]
    BY <1>3 DEF Sweep, TypeOK
  <2>2. reaper' \in {"none", "sleeping"}
    BY <1>3 DEF Sweep
  <2> QED
    BY <1>3, <2>1, <2>2 DEF Sweep, TypeOK, handleVars, payloadVars
<1>4. CASE Callers
  BY <1>1, <1>2, <1>4, SubmitType, CancelTurnType DEF Callers
<1>5. CASE UNCHANGED vars
  BY <1>5 DEF vars, handleVars, laneVars, payloadVars, shutdownVars, TypeOK
<1>6. CASE Stopped
  BY <1>5, <1>6 DEF Stopped
<1> QED
  BY <1>3, <1>4, <1>5, <1>6, WorkerType, PayloadType, ShutdownType DEF Next

\* The scheduler never leaves its types, whatever is submitted, cancelled or
\* shut down in whatever order; in particular no pool semaphore goes below 0.
THEOREM TypeCorrect == Safety => []TypeOK
BY InitType, NextType, PTL DEF Safety

-----------------------------------------------------------------------------
(* Ownership: every open handle has exactly one owner, and its owner moves. *)

\* A step that settles the Turns of S, takes them out of their lanes and moves
\* the others only inside their lanes keeps OneOwner.
LEMMA SettleKeepsOwner ==
  ASSUME OneOwner, NEW S,
         \A t \in S : \E c \in Conversations : t \in Held(c),
         UNCHANGED <<accepted, req>>,
         fut' = [t \in Turns |-> IF t \in S THEN "done" ELSE fut[t]],
         \A c \in Conversations : Held(c)' = Held(c) \ S,
         \A c \in Conversations : PlacesDisjoint(c)'
  PROVE  OneOwner'
<1>1. \A t \in Turns : t \in S => fut[t] = "open"
  BY DEF OneOwner
<1>2. \A t \in Turns : fut'[t] = "new" <=> t > accepted'
  BY <1>1 DEF OneOwner
<1>3. \A t \in Turns : fut'[t] = "open" <=> \E c \in Conversations : t \in Held(c)'
  BY DEF OneOwner
<1>4. \A c \in Conversations : \A t \in Held(c)' : req'[t].conversation = c
  BY DEF OneOwner
<1> QED
  BY <1>2, <1>3, <1>4 DEF OneOwner

\* A step that settles nothing and moves Turns only inside their lanes.
LEMMA MoveKeepsOwner ==
  ASSUME OneOwner,
         UNCHANGED <<accepted, req, fut>>,
         \A c \in Conversations : Held(c)' = Held(c),
         \A c \in Conversations : PlacesDisjoint(c)'
  PROVE  OneOwner'
BY DEF OneOwner

\* A step that leaves the four places of every lane alone.
LEMMA StillKeepsOwner ==
  ASSUME OneOwner,
         UNCHANGED <<accepted, req, fut, pending, mailbox, chained, running>>
  PROVE  OneOwner'
<1>1. \A c \in Conversations : Held(c)' = Held(c) /\ PlacesDisjoint(c)'
  BY DEF Held, PlacesDisjoint, OneOwner
<1> QED
  BY <1>1, MoveKeepsOwner

\* Scheduler.submit gives the new Turn one owner: the lane it is placed in.
LEMMA SubmitOwner ==
  ASSUME OwnershipInv, NEW c \in Conversations, NEW o \in Origins,
         NEW b \in BusyPolicies, Submit(c, o, b)
  PROVE  OneOwner' /\ NoStrandedWork' /\ PayloadShape'
<1> USE DEF OwnershipInv
<1> DEFINE t == accepted + 1
<1>1. t \in Turns /\ t # NoTurn /\ accepted' = t
  BY ConstantsAssumption DEF TypeOK, Submit, Turns, NoTurn
<1>2. fut[t] = "new" /\ \A d \in Conversations : t \notin Held(d)
  <2>1. t > accepted
    BY DEF TypeOK
  <2>2. fut[t] = "new"
    BY <1>1, <2>1 DEF OneOwner
  <2>3. fut[t] # "open"
    BY <2>2
  <2> QED
    BY <1>1, <2>2, <2>3 DEF OneOwner
<1>3. UNCHANGED <<running, chained, phase>>
  BY DEF Submit
<1>4. Place(c, t, effective_busy(o, b))
  BY DEF Submit
<1> HIDE DEF t
<1>5. /\ pending[c] \in Seq(Turns) /\ mailbox[c] \in Seq(Turns)
      /\ t \notin ToSet(pending[c]) \cup ToSet(mailbox[c]) \cup chained[c] \cup {running[c]}
      /\ PlacesDisjoint(c)
  BY <1>1, <1>2 DEF TypeOK, Held, OneOwner
<1>6. /\ ToSet(pending'[c]) \cup ToSet(mailbox'[c])
           = ToSet(pending[c]) \cup ToSet(mailbox[c]) \cup {t}
      /\ PlacesDisjoint(c)'
      /\ mailbox'[c] # mailbox[c] => running[c] # NoTurn
      /\ pending'[c] # <<>> => worker'[c] # "none"
      /\ running'[c] # NoTurn <=> worker'[c] = "waiting"
  <2>1. CASE PlaceInterrupt(c, t)
    <3>1. /\ pending'[c] = Cons(t, pending[c])
          /\ mailbox'[c] = mailbox[c]
          /\ worker'[c] = IF worker[c] = "none" THEN "ready" ELSE worker[c]
      BY <2>1 DEF PlaceInterrupt, WakeWorker, TypeOK
    <3>2. /\ ToSet(pending'[c]) = ToSet(pending[c]) \cup {t}
          /\ IsInjective(pending'[c])
      BY <1>1, <1>5, <3>1, ConsSet DEF PlacesDisjoint
    <3>3. PlacesDisjoint(c)'
      BY <1>3, <1>5, <3>1, <3>2 DEF PlacesDisjoint
    <3> QED
      BY <1>3, <3>1, <3>2, <3>3 DEF NoStrandedWork
  <2>2. CASE PlaceInject(c, t) /\ IsRunning(c)
    <3>1. /\ mailbox'[c] = Append(mailbox[c], t)
          /\ pending'[c] = pending[c]
          /\ worker'[c] = worker[c]
      BY <2>2 DEF PlaceInject, TypeOK
    <3>2. /\ ToSet(mailbox'[c]) = ToSet(mailbox[c]) \cup {t}
          /\ IsInjective(mailbox'[c])
      BY <1>1, <1>5, <3>1, AppendSet DEF PlacesDisjoint
    <3>3. PlacesDisjoint(c)'
      BY <1>3, <1>5, <3>1, <3>2 DEF PlacesDisjoint
    <3> QED
      BY <1>3, <2>2, <3>1, <3>2, <3>3 DEF NoStrandedWork, IsRunning
  <2>3. CASE PlaceAppend(c, t)
    <3>1. /\ pending'[c] = Append(pending[c], t)
          /\ mailbox'[c] = mailbox[c]
          /\ worker'[c] = IF worker[c] = "none" THEN "ready" ELSE worker[c]
      BY <2>3 DEF PlaceAppend, WakeWorker, TypeOK
    <3>2. /\ ToSet(pending'[c]) = ToSet(pending[c]) \cup {t}
          /\ IsInjective(pending'[c])
      BY <1>1, <1>5, <3>1, AppendSet DEF PlacesDisjoint
    <3>3. PlacesDisjoint(c)'
      BY <1>3, <1>5, <3>1, <3>2 DEF PlacesDisjoint
    <3> QED
      BY <1>3, <3>1, <3>2, <3>3 DEF NoStrandedWork
  <2> QED
    BY <1>4, <2>1, <2>2, <2>3 DEF Place
<1>7. Held(c)' = Held(c) \cup {t}
  BY <1>3, <1>6 DEF Held
<1>8. ASSUME NEW d \in Conversations, d # c
      PROVE  /\ pending'[d] = pending[d] /\ mailbox'[d] = mailbox[d]
             /\ worker'[d] = worker[d]
  BY <1>4, <1>8 DEF Place, PlaceInterrupt, PlaceInject, PlaceAppend, WakeWorker, TypeOK
<1>9. ASSUME NEW d \in Conversations, d # c
      PROVE  Held(d)' = Held(d) /\ PlacesDisjoint(d)'
  BY <1>3, <1>8, <1>9 DEF Held, PlacesDisjoint, OneOwner
<1>10. /\ req'[t].conversation = c /\ fut'[t] = "open"
       /\ \A u \in Turns : u # t => req'[u] = req[u] /\ fut'[u] = fut[u]
  BY <1>1 DEF Submit, TypeOK, t
<1>11. OneOwner'
  <2>1. \A u \in Turns : fut'[u] = "new" <=> u > accepted'
    BY <1>1, <1>10 DEF OneOwner, t, TypeOK, Turns
  <2>2. \A u \in Turns : fut'[u] = "open" <=> \E d \in Conversations : u \in Held(d)'
    BY <1>2, <1>7, <1>9, <1>10 DEF OneOwner
  <2>3. ASSUME NEW d \in Conversations, NEW u \in Held(d)'
        PROVE  req'[u].conversation = d
    <3>1. Held(d) \subseteq Turns
      BY ToSetType DEF TypeOK, Held, NoTurn
    <3> QED
      BY <1>2, <1>7, <1>9, <1>10, <2>3, <3>1 DEF OneOwner
  <2> QED
    BY <1>6, <1>9, <2>1, <2>2, <2>3 DEF OneOwner
<1>12. lanes' = lanes \cup {c} /\ idle'[c] = FALSE
       /\ \A d \in Conversations : d # c => idle'[d] = idle[d]
  BY DEF Submit, TypeOK
<1>13. ASSUME NEW d \in Conversations
       PROVE  /\ pending'[d] # <<>> => worker'[d] # "none"
              /\ mailbox'[d] # <<>> \/ chained'[d] # {} => running'[d] # NoTurn
              /\ running'[d] # NoTurn <=> worker'[d] = "waiting"
              /\ Held(d)' # {} => d \in lanes' /\ ~idle'[d]
  BY <1>3, <1>6, <1>8, <1>9, <1>12 DEF NoStrandedWork
<1>14. NoStrandedWork'
  BY <1>13 DEF NoStrandedWork
<1>15. PayloadShape'
  BY <1>3 DEF PayloadShape
<1> QED
  BY <1>11, <1>14, <1>15

\* The worker's loop moves the head of its backlog q into the running slot.
LEMMA TakeNextMoves ==
  ASSUME TypeOK, NEW c \in Conversations, NEW q \in Seq(Turns), IsInjective(q),
         TakeNext(c, q)
  PROVE  /\ \A d \in Conversations : d # c =>
              /\ pending'[d] = pending[d] /\ running'[d] = running[d]
              /\ phase'[d] = phase[d] /\ worker'[d] = worker[d] /\ idle'[d] = idle[d]
         /\ ToSet(pending'[c]) \cup ({running'[c]} \ {NoTurn}) = ToSet(q)
         /\ IsInjective(pending'[c])
         /\ running'[c] \notin ToSet(pending'[c])
         /\ q = <<>> => /\ running'[c] = NoTurn /\ phase'[c] = "none"
                        /\ worker'[c] = "none" /\ pending'[c] = <<>>
         /\ q # <<>> => /\ running'[c] # NoTurn /\ phase'[c] = "created"
                        /\ worker'[c] = "waiting" /\ idle'[c] = idle[c]
                        /\ running'[c] \in ToSet(q)
<1>1. \A d \in Conversations : d # c =>
        /\ pending'[d] = pending[d] /\ running'[d] = running[d]
        /\ phase'[d] = phase[d] /\ worker'[d] = worker[d] /\ idle'[d] = idle[d]
  BY DEF TakeNext, TypeOK
<1>2. CASE q # <<>>
  <2>1. /\ pending'[c] = Tail(q) /\ running'[c] = Head(q)
        /\ phase'[c] = "created" /\ worker'[c] = "waiting" /\ idle'[c] = idle[c]
    BY <1>2 DEF TakeNext, TypeOK
  <2>2. /\ ToSet(Tail(q)) = ToSet(q) \ {Head(q)}
        /\ Head(q) \in ToSet(q) /\ IsInjective(Tail(q))
    BY <1>2, TailSet
  <2>3. Head(q) # NoTurn
    <3>1. Head(q) \in Turns
      BY <1>2, HeadTailType
    <3> QED
      BY <3>1 DEF Turns, NoTurn
  <2> QED
    BY <1>1, <1>2, <2>1, <2>2, <2>3
<1>3. CASE q = <<>>
  <2>1. /\ pending'[c] = <<>> /\ running'[c] = NoTurn
        /\ phase'[c] = "none" /\ worker'[c] = "none"
    BY <1>3 DEF TakeNext, TypeOK
  <2> QED
    BY <1>1, <1>3, <2>1, EmptySet
<1> QED
  BY <1>2, <1>3

\* The two steps of a worker move Turns inside their lane, and WorkerResume
\* settles the one whose payload is done.
LEMMA WorkerOwner ==
  ASSUME OwnershipInv, NEW c \in Conversations, Worker(c)
  PROVE  OneOwner' /\ NoStrandedWork' /\ PayloadShape'
<1> USE DEF OwnershipInv
<1>0. /\ PlacesDisjoint(c) /\ pending[c] \in Seq(Turns) /\ mailbox[c] \in Seq(Turns)
      /\ \A t \in Turns : t # NoTurn
  BY DEF OneOwner, TypeOK, Turns, NoTurn
<1>1. CASE WorkerStart(c)
  <2>1. /\ TakeNext(c, pending[c])
        /\ UNCHANGED <<accepted, req, fut, mailbox, chained, lanes>>
    BY <1>1 DEF WorkerStart, handleVars
  <2>2. running[c] = NoTurn /\ mailbox[c] = <<>> /\ chained[c] = {}
    BY <1>1 DEF WorkerStart, NoStrandedWork
  <2>3. IsInjective(pending[c])
    BY <1>0 DEF PlacesDisjoint
  <2>4. Held(c)' = Held(c) /\ Held(c) = ToSet(pending[c])
    BY <1>0, <2>1, <2>2, <2>3, TakeNextMoves, EmptySet DEF Held
  <2>5. PlacesDisjoint(c)'
    BY <1>0, <2>1, <2>2, <2>3, TakeNextMoves, EmptySet DEF PlacesDisjoint
  <2>6. ASSUME NEW d \in Conversations, d # c
        PROVE  Held(d)' = Held(d) /\ PlacesDisjoint(d)'
    <3>1. PlacesDisjoint(d)
      BY DEF OneOwner
    <3> QED
      BY <1>0, <2>1, <2>3, <2>6, <3>1, TakeNextMoves DEF Held, PlacesDisjoint
  <2>7. OneOwner'
    BY <2>1, <2>4, <2>5, <2>6, MoveKeepsOwner
  <2>8. ASSUME NEW d \in Conversations
        PROVE  /\ pending'[d] # <<>> => worker'[d] # "none"
               /\ mailbox'[d] # <<>> \/ chained'[d] # {} => running'[d] # NoTurn
               /\ running'[d] # NoTurn <=> worker'[d] = "waiting"
               /\ Held(d)' # {} => d \in lanes' /\ ~idle'[d]
               /\ phase'[d] = "none" <=> running'[d] = NoTurn
               /\ chained'[d] # {} => phase'[d] \in {"running", "failing", "cancelling"}
    <3>1. CASE d # c
      BY <1>0, <2>1, <2>3, <2>6, <3>1, TakeNextMoves DEF NoStrandedWork, PayloadShape
    <3>2. CASE d = c /\ pending[c] # <<>>
      BY <1>0, <2>1, <2>2, <2>3, <2>4, <3>2, TakeNextMoves DEF NoStrandedWork
    <3>3. CASE d = c /\ pending[c] = <<>>
      BY <1>0, <2>1, <2>2, <2>3, <2>4, <3>3, TakeNextMoves, EmptySet
    <3> QED
      BY <3>1, <3>2, <3>3
  <2> QED
    BY <2>7, <2>8 DEF NoStrandedWork, PayloadShape
<1>2. CASE WorkerResume(c)
  <2> DEFINE q == pending[c] \o mailbox[c]
             S == {running[c]}
  <2>1. /\ TakeNext(c, q)
        /\ UNCHANGED <<accepted, req, chained, lanes>>
        /\ fut' = [t \in Turns |-> IF t \in S THEN "done" ELSE fut[t]]
        /\ mailbox'[c] = <<>>
        /\ \A d \in Conversations : d # c => mailbox'[d] = mailbox[d]
    BY <1>2 DEF WorkerResume, Resolve, TypeOK
  <2>2. running[c] # NoTurn /\ chained[c] = {}
    BY <1>2 DEF WorkerResume, NoStrandedWork, PayloadShape
  <2>3. /\ q \in Seq(Turns) /\ ToSet(q) = ToSet(pending[c]) \cup ToSet(mailbox[c])
        /\ IsInjective(q)
    BY <1>0, ConcatSet DEF PlacesDisjoint
  <2> HIDE DEF q
  <2>4. Held(c)' = Held(c) \ S /\ Held(c)' = ToSet(q)
    <3>1. Held(c)' = ToSet(q)
      BY <2>1, <2>2, <2>3, TakeNextMoves, EmptySet DEF Held
    <3> QED
      BY <1>0, <2>2, <2>3, <3>1 DEF Held, PlacesDisjoint
  <2>5. PlacesDisjoint(c)'
    BY <1>0, <2>1, <2>2, <2>3, TakeNextMoves, EmptySet DEF PlacesDisjoint
  <2>6. ASSUME NEW d \in Conversations, d # c
        PROVE  Held(d)' = Held(d) /\ PlacesDisjoint(d)'
    <3>1. PlacesDisjoint(d)
      BY DEF OneOwner
    <3> QED
      BY <2>1, <2>3, <2>6, <3>1, TakeNextMoves DEF Held, PlacesDisjoint
  <2>7. running[c] \in Held(c)
    BY <2>2 DEF Held
  <2>8. ASSUME NEW d \in Conversations, d # c  PROVE Held(d)' = Held(d) \ S
    <3>1. running[c] \notin Held(d)
      BY <2>7, <2>8 DEF OneOwner
    <3> QED
      BY <2>6, <2>8, <3>1
  <2>9. OneOwner'
    BY <2>1, <2>4, <2>5, <2>6, <2>7, <2>8, SettleKeepsOwner
  <2>10. ASSUME NEW d \in Conversations
         PROVE  /\ pending'[d] # <<>> => worker'[d] # "none"
                /\ mailbox'[d] # <<>> \/ chained'[d] # {} => running'[d] # NoTurn
                /\ running'[d] # NoTurn <=> worker'[d] = "waiting"
                /\ Held(d)' # {} => d \in lanes' /\ ~idle'[d]
                /\ phase'[d] = "none" <=> running'[d] = NoTurn
                /\ chained'[d] # {} => phase'[d] \in {"running", "failing", "cancelling"}
    <3>1. CASE d # c
      BY <2>1, <2>3, <2>6, <3>1, TakeNextMoves DEF NoStrandedWork, PayloadShape
    <3>2. CASE d = c /\ q # <<>>
      BY <2>1, <2>2, <2>3, <2>7, <3>2, TakeNextMoves DEF NoStrandedWork
    <3>3. CASE d = c /\ q = <<>>
      BY <2>1, <2>2, <2>3, <2>4, <3>3, TakeNextMoves, EmptySet
    <3> QED
      BY <3>1, <3>2, <3>3
  <2> QED
    BY <2>9, <2>10 DEF NoStrandedWork, PayloadShape
<1> QED
  BY <1>1, <1>2 DEF Worker

\* A step that leaves the places, the workers and the registry alone, and keeps
\* every payload in a phase its merged injects allow.
LEMMA StillKeepsWork ==
  ASSUME OwnershipInv,
         UNCHANGED <<accepted, req, fut, pending, mailbox, chained, running,
                     worker, lanes, idle>>,
         \A c \in Conversations : phase'[c] # phase[c] =>
           /\ phase[c] # "none" /\ phase'[c] # "none"
           /\ chained[c] # {} => phase'[c] \in {"running", "failing", "cancelling"}
  PROVE  OneOwner' /\ NoStrandedWork' /\ PayloadShape'
<1> USE DEF OwnershipInv
<1>1. OneOwner'
  BY StillKeepsOwner
<1>2. NoStrandedWork'
  BY DEF NoStrandedWork, Held
<1>3. PayloadShape'
  BY DEF PayloadShape
<1> QED
  BY <1>1, <1>2, <1>3

\* A payload that settles its merged injects.
LEMMA SettleChained ==
  ASSUME OwnershipInv, NEW c \in Conversations, NEW v,
         phase[c] # "none", phase'[c] # "none",
         \A d \in Conversations : d # c => phase'[d] = phase[d],
         Resolve(chained[c], v),
         chained' = [chained EXCEPT ![c] = {}],
         UNCHANGED <<accepted, req, pending, mailbox, running, worker, lanes, idle>>
  PROVE  OneOwner' /\ NoStrandedWork' /\ PayloadShape'
<1> USE DEF OwnershipInv
<1> DEFINE S == chained[c]
<1>1. fut' = [t \in Turns |-> IF t \in S THEN "done" ELSE fut[t]]
  BY DEF Resolve
<1>2. chained'[c] = {} /\ \A d \in Conversations : d # c => chained'[d] = chained[d]
  BY DEF TypeOK
<1>3. \A t \in S : t \in Held(c)
  BY DEF Held
<1>4. \A d \in Conversations : PlacesDisjoint(d)
  BY DEF OneOwner
<1>5. Held(c)' = Held(c) \ S
  BY <1>2, <1>4 DEF Held, PlacesDisjoint
<1>6. ASSUME NEW d \in Conversations, d # c  PROVE Held(d)' = Held(d) \ S
  <2>1. Held(d)' = Held(d)
    BY <1>2, <1>6 DEF Held
  <2>2. Held(d) \cap S = {}
    BY <1>3, <1>6 DEF OneOwner
  <2> QED
    BY <2>1, <2>2
<1>7. \A d \in Conversations : PlacesDisjoint(d)'
  BY <1>2, <1>4 DEF PlacesDisjoint
<1>8. OneOwner'
  BY <1>1, <1>3, <1>5, <1>6, <1>7, SettleKeepsOwner
<1>9. \A d \in Conversations : Held(d)' \subseteq Held(d)
  BY <1>5, <1>6
<1>10. NoStrandedWork'
  BY <1>2, <1>9 DEF NoStrandedWork
<1>11. PayloadShape'
  BY <1>2 DEF PayloadShape
<1> QED
  BY <1>8, <1>10, <1>11

\* Every step of a payload keeps the ownership.
LEMMA PayloadOwner ==
  ASSUME OwnershipInv, NEW c \in Conversations, Payload(c)
  PROVE  OneOwner' /\ NoStrandedWork' /\ PayloadShape'
<1> USE DEF handleVars, laneVars, payloadVars, shutdownVars
<1>0. phase \in [Conversations -> Phases]
  BY DEF OwnershipInv, TypeOK
<1>c. chained[c] # {} => phase[c] \in {"running", "failing", "cancelling"}
  BY DEF OwnershipInv, PayloadShape
<1>1. CASE BeginNow(c) \/ Acquire(c)
  BY <1>0, <1>c, <1>1, StillKeepsWork DEF BeginNow, Acquire, Enter
<1>2. CASE BeginWaiting(c)
  BY <1>0, <1>c, <1>2, StillKeepsWork DEF BeginWaiting
<1>3. CASE StartFails(c) \/ CancelledEarly(c)
  BY <1>0, <1>c, <1>3, StillKeepsWork DEF StartFails, CancelledEarly, Finish
<1>4. CASE RunnerRaises(c) \/ RunnerCancelled(c)
  BY <1>0, <1>4, StillKeepsWork DEF RunnerRaises, RunnerCancelled
<1>5. CASE RunnerReturns(c)
  BY <1>0, <1>5, SettleChained DEF RunnerReturns
<1>6. CASE TerminalSent(c)
  BY <1>0, <1>6, SettleChained DEF TerminalSent, Finish, TerminalPhases
<1>7. CASE TerminalCut(c)
  BY <1>0, <1>7, SettleChained DEF TerminalCut, Finish, TerminalPhases
<1>8. CASE Drain(c)
  <2> USE DEF OwnershipInv
  <2>1. /\ UNCHANGED <<accepted, req, fut, pending, running, worker, lanes, idle, phase>>
        /\ chained'[c] = chained[c] \cup ToSet(mailbox[c]) /\ mailbox'[c] = <<>>
        /\ \A d \in Conversations : d # c =>
             chained'[d] = chained[d] /\ mailbox'[d] = mailbox[d]
    BY <1>8 DEF Drain, TypeOK
  <2>2. \A d \in Conversations : PlacesDisjoint(d)
    BY DEF OneOwner
  <2>3. Held(c)' = Held(c) /\ PlacesDisjoint(c)'
    BY <2>1, <2>2, EmptySet DEF Held, PlacesDisjoint
  <2>4. \A d \in Conversations : Held(d)' = Held(d) /\ PlacesDisjoint(d)'
    BY <2>1, <2>2, <2>3 DEF Held, PlacesDisjoint
  <2>5. OneOwner'
    BY <2>1, <2>4, MoveKeepsOwner
  <2>6. running[c] # NoTurn /\ phase[c] = "running"
    BY <1>8 DEF Drain, PayloadShape
  <2>7. NoStrandedWork' /\ PayloadShape'
    BY <2>1, <2>4, <2>6 DEF NoStrandedWork, PayloadShape
  <2> QED
    BY <2>5, <2>7
<1> QED
  BY <1>1, <1>2, <1>3, <1>4, <1>5, <1>6, <1>7, <1>8 DEF Payload

\* Turns leave queues and mailboxes, and are settled by the step that takes
\* them: TurnHandle.cancel, /stop and the drain of a shutdown.
LEMMA WithdrawOwner ==
  ASSUME OwnershipInv, NEW S, Resolve(S, None),
         UNCHANGED <<accepted, req, chained, running, phase, worker, lanes, idle>>,
         \A c \in Conversations :
           /\ IsInjective(pending'[c]) /\ IsInjective(mailbox'[c])
           /\ pending'[c] # <<>> => pending[c] # <<>>
           /\ mailbox'[c] # <<>> => mailbox[c] # <<>>
           /\ ToSet(pending'[c]) = ToSet(pending[c]) \ S
           /\ ToSet(mailbox'[c]) = ToSet(mailbox[c]) \ S
           /\ running[c] \notin S /\ chained[c] \cap S = {},
         \A t \in S : \E c \in Conversations : t \in Held(c)
  PROVE  OneOwner' /\ NoStrandedWork' /\ PayloadShape'
<1> USE DEF OwnershipInv
<1>1. fut' = [t \in Turns |-> IF t \in S THEN "done" ELSE fut[t]]
  BY DEF Resolve
<1>2. \A c \in Conversations : Held(c)' = Held(c) \ S
  BY DEF Held
<1>3. \A c \in Conversations : PlacesDisjoint(c)
  BY DEF OneOwner
<1>4. \A c \in Conversations : PlacesDisjoint(c)'
  BY <1>3 DEF PlacesDisjoint
<1>5. OneOwner'
  BY <1>1, <1>2, <1>4, SettleKeepsOwner
<1>6. NoStrandedWork' /\ PayloadShape'
  BY <1>2 DEF NoStrandedWork, PayloadShape
<1> QED
  BY <1>5, <1>6

\* TurnHandle.cancel takes a waiting Turn out of its lane, or only marks the
\* payload of the running one.
LEMMA CancelTurnOwner ==
  ASSUME OwnershipInv, NEW t \in Turns, CancelTurn(t)
  PROVE  OneOwner' /\ NoStrandedWork' /\ PayloadShape'
<1> DEFINE c == req[t].conversation
<1>1. UNCHANGED <<accepted, req, chained, running, phase, worker, lanes, idle>>
  BY DEF CancelTurn
<1>2. c \in Conversations
  <2>1. fut[t] # "new"
    BY DEF CancelTurn
  <2>2. t <= accepted
    BY <2>1 DEF OwnershipInv, OneOwner, TypeOK, Turns
  <2> QED
    BY <2>2 DEF OwnershipInv, TypeOK, Request
<1>3. \A d \in Conversations :
        /\ PlacesDisjoint(d) /\ pending[d] \in Seq(Turns) /\ mailbox[d] \in Seq(Turns)
  BY DEF OwnershipInv, OneOwner, TypeOK
<1>4. t \in Held(c) => \A d \in Conversations : d # c => t \notin Held(d)
  BY DEF OwnershipInv, OneOwner
<1>5. CASE CancelQueued(t)
  <2>0. PICK i \in DOMAIN pending[c] :
          pending[c][i] = t /\ pending' = [pending EXCEPT ![c] = RemoveAt(@, i)]
    BY <1>5 DEF CancelQueued
  <2>1. /\ i \in 1 .. Len(pending[c])
        /\ pending[c][i] = t
        /\ pending' = [pending EXCEPT ![c] = RemoveAt(pending[c], i)]
    BY <1>2, <1>3, <2>0
  <2>2. /\ pending'[c] = RemoveAt(pending[c], i)
        /\ \A d \in Conversations : d # c => pending'[d] = pending[d]
    BY <1>2, <2>1 DEF OwnershipInv, TypeOK
  <2>3. /\ ToSet(pending'[c]) = ToSet(pending[c]) \ {t}
        /\ IsInjective(pending'[c])
    BY <1>2, <1>3, <2>1, <2>2, RemoveAtSet DEF PlacesDisjoint
  <2>4. t \in ToSet(pending[c]) /\ pending[c] # <<>>
    BY <1>2, <1>3, <2>1 DEF ToSet
  <2>5. t \in Held(c)
    BY <2>4 DEF Held
  <2>6. mailbox' = mailbox /\ Resolve({t}, None)
    BY <1>5 DEF CancelQueued
  <2>7. ASSUME NEW d \in Conversations
        PROVE  /\ IsInjective(pending'[d]) /\ IsInjective(mailbox'[d])
               /\ pending'[d] # <<>> => pending[d] # <<>>
               /\ mailbox'[d] # <<>> => mailbox[d] # <<>>
               /\ ToSet(pending'[d]) = ToSet(pending[d]) \ {t}
               /\ ToSet(mailbox'[d]) = ToSet(mailbox[d]) \ {t}
               /\ running[d] \notin {t} /\ chained[d] \cap {t} = {}
    <3>1. CASE d = c
      BY <1>3, <2>3, <2>4, <2>6, <3>1 DEF PlacesDisjoint
    <3>2. CASE d # c
      <4>1. t \notin Held(d)
        BY <1>4, <2>5, <3>2
      <4>2. t # NoTurn
        BY DEF Turns, NoTurn
      <4>3. /\ t \notin ToSet(pending[d]) /\ t \notin ToSet(mailbox[d])
            /\ t \notin chained[d] /\ running[d] # t
        BY <4>1, <4>2 DEF Held
      <4> QED
        BY <1>3, <2>2, <2>6, <3>2, <4>3 DEF PlacesDisjoint
    <3> QED
      BY <3>1, <3>2
  <2> QED
    BY <1>1, <1>2, <2>5, <2>6, <2>7, WithdrawOwner
<1>6. CASE CancelMailboxed(t)
  <2>0. PICK i \in DOMAIN mailbox[c] :
          mailbox[c][i] = t /\ mailbox' = [mailbox EXCEPT ![c] = RemoveAt(@, i)]
    BY <1>6 DEF CancelMailboxed
  <2>1. /\ i \in 1 .. Len(mailbox[c])
        /\ mailbox[c][i] = t
        /\ mailbox' = [mailbox EXCEPT ![c] = RemoveAt(mailbox[c], i)]
    BY <1>2, <1>3, <2>0
  <2>2. /\ mailbox'[c] = RemoveAt(mailbox[c], i)
        /\ \A d \in Conversations : d # c => mailbox'[d] = mailbox[d]
    BY <1>2, <2>1 DEF OwnershipInv, TypeOK
  <2>3. /\ ToSet(mailbox'[c]) = ToSet(mailbox[c]) \ {t}
        /\ IsInjective(mailbox'[c])
    BY <1>2, <1>3, <2>1, <2>2, RemoveAtSet DEF PlacesDisjoint
  <2>4. t \in ToSet(mailbox[c]) /\ mailbox[c] # <<>>
    BY <1>2, <1>3, <2>1 DEF ToSet
  <2>5. t \in Held(c)
    BY <2>4 DEF Held
  <2>6. pending' = pending /\ Resolve({t}, None)
    BY <1>6 DEF CancelMailboxed
  <2>7. ASSUME NEW d \in Conversations
        PROVE  /\ IsInjective(pending'[d]) /\ IsInjective(mailbox'[d])
               /\ pending'[d] # <<>> => pending[d] # <<>>
               /\ mailbox'[d] # <<>> => mailbox[d] # <<>>
               /\ ToSet(pending'[d]) = ToSet(pending[d]) \ {t}
               /\ ToSet(mailbox'[d]) = ToSet(mailbox[d]) \ {t}
               /\ running[d] \notin {t} /\ chained[d] \cap {t} = {}
    <3>1. CASE d = c
      BY <1>3, <2>3, <2>4, <2>6, <3>1 DEF PlacesDisjoint
    <3>2. CASE d # c
      <4>1. t \notin Held(d)
        BY <1>4, <2>5, <3>2
      <4>2. t # NoTurn
        BY DEF Turns, NoTurn
      <4>3. /\ t \notin ToSet(pending[d]) /\ t \notin ToSet(mailbox[d])
            /\ t \notin chained[d] /\ running[d] # t
        BY <4>1, <4>2 DEF Held
      <4> QED
        BY <1>3, <2>2, <2>6, <3>2, <4>3 DEF PlacesDisjoint
    <3> QED
      BY <3>1, <3>2
  <2> QED
    BY <1>1, <1>2, <2>5, <2>6, <2>7, WithdrawOwner
<1>7. CASE CancelRunning(t)
  BY <1>1, <1>7, StillKeepsWork DEF CancelRunning
<1> QED
  BY <1>5, <1>6, <1>7 DEF CancelTurn

\* /stop and the drain of a shutdown empty whole lanes.
LEMMA DrainPendingOwner ==
  ASSUME OwnershipInv, NEW L \in SUBSET Conversations, DrainPending(L),
         UNCHANGED <<accepted, req, chained, running, phase, worker, lanes, idle>>
  PROVE  OneOwner' /\ NoStrandedWork' /\ PayloadShape'
<1> DEFINE S == UNION {ToSet(pending[c]) \cup ToSet(mailbox[c]) : c \in L}
<1>1. Resolve(S, None)
  BY DEF DrainPending
<1>2. \A d \in Conversations :
        /\ pending'[d] = IF d \in L THEN <<>> ELSE pending[d]
        /\ mailbox'[d] = IF d \in L THEN <<>> ELSE mailbox[d]
  BY DEF DrainPending
<1>3. \A t \in S : \E c \in L : t \in ToSet(pending[c]) \cup ToSet(mailbox[c])
  OBVIOUS
<1>4. \A t \in S : \E c \in L : t \in Held(c)
  BY <1>3 DEF Held
<1>5. \A d \in Conversations : PlacesDisjoint(d)
  BY DEF OwnershipInv, OneOwner
<1>6. \A c \in L : ToSet(pending[c]) \subseteq S /\ ToSet(mailbox[c]) \subseteq S
  OBVIOUS
<1>8. ASSUME NEW d \in Conversations, d \notin L  PROVE Held(d) \cap S = {}
  BY <1>4, <1>8 DEF OwnershipInv, OneOwner
<1>9. \A t \in S : t \in Turns
  BY <1>3, ToSetType DEF OwnershipInv, TypeOK
<1>10. NoTurn \notin S
  BY <1>9 DEF Turns, NoTurn
<1>11. \A d \in Conversations : running[d] \notin S /\ chained[d] \cap S = {}
  <2> SUFFICES ASSUME NEW d \in Conversations, NEW t \in S,
                      running[d] = t \/ t \in chained[d]
               PROVE  FALSE
    OBVIOUS
  <2>1. t \in Held(d)
    BY <1>10 DEF Held
  <2>2. PICK c \in L : t \in ToSet(pending[c]) \cup ToSet(mailbox[c])
    BY <1>3
  <2>3. c = d
    BY <2>1, <2>2, <1>8, <1>4 DEF OwnershipInv, OneOwner, Held
  <2> QED
    BY <1>5, <2>2, <2>3 DEF PlacesDisjoint
<1> HIDE DEF S
<1>12. ASSUME NEW d \in Conversations
       PROVE  /\ IsInjective(pending'[d]) /\ IsInjective(mailbox'[d])
              /\ pending'[d] # <<>> => pending[d] # <<>>
              /\ mailbox'[d] # <<>> => mailbox[d] # <<>>
              /\ ToSet(pending'[d]) = ToSet(pending[d]) \ S
              /\ ToSet(mailbox'[d]) = ToSet(mailbox[d]) \ S
  <2>1. CASE d \in L
    BY <1>2, <1>6, <2>1, EmptySet
  <2>2. CASE d \notin L
    BY <1>2, <1>5, <1>8, <2>2 DEF PlacesDisjoint, Held
  <2> QED
    BY <2>1, <2>2
<1> QED
  BY <1>1, <1>4, <1>11, <1>12, WithdrawOwner

\* The reaper forgets only lanes that hold nothing.
LEMMA SweepOwner ==
  ASSUME OwnershipInv, Sweep
  PROVE  OneOwner' /\ NoStrandedWork' /\ PayloadShape'
<1> USE DEF OwnershipInv
<1>1. UNCHANGED <<accepted, req, fut, pending, mailbox, chained, running, worker, phase>>
  BY DEF Sweep, handleVars, payloadVars
<1>2. OneOwner' /\ PayloadShape'
  BY <1>1, StillKeepsOwner DEF PayloadShape
<1>3. PICK gone \in SUBSET {c \in lanes : idle[c]} :
        /\ lanes' = lanes \ gone
        /\ idle' = [c \in Conversations |-> idle[c] /\ c \notin gone]
  BY DEF Sweep
<1>4. \A c \in Conversations : Held(c)' = Held(c)
  BY <1>1 DEF Held
<1>5. ASSUME NEW c \in Conversations, Held(c) # {}
      PROVE  c \in lanes' /\ ~idle'[c]
  BY <1>3, <1>5 DEF NoStrandedWork
<1> QED
  BY <1>1, <1>2, <1>4, <1>5 DEF NoStrandedWork

\* The ownership holds at the start.
LEMMA InitOwner == Init => OwnershipInv
<1> SUFFICES ASSUME Init PROVE OwnershipInv
  OBVIOUS
<1>1. \A c \in Conversations : Held(c) = {} /\ PlacesDisjoint(c)
  BY EmptySet DEF Init, Held, PlacesDisjoint
<1>2. OneOwner
  BY <1>1 DEF Init, OneOwner, Turns
<1>3. NoStrandedWork
  BY <1>1 DEF Init, NoStrandedWork
<1>4. PayloadShape
  BY DEF Init, PayloadShape
<1> QED
  BY <1>2, <1>3, <1>4, InitType DEF OwnershipInv

\* Every step keeps the ownership.
LEMMA NextOwner == OwnershipInv /\ [Next]_vars => OwnershipInv'
<1> SUFFICES ASSUME OwnershipInv, [Next]_vars
             PROVE  OneOwner' /\ NoStrandedWork' /\ PayloadShape'
  BY NextType DEF OwnershipInv
<1> USE DEF handleVars, laneVars, payloadVars, shutdownVars
<1>1. CASE Callers
  <2>1. ASSUME NEW c \in Conversations, CancelConversation(c)
        PROVE  OneOwner' /\ NoStrandedWork' /\ PayloadShape'
    <3>1. {c} \in SUBSET Conversations
      OBVIOUS
    <3> QED
      BY <2>1, <3>1, DrainPendingOwner DEF CancelConversation
  <2>2. CASE Seal
    BY <2>2, StillKeepsWork DEF Seal
  <2> QED
    BY <1>1, <2>1, <2>2, SubmitOwner, CancelTurnOwner DEF Callers
<1>2. CASE Shutdown
  <2>1. CASE DrainLanes
    <3>1. lanes \in SUBSET Conversations
      BY DEF OwnershipInv, TypeOK
    <3> QED
      BY <2>1, <3>1, DrainPendingOwner DEF DrainLanes
  <2>2. CASE CollectRunning
    BY <2>2, StillKeepsWork DEF CollectRunning
  <2>3. CASE GraceEnds
    BY <2>3, StillKeepsWork DEF GraceEnds
  <2>4. CASE CascadeEnds
    BY <2>4, StillKeepsWork DEF CascadeEnds
  <2> QED
    BY <1>2, <2>1, <2>2, <2>3, <2>4 DEF Shutdown
<1>3. CASE UNCHANGED vars
  BY <1>3, StillKeepsWork DEF vars
<1>4. CASE Stopped
  BY <1>3, <1>4 DEF Stopped
<1> QED
  BY <1>1, <1>2, <1>3, <1>4, WorkerOwner, PayloadOwner, SweepOwner DEF Next

\* Every accepted handle is owned by exactly one place of its own lane until
\* it is done: submission, merge, fallback, cancellation, /stop and shutdown
\* lose none and let none be run or resolved twice.
THEOREM HandlesHaveOneOwner == Safety => []OneOwner
<1>1. OwnershipInv => OneOwner
  BY DEF OwnershipInv
<1> QED
  BY InitOwner, NextOwner, <1>1, PTL DEF Safety

\* No wake-up is lost: queued work always has a worker, a mailbox always has a
\* payload or a worker behind it, and the reaper never forgets a busy lane.
THEOREM WorkIsNeverStranded == Safety => []NoStrandedWork
<1>1. OwnershipInv => NoStrandedWork
  BY DEF OwnershipInv
<1> QED
  BY InitOwner, NextOwner, <1>1, PTL DEF Safety
=============================================================================
