---------------------------- MODULE LedgerProofs ----------------------------
(***************************************************************************)
(* More about Scheduler, on the ownership of SchedulerProofs: the lifecycle*)
(* of a Turn and its outcome, the order of the queue, what shutdown leaves,*)
(* and that the scheduler implements TurnLedger.                           *)
(***************************************************************************)
EXTENDS SchedulerProofs

-----------------------------------------------------------------------------
(* The invariants. *)

\* The phases in which the sink has got TurnStarted and no terminal event.
Executed == {"running", "ending", "failing", "cancelling"}

\* What the sink knows (l) of the Turn r of a payload, and the outcome (o) that
\* the payload holds, follow from where the payload is (ph).
Tells(ph, l, o, r) ==
  /\ ph \in {"created", "acquiring"} => l = "silent"
  /\ ph \in Executed => l = "started"
  /\ ph \notin {"none", "ending", "done"} => o = None
  /\ ph = "ending" => o = r
  /\ ph = "done" => l # "started" /\ (o # None => o = r /\ l = "ended")

PhaseTells ==
  \A c \in Conversations : Tells(phase[c], life[running[c]], outcome[c], running[c])

\* The sink hears only of Turns that run or have run.
HeardOf ==
  \A t \in Turns : life[t] # "silent" =>
    /\ fut[t] # "new"
    /\ fut[t] = "open" => \E c \in Conversations : running[c] = t

\* Only a USER waits in a mailbox or is merged.
InjectsAreUsers ==
  \A c \in Conversations : \A t \in ToSet(mailbox[c]) \cup chained[c] :
    req[t].busy = "INJECT" /\ req[t].origin = "USER"

\* A future that is not done holds nothing.
OpenIsEmpty == \A t \in Turns : fut[t] # "done" => result[t] = None

\* The inductive invariant behind TerminalBeforeResult and
\* OutcomeStaysInConversation.
LifeInv ==
  /\ PhaseTells /\ HeardOf /\ InjectsAreUsers /\ OpenIsEmpty
  /\ TerminalBeforeResult /\ OutcomeStaysInConversation

\* Once the lanes are drained nothing is queued again, the shutdown task waits
\* for every running Turn, and it ends with none.
ShutdownInv ==
  /\ shutdown # "none" => draining
  /\ shutdown \notin {"none", "sealed"} =>
       /\ reaper = "none"
       /\ \A c \in Conversations : pending[c] = <<>> /\ mailbox[c] = <<>>
  /\ shutdown \in {"grace", "cascade", "finished"} =>
       \A c \in Conversations : running[c] # NoTurn => running[c] \in awaited
  /\ shutdown = "finished" => awaited = {}

-----------------------------------------------------------------------------
(* The lifecycle of a Turn. *)

\* The running Turn of a lane is open, its own and in no other place.
LEMMA RunningFacts ==
  ASSUME OwnershipInv, NEW c \in Conversations, running[c] # NoTurn
  PROVE  /\ running[c] \in Turns /\ fut[running[c]] = "open"
         /\ req[running[c]].conversation = c
         /\ \A d \in Conversations : d # c => running[d] # running[c]
         /\ \A d \in Conversations :
              running[c] \notin ToSet(pending[d]) \cup ToSet(mailbox[d]) \cup chained[d]
<1> USE DEF OwnershipInv
<1>1. running[c] \in Turns
  BY DEF TypeOK
<1>2. running[c] \in Held(c)
  BY DEF Held
<1>3. fut[running[c]] = "open" /\ req[running[c]].conversation = c
  BY <1>1, <1>2 DEF OneOwner
<1>4. \A d \in Conversations : d # c => running[c] \notin Held(d)
  BY <1>2, <1>3 DEF OneOwner
<1>5. running[c] \notin ToSet(pending[c]) \cup ToSet(mailbox[c]) \cup chained[c]
  BY DEF OneOwner, PlacesDisjoint
<1> QED
  BY <1>1, <1>3, <1>4, <1>5 DEF Held

\* A Turn that waits or is merged is open, runs nowhere and is unknown to the
\* sink.
LEMMA WaitingFacts ==
  ASSUME OwnershipInv, HeardOf, NEW c \in Conversations,
         NEW t \in ToSet(pending[c]) \cup ToSet(mailbox[c]) \cup chained[c]
  PROVE  /\ t \in Turns /\ t # NoTurn /\ fut[t] = "open" /\ life[t] = "silent"
         /\ req[t].conversation = c
         /\ \A d \in Conversations : running[d] # t
<1> USE DEF OwnershipInv
<1>1. t \in Turns /\ t # NoTurn
  <2>1. pending[c] \in Seq(Turns) /\ mailbox[c] \in Seq(Turns) /\ chained[c] \subseteq Turns
    BY DEF TypeOK
  <2>2. ToSet(pending[c]) \subseteq Turns /\ ToSet(mailbox[c]) \subseteq Turns
    BY <2>1, ToSetType
  <2> QED
    BY <2>1, <2>2 DEF Turns, NoTurn
<1>2. t \in Held(c)
  BY DEF Held
<1>3. fut[t] = "open" /\ req[t].conversation = c
  BY <1>1, <1>2 DEF OneOwner
<1>4. \A d \in Conversations : running[d] # t
  BY <1>1, RunningFacts
<1> QED
  BY <1>1, <1>3, <1>4 DEF HeardOf

\* Steps that neither settle nor start a Turn.
LEMMA QuietLife ==
  ASSUME LifeInv,
         UNCHANGED <<req, fut, result, life, running, phase, outcome>>,
         \A c \in Conversations :
           ToSet(mailbox'[c]) \cup chained'[c] \subseteq ToSet(mailbox[c]) \cup chained[c]
  PROVE  LifeInv'
<1>1. PhaseTells' /\ HeardOf' /\ OpenIsEmpty'
  BY DEF LifeInv, PhaseTells, Tells, HeardOf, OpenIsEmpty
<1>2. InjectsAreUsers'
  BY DEF LifeInv, InjectsAreUsers
<1>3. TerminalBeforeResult' /\ OutcomeStaysInConversation'
  BY DEF LifeInv, TerminalBeforeResult, OutcomeStaysInConversation
<1> QED
  BY <1>1, <1>2, <1>3 DEF LifeInv

\* Steps that withdraw waiting Turns.
LEMMA WithdrawLife ==
  ASSUME OwnershipInv, LifeInv, NEW S, Resolve(S, None),
         \A t \in S : \E c \in Conversations : t \in ToSet(pending[c]) \cup ToSet(mailbox[c]),
         UNCHANGED <<req, life, running, phase, outcome, chained>>,
         \A c \in Conversations : ToSet(mailbox'[c]) \subseteq ToSet(mailbox[c])
  PROVE  LifeInv'
<1>1. \A t \in S : t \in Turns /\ fut[t] = "open" /\ life[t] = "silent"
  BY WaitingFacts DEF LifeInv
<1>2. /\ fut' = [t \in Turns |-> IF t \in S THEN "done" ELSE fut[t]]
      /\ result' = [t \in Turns |-> IF t \in S /\ fut[t] # "done" THEN None ELSE result[t]]
  BY DEF Resolve
<1>3. PhaseTells' /\ InjectsAreUsers'
  BY DEF LifeInv, PhaseTells, Tells, InjectsAreUsers
<1>4. HeardOf'
  BY <1>2 DEF LifeInv, HeardOf
<1>5. OpenIsEmpty'
  BY <1>2 DEF LifeInv, OpenIsEmpty
<1>6. TerminalBeforeResult'
  <2>1. \A t \in S : life[t] # "started" /\ result'[t] # t
    BY <1>1, <1>2 DEF Turns, None
  <2> QED
    BY <1>1, <1>2, <2>1 DEF LifeInv, TerminalBeforeResult
<1>7. OutcomeStaysInConversation'
  <2>1. \A t \in Turns : result'[t] # None => result'[t] = result[t]
    BY <1>2
  <2> QED
    BY <2>1 DEF LifeInv, OutcomeStaysInConversation
<1> QED
  BY <1>3, <1>4, <1>5, <1>6, <1>7 DEF LifeInv

\* Steps of a payload: it settles the Turns of S, if any, and moves on.
LEMMA PayloadLife ==
  ASSUME OwnershipInv, LifeInv, NEW c \in Conversations, running[c] # NoTurn,
         NEW S \in SUBSET chained[c], NEW v \in {None, running[c]}, NEW l,
         v # None => life[running[c]] # "silent",
         l = "silent" => life[running[c]] = "silent",
         Resolve(S, v),
         life' = [life EXCEPT ![running[c]] = l],
         UNCHANGED <<req, running>>,
         \A d \in Conversations : d # c => phase'[d] = phase[d] /\ outcome'[d] = outcome[d],
         Tells(phase'[c], l, outcome'[c], running[c]),
         \A d \in Conversations :
           ToSet(mailbox'[d]) \cup chained'[d] \subseteq ToSet(mailbox[d]) \cup chained[d]
  PROVE  LifeInv'
<1>1. PICK r : r = running[c]
  OBVIOUS
<1>2. /\ r \in Turns /\ r # NoTurn /\ fut[r] = "open" /\ req[r].conversation = c
      /\ \A d \in Conversations : d # c => running[d] # r
      /\ r \notin S
  BY <1>1, RunningFacts
<1>3. \A t \in S : /\ t \in Turns /\ t # r /\ fut[t] = "open" /\ life[t] = "silent"
                   /\ req[t].conversation = c /\ t \in chained[c] /\ t # None
  BY <1>2, WaitingFacts DEF LifeInv, NoTurn, None
<1>4. /\ fut' = [t \in Turns |-> IF t \in S THEN "done" ELSE fut[t]]
      /\ result' = [t \in Turns |-> IF t \in S /\ fut[t] # "done" THEN v ELSE result[t]]
  BY DEF Resolve
<1>5. /\ life \in [Turns -> LifeStages] /\ life'[r] = l
      /\ \A t \in Turns : t # r => life'[t] = life[t]
      /\ \A t \in Turns : life[t] # "silent" => life'[t] # "silent"
  BY <1>1, <1>2 DEF OwnershipInv, TypeOK
<1>6. PhaseTells'
  <2> SUFFICES ASSUME NEW d \in Conversations
               PROVE  Tells(phase[d], life[running[d]], outcome[d], running[d])'
    BY DEF PhaseTells
  <2>1. CASE d = c
    BY <1>1, <1>5, <2>1 DEF Tells
  <2>2. CASE d # c
    <3>1. CASE running[d] = NoTurn
      BY <2>2, <3>1 DEF OwnershipInv, PayloadShape, Tells, Executed
    <3>2. CASE running[d] # NoTurn
      <4>1. life'[running[d]] = life[running[d]]
        BY <1>2, <1>5, <2>2, <3>2 DEF OwnershipInv, TypeOK
      <4> QED
        BY <2>2, <4>1 DEF LifeInv, PhaseTells, Tells
    <3> QED
      BY <3>1, <3>2
  <2> QED
    BY <2>1, <2>2
<1>7. HeardOf'
  BY <1>1, <1>2, <1>4, <1>5 DEF LifeInv, HeardOf
<1>8. InjectsAreUsers'
  BY DEF LifeInv, InjectsAreUsers
<1>9. OpenIsEmpty'
  BY <1>4 DEF LifeInv, OpenIsEmpty
<1>10. TerminalBeforeResult'
  <2> SUFFICES ASSUME NEW t \in Turns, fut'[t] = "done"
               PROVE  life'[t] # "started" /\ (result'[t] = t => life'[t] = "ended")
    BY DEF TerminalBeforeResult
  <2>1. t # r
    BY <1>2, <1>4
  <2>2. CASE t \in S
    BY <1>1, <1>3, <1>4, <1>5, <2>1, <2>2
  <2>3. CASE t \notin S
    BY <1>4, <1>5, <2>1, <2>3 DEF LifeInv, TerminalBeforeResult
  <2> QED
    BY <2>2, <2>3
<1>11. OutcomeStaysInConversation'
  <2> SUFFICES ASSUME NEW t \in Turns, result'[t] # None
               PROVE  /\ life'[result'[t]] # "silent"
                      /\ result'[t] # t =>
                           /\ req'[t].busy = "INJECT"
                           /\ req'[t].origin = "USER"
                           /\ req'[t].conversation = req'[result'[t]].conversation
    BY DEF OutcomeStaysInConversation
  <2>1. CASE t \in S
    <3>1. result'[t] = r /\ life'[r] # "silent"
      BY <1>1, <1>2, <1>3, <1>4, <1>5, <2>1
    <3>2. req[t].busy = "INJECT" /\ req[t].origin = "USER"
      BY <1>3, <2>1 DEF LifeInv, InjectsAreUsers
    <3> QED
      BY <1>2, <1>3, <2>1, <3>1, <3>2
  <2>2. CASE t \notin S
    <3>1. result'[t] = result[t] /\ result[t] \in Turns
      BY <1>4, <2>2 DEF OwnershipInv, TypeOK
    <3> QED
      BY <1>5, <3>1 DEF LifeInv, OutcomeStaysInConversation
  <2> QED
    BY <2>1, <2>2
<1> QED
  BY <1>6, <1>7, <1>8, <1>9, <1>10, <1>11 DEF LifeInv

\* The same when it settles and reports nothing.
LEMMA MoveLife ==
  ASSUME LifeInv, NEW c \in Conversations,
         UNCHANGED <<req, fut, result, life, running, mailbox, chained>>,
         \A d \in Conversations : d # c => phase'[d] = phase[d] /\ outcome'[d] = outcome[d],
         Tells(phase'[c], life[running[c]], outcome'[c], running[c])
  PROVE  LifeInv'
<1>1. PhaseTells'
  BY DEF LifeInv, PhaseTells, Tells
<1>2. HeardOf' /\ OpenIsEmpty' /\ InjectsAreUsers'
  BY DEF LifeInv, HeardOf, OpenIsEmpty, InjectsAreUsers
<1>3. TerminalBeforeResult' /\ OutcomeStaysInConversation'
  BY DEF LifeInv, TerminalBeforeResult, OutcomeStaysInConversation
<1> QED
  BY <1>1, <1>2, <1>3 DEF LifeInv

\* Every action of a payload is one of these.
LEMMA PayloadLifeStep ==
  ASSUME OwnershipInv, LifeInv, NEW c \in Conversations, Payload(c)
  PROVE  LifeInv'
<1> USE DEF handleVars, laneVars
<1>1. PICK r : r = running[c]
  OBVIOUS
<1>2. /\ phase[c] # "none" /\ r # NoTurn /\ r \in Turns
      /\ phase \in [Conversations -> Phases] /\ life \in [Turns -> LifeStages]
      /\ fut \in [Turns -> {"new", "open", "done"}] /\ result \in [Turns -> Turns \cup {None}]
      /\ outcome \in [Conversations -> Turns \cup {None}]
      /\ chained \in [Conversations -> SUBSET Turns]
      /\ mailbox \in [Conversations -> Seq(Turns)]
  <2>1. phase[c] # "none"
    BY DEF Payload, BeginNow, BeginWaiting, Acquire, StartFails, CancelledEarly, Drain,
           RunnerReturns, RunnerRaises, RunnerCancelled, TerminalSent, TerminalCut, TerminalPhases
  <2> QED
    BY <1>1, <2>1 DEF OwnershipInv, PayloadShape, TypeOK
<1>0. PICK l : l = life[r]
  OBVIOUS
<1>3. Tells(phase[c], l, outcome[c], r)
  BY <1>0, <1>1 DEF LifeInv, PhaseTells
<1>4. ASSUME UNCHANGED <<fut, result>>  PROVE {} \in SUBSET chained[c] /\ Resolve({}, None)
  BY <1>2, <1>4 DEF Resolve
<1>5. ASSUME UNCHANGED life  PROVE life' = [life EXCEPT ![running[c]] = l]
  BY <1>0, <1>1, <1>2, <1>5
<1>6. /\ None \in {None, running[c]} /\ running[c] \in {None, running[c]}
      /\ l = "silent" => life[running[c]] = "silent"
  BY <1>0, <1>1
<1>7. CASE BeginNow(c) \/ Acquire(c)
  <2>1. phase[c] \in {"created", "acquiring"} /\ Enter(c)
    BY <1>7 DEF BeginNow, Acquire
  <2>2. /\ life' = [life EXCEPT ![running[c]] = "started"] /\ UNCHANGED <<req, running, outcome>>
        /\ UNCHANGED <<mailbox, chained, fut, result>>
        /\ phase'[c] = "running" /\ \A d \in Conversations : d # c => phase'[d] = phase[d]
    BY <1>2, <2>1 DEF Enter
  <2>3. Tells("running", "started", outcome[c], r)
    BY <1>3, <2>1 DEF Tells, Executed
  <2> QED
    BY <1>1, <1>2, <1>4, <1>6, <2>2, <2>3, PayloadLife
<1>8. CASE BeginWaiting(c)
  <2>1. /\ phase[c] = "created" /\ phase'[c] = "acquiring"
        /\ UNCHANGED <<req, running, outcome, mailbox, chained, fut, result, life>>
        /\ \A d \in Conversations : d # c => phase'[d] = phase[d]
    BY <1>2, <1>8 DEF BeginWaiting
  <2>2. Tells("acquiring", l, outcome[c], r)
    BY <1>3, <2>1 DEF Tells, Executed
  <2> QED
    BY <1>0, <1>1, <2>1, <2>2, MoveLife
<1>9. CASE StartFails(c) \/ CancelledEarly(c)
  <2>1. /\ phase[c] \in {"created", "acquiring"} /\ phase'[c] = "done" /\ outcome'[c] = None
        /\ UNCHANGED <<req, running, mailbox, chained, fut, result, life>>
        /\ \A d \in Conversations : d # c => phase'[d] = phase[d] /\ outcome'[d] = outcome[d]
    BY <1>2, <1>9 DEF StartFails, CancelledEarly, Finish
  <2>2. Tells("done", l, None, r)
    BY <1>3, <2>1 DEF Tells, Executed
  <2> QED
    BY <1>0, <1>1, <2>1, <2>2, MoveLife
<1>10. CASE Drain(c)
  <2>1. /\ UNCHANGED <<req, fut, result, life, running, phase, outcome>>
        /\ chained' = [chained EXCEPT ![c] = @ \cup ToSet(mailbox[c])]
        /\ mailbox' = [mailbox EXCEPT ![c] = <<>>]
    BY <1>10 DEF Drain
  <2>2. \A d \in Conversations :
          ToSet(mailbox'[d]) \cup chained'[d] \subseteq ToSet(mailbox[d]) \cup chained[d]
    BY <1>2, <2>1, EmptySet
  <2> QED
    BY <2>1, <2>2, QuietLife
<1>11. CASE RunnerReturns(c)
  <2>1. /\ phase[c] = "running" /\ phase'[c] = "ending" /\ outcome'[c] = running[c]
        /\ UNCHANGED <<req, running, mailbox, life>>
        /\ Resolve(chained[c], running[c])
        /\ \A d \in Conversations : d # c => phase'[d] = phase[d] /\ outcome'[d] = outcome[d]
        /\ \A d \in Conversations : chained'[d] \subseteq chained[d]
    BY <1>2, <1>11 DEF RunnerReturns
  <2>2. Tells("ending", l, r, r) /\ l # "silent" /\ chained[c] \in SUBSET chained[c]
    BY <1>3, <2>1 DEF Tells, Executed
  <2> QED
    <3>1. life' = [life EXCEPT ![running[c]] = l] /\ life[running[c]] # "silent"
      BY <1>0, <1>1, <1>5, <2>1, <2>2
    <3>2. running[c] # NoTurn /\ Tells(phase'[c], l, outcome'[c], running[c])
      BY <1>1, <1>2, <2>1, <2>2
    <3>3. \A d \in Conversations :
            ToSet(mailbox'[d]) \cup chained'[d] \subseteq ToSet(mailbox[d]) \cup chained[d]
      BY <2>1
    <3> QED
      BY ONLY OwnershipInv, LifeInv, c \in Conversations, <1>6, <2>1, <2>2, <3>1, <3>2, <3>3,
              PayloadLife
<1>12. CASE RunnerRaises(c) \/ RunnerCancelled(c)
  <2>1. /\ phase[c] = "running" /\ phase'[c] \in {"failing", "cancelling"}
        /\ UNCHANGED <<req, running, mailbox, chained, fut, result, life, outcome>>
        /\ \A d \in Conversations : d # c => phase'[d] = phase[d]
    BY <1>2, <1>12 DEF RunnerRaises, RunnerCancelled
  <2>2. Tells(phase'[c], l, outcome[c], r)
    BY <1>3, <2>1 DEF Tells, Executed
  <2> QED
    BY <1>0, <1>1, <2>1, <2>2, MoveLife
<1>13. CASE TerminalSent(c) \/ TerminalCut(c)
  <2>1. /\ phase[c] \in TerminalPhases /\ phase'[c] = "done" /\ UNCHANGED <<req, running, mailbox>>
        /\ Resolve(chained[c], None) /\ chained[c] \in SUBSET chained[c]
        /\ \A d \in Conversations : d # c => phase'[d] = phase[d] /\ outcome'[d] = outcome[d]
        /\ \A d \in Conversations : chained'[d] \subseteq chained[d]
    BY <1>2, <1>13 DEF TerminalSent, TerminalCut, Finish
  <2>2. PICK e : /\ life' = [life EXCEPT ![running[c]] = e] /\ e \notin {"silent", "started"}
                 /\ outcome'[c] # None => outcome'[c] = outcome[c] /\ e = TerminalEvent(phase[c])
    <3>1. CASE TerminalSent(c)
      <4>1. /\ life' = [life EXCEPT ![running[c]] = TerminalEvent(phase[c])]
            /\ outcome'[c] = outcome[c]
        BY <1>2, <3>1 DEF TerminalSent, Finish
      <4>2. TerminalEvent(phase[c]) \notin {"silent", "started"}
        BY <2>1 DEF TerminalEvent, TerminalPhases
      <4> QED
        BY <4>1, <4>2
    <3>2. CASE TerminalCut(c)
      <4>1. life' = [life EXCEPT ![running[c]] = "cut"] /\ outcome'[c] = None
        BY <1>2, <3>2 DEF TerminalCut, Finish
      <4>2. "cut" \notin {"silent", "started"}
        OBVIOUS
      <4> QED
        BY <4>1, <4>2, Zenon
    <3> QED
      BY <1>13, <3>1, <3>2
  <2>3. Tells("done", e, outcome'[c], r)
    BY <1>3, <2>1, <2>2 DEF Tells, Executed, TerminalEvent, TerminalPhases
  <2> QED
    BY <1>1, <1>2, <1>6, <2>1, <2>2, <2>3, PayloadLife
<1> QED
  BY <1>7, <1>8, <1>9, <1>10, <1>11, <1>12, <1>13 DEF Payload

\* Scheduler.submit: the new Turn is unknown to the sink, and only a USER
\* request can end in the mailbox.
LEMMA SubmitLife ==
  ASSUME OwnershipInv, LifeInv, NEW c \in Conversations, NEW o \in Origins,
         NEW b \in BusyPolicies, Submit(c, o, b)
  PROVE  LifeInv'
<1>1. PICK n : n = accepted + 1
  OBVIOUS
<1>2. /\ n \in Turns /\ fut[n] = "new" /\ life[n] = "silent" /\ result[n] = None
      /\ req \in [Turns -> Request \cup {NoRequest}]
      /\ fut \in [Turns -> {"new", "open", "done"}]
      /\ mailbox \in [Conversations -> Seq(Turns)]
  <2>1. n \in Turns /\ n > accepted
    BY <1>1, ConstantsAssumption DEF Submit, OwnershipInv, TypeOK, Turns
  <2>2. fut[n] = "new"
    BY <2>1 DEF OwnershipInv, OneOwner
  <2> QED
    BY <2>1, <2>2 DEF LifeInv, HeardOf, OpenIsEmpty, OwnershipInv, TypeOK
<1>3. /\ UNCHANGED <<result, life, running, phase, outcome, chained>>
      /\ fut' = [fut EXCEPT ![n] = "open"]
      /\ \A t \in Turns : t # n => req'[t] = req[t]
      /\ req'[n] = [conversation |-> c, origin |-> o, busy |-> effective_busy(o, b)]
      /\ Place(c, n, effective_busy(o, b))
  BY <1>1, <1>2 DEF Submit
<1>4. PhaseTells' /\ OpenIsEmpty'
  BY <1>2, <1>3 DEF LifeInv, PhaseTells, Tells, OpenIsEmpty
<1>5. HeardOf'
  BY <1>2, <1>3 DEF LifeInv, HeardOf
<1>6. InjectsAreUsers'
  <2> SUFFICES ASSUME NEW d \in Conversations, NEW t \in ToSet(mailbox'[d]) \cup chained[d]
               PROVE  req'[t].busy = "INJECT" /\ req'[t].origin = "USER"
    BY <1>3 DEF InjectsAreUsers
  <2>1. CASE t \in ToSet(mailbox[d]) \cup chained[d]
    <3>1. t \in Turns /\ fut[t] = "open"
      BY <2>1, WaitingFacts DEF LifeInv
    <3> QED
      BY <1>2, <1>3, <2>1, <3>1 DEF LifeInv, InjectsAreUsers
  <2>2. CASE t \notin ToSet(mailbox[d]) \cup chained[d]
    <3>1. PlaceInject(c, n) /\ effective_busy(o, b) = "INJECT"
      BY <1>3, <2>2 DEF Place, PlaceInterrupt, PlaceAppend
    <3>2. d = c
      BY <1>2, <2>2, <3>1 DEF PlaceInject
    <3>3. ToSet(mailbox'[c]) = ToSet(mailbox[c]) \cup {n}
      BY <1>2, <3>1, AppendSet DEF PlaceInject
    <3>4. t = n
      BY <2>2, <3>2, <3>3
    <3> QED
      BY <1>3, <3>1, <3>4 DEF effective_busy
  <2> QED
    BY <2>1, <2>2
<1>7. TerminalBeforeResult'
  BY <1>2, <1>3 DEF LifeInv, TerminalBeforeResult
<1>8. OutcomeStaysInConversation'
  <2> SUFFICES ASSUME NEW t \in Turns, result[t] # None
               PROVE  /\ life[result[t]] # "silent"
                      /\ result[t] # t =>
                           /\ req'[t].busy = "INJECT"
                           /\ req'[t].origin = "USER"
                           /\ req'[t].conversation = req'[result[t]].conversation
    BY <1>3 DEF OutcomeStaysInConversation
  <2>1. t # n /\ life[result[t]] # "silent" /\ result[t] \in Turns
    BY <1>2 DEF LifeInv, OutcomeStaysInConversation, OwnershipInv, TypeOK
  <2>2. result[t] # n
    BY <1>2, <2>1
  <2>3. req'[t] = req[t] /\ req'[result[t]] = req[result[t]]
    BY <1>3, <2>1, <2>2
  <2> QED
    BY <2>3 DEF LifeInv, OutcomeStaysInConversation
<1> QED
  BY <1>4, <1>5, <1>6, <1>7, <1>8 DEF LifeInv

\* The worker takes the next Turn from its backlog q, if there is one.
LEMMA TakeNextTells ==
  ASSUME OwnershipInv, LifeInv, NEW c \in Conversations, NEW q \in Seq(Turns), TakeNext(c, q),
         ToSet(q) \subseteq ToSet(pending[c]) \cup ToSet(mailbox[c]), UNCHANGED life
  PROVE  /\ PhaseTells'
         /\ \A d \in Conversations : d # c => running'[d] = running[d]
<1>1. /\ phase \in [Conversations -> Phases] /\ outcome \in [Conversations -> Turns \cup {None}]
      /\ running \in [Conversations -> Turns \cup {NoTurn}]
  BY DEF OwnershipInv, TypeOK
<1>2. /\ \A d \in Conversations : d # c => /\ phase'[d] = phase[d] /\ running'[d] = running[d]
                                           /\ outcome'[d] = outcome[d]
      /\ outcome'[c] = None
  BY <1>1 DEF TakeNext
<1>3. phase'[c] = "none" \/ (phase'[c] = "created" /\ life[running'[c]] = "silent")
  <2>1. CASE q # <<>>
    <3>1. Head(q) \in ToSet(q)
      BY <2>1 DEF ToSet
    <3>2. life[Head(q)] = "silent"
      BY <3>1, WaitingFacts DEF LifeInv
    <3> QED
      BY <1>1, <2>1, <3>2 DEF TakeNext
  <2>2. CASE q = <<>>
    BY <1>1, <2>2 DEF TakeNext
  <2> QED
    BY <2>1, <2>2
<1> QED
  BY <1>2, <1>3 DEF LifeInv, PhaseTells, Tells, Executed

\* The two steps of a worker.
LEMMA WorkerLife ==
  ASSUME OwnershipInv, LifeInv, NEW c \in Conversations, Worker(c)
  PROVE  LifeInv'
<1>1. /\ pending[c] \in Seq(Turns) /\ mailbox \in [Conversations -> Seq(Turns)]
      /\ mailbox[c] \in Seq(Turns)
      /\ fut \in [Turns -> {"new", "open", "done"}] /\ result \in [Turns -> Turns \cup {None}]
  BY DEF OwnershipInv, TypeOK
<1>2. CASE WorkerStart(c)
  <2>1. /\ UNCHANGED <<req, fut, result, life, mailbox, chained>> /\ running[c] = NoTurn
        /\ TakeNext(c, pending[c])
    BY <1>2 DEF WorkerStart, handleVars, OwnershipInv, NoStrandedWork
  <2>2. PhaseTells' /\ \A d \in Conversations : d # c => running'[d] = running[d]
    BY <1>1, <2>1, TakeNextTells
  <2>3. HeardOf'
    BY <2>1, <2>2 DEF LifeInv, HeardOf, Turns, NoTurn
  <2>4. OpenIsEmpty' /\ InjectsAreUsers'
    BY <2>1 DEF LifeInv, OpenIsEmpty, InjectsAreUsers
  <2>5. TerminalBeforeResult' /\ OutcomeStaysInConversation'
    BY <2>1 DEF LifeInv, TerminalBeforeResult, OutcomeStaysInConversation
  <2> QED
    BY <2>2, <2>3, <2>4, <2>5 DEF LifeInv
<1>3. CASE WorkerResume(c)
  <2>1. PICK r, v : r = running[c] /\ v = outcome[c]
    OBVIOUS
  <2>2. PICK q : q = pending[c] \o mailbox[c]
    OBVIOUS
  <2>3. /\ UNCHANGED <<req, life, chained>> /\ TakeNext(c, q) /\ phase[c] = "done"
        /\ fut' = [t \in Turns |-> IF t = r THEN "done" ELSE fut[t]]
        /\ result' = [t \in Turns |-> IF t = r /\ fut[t] # "done" THEN v ELSE result[t]]
        /\ mailbox' = [mailbox EXCEPT ![c] = <<>>]
    BY <1>3, <2>1, <2>2 DEF WorkerResume, Resolve
  <2>4. /\ r # NoTurn /\ r \in Turns /\ fut[r] = "open"
        /\ \A d \in Conversations : d # c => running[d] # r
    <3>1. r # NoTurn
      BY <2>1, <2>3 DEF OwnershipInv, PayloadShape
    <3> QED
      BY <2>1, <3>1, RunningFacts
  <2>5. life[r] # "started" /\ (v # None => v = r /\ life[r] = "ended")
    BY <2>1, <2>3 DEF LifeInv, PhaseTells, Tells
  <2>6. q \in Seq(Turns) /\ ToSet(q) = ToSet(pending[c]) \cup ToSet(mailbox[c])
    BY <1>1, <2>2, ConcatSet, ConcatIndex
  <2>7. PhaseTells' /\ \A d \in Conversations : d # c => running'[d] = running[d]
    BY <2>3, <2>6, TakeNextTells
  <2>8. HeardOf'
    BY <2>1, <2>3, <2>4, <2>7 DEF LifeInv, HeardOf
  <2>9. OpenIsEmpty'
    BY <2>3 DEF LifeInv, OpenIsEmpty
  <2>10. InjectsAreUsers'
    BY <1>1, <2>3, EmptySet DEF LifeInv, InjectsAreUsers
  <2>11. TerminalBeforeResult'
    BY <1>1, <2>3, <2>4, <2>5 DEF LifeInv, TerminalBeforeResult, None, Turns
  <2>12. OutcomeStaysInConversation'
    BY <1>1, <2>3, <2>4, <2>5 DEF LifeInv, OutcomeStaysInConversation
  <2> QED
    BY <2>7, <2>8, <2>9, <2>10, <2>11, <2>12 DEF LifeInv
<1> QED
  BY <1>2, <1>3 DEF Worker

\* The Turns that a caller's cancellation or a drain withdraws.
LEMMA WithdrawnTurns ==
  ASSUME OwnershipInv,
         \/ \E t \in Turns : CancelTurn(t) /\ (CancelQueued(t) \/ CancelMailboxed(t))
         \/ \E L \in SUBSET Conversations : DrainPending(L)
  PROVE  /\ \A c \in Conversations : /\ ToSet(mailbox'[c]) \subseteq ToSet(mailbox[c])
                                     /\ ToSet(pending'[c]) \subseteq ToSet(pending[c])
         /\ \E S : /\ Resolve(S, None)
                   /\ \A t \in S : \E c \in Conversations :
                        t \in ToSet(pending[c]) \cup ToSet(mailbox[c])
<1>0. /\ pending \in [Conversations -> Seq(Turns)] /\ mailbox \in [Conversations -> Seq(Turns)]
      /\ \A d \in Conversations : PlacesDisjoint(d)
  BY DEF OwnershipInv, TypeOK, OneOwner
<1>1. ASSUME NEW t \in Turns, CancelTurn(t), CancelQueued(t) \/ CancelMailboxed(t)
      PROVE  /\ \A d \in Conversations : /\ ToSet(mailbox'[d]) \subseteq ToSet(mailbox[d])
                                         /\ ToSet(pending'[d]) \subseteq ToSet(pending[d])
             /\ Resolve({t}, None)
             /\ \E c \in Conversations : t \in ToSet(pending[c]) \cup ToSet(mailbox[c])
  <2>1. PICK c \in Conversations : c = req[t].conversation
    <3>1. fut[t] = "open"
      BY <1>1 DEF CancelTurn
    <3> QED
      BY <3>1 DEF OwnershipInv, OneOwner
  <2>2. CASE CancelQueued(t)
    <3>1. PICK i \in DOMAIN pending[c] :
            pending[c][i] = t /\ pending' = [pending EXCEPT ![c] = RemoveAt(pending[c], i)]
      BY <2>1, <2>2 DEF CancelQueued
    <3>2. t \in ToSet(pending[c]) /\ i \in 1 .. Len(pending[c])
      BY <1>0, <3>1 DEF ToSet
    <3>3. ToSet(RemoveAt(pending[c], i)) \subseteq ToSet(pending[c])
      BY <1>0, <3>2, RemoveAtSet DEF PlacesDisjoint
    <3>4. Resolve({t}, None) /\ mailbox' = mailbox
      BY <2>2 DEF CancelQueued
    <3> QED
      BY <1>0, <3>1, <3>2, <3>3, <3>4
  <2>3. CASE CancelMailboxed(t)
    <3>1. PICK i \in DOMAIN mailbox[c] :
            mailbox[c][i] = t /\ mailbox' = [mailbox EXCEPT ![c] = RemoveAt(mailbox[c], i)]
      BY <2>1, <2>3 DEF CancelMailboxed
    <3>2. t \in ToSet(mailbox[c]) /\ i \in 1 .. Len(mailbox[c])
      BY <1>0, <3>1 DEF ToSet
    <3>3. ToSet(RemoveAt(mailbox[c], i)) \subseteq ToSet(mailbox[c])
      BY <1>0, <3>2, RemoveAtSet DEF PlacesDisjoint
    <3>4. Resolve({t}, None) /\ pending' = pending
      BY <2>3 DEF CancelMailboxed
    <3> QED
      BY <1>0, <3>1, <3>2, <3>3, <3>4
  <2> QED
    BY <1>1, <2>2, <2>3
<1>2. ASSUME NEW L \in SUBSET Conversations, DrainPending(L)
      PROVE  /\ \A c \in Conversations : /\ ToSet(mailbox'[c]) \subseteq ToSet(mailbox[c])
                                         /\ ToSet(pending'[c]) \subseteq ToSet(pending[c])
             /\ \E S : /\ Resolve(S, None)
                       /\ \A t \in S : \E c \in Conversations :
                            t \in ToSet(pending[c]) \cup ToSet(mailbox[c])
  <2>1. PICK S : S = UNION {ToSet(pending[c]) \cup ToSet(mailbox[c]) : c \in L}
    OBVIOUS
  <2>2. Resolve(S, None)
    BY <1>2, <2>1 DEF DrainPending
  <2>3. \A t \in S : \E c \in Conversations : t \in ToSet(pending[c]) \cup ToSet(mailbox[c])
    BY <2>1
  <2>4. \A c \in Conversations : /\ ToSet(mailbox'[c]) \subseteq ToSet(mailbox[c])
                                 /\ ToSet(pending'[c]) \subseteq ToSet(pending[c])
    BY <1>2, EmptySet DEF DrainPending
  <2> QED
    BY <2>2, <2>3, <2>4
<1> QED
  <2>1. CASE \E t \in Turns : CancelTurn(t) /\ (CancelQueued(t) \/ CancelMailboxed(t))
    <3>1. PICK t \in Turns : CancelTurn(t) /\ (CancelQueued(t) \/ CancelMailboxed(t))
      BY <2>1
    <3>2. PICK S : S = {t}
      OBVIOUS
    <3>3. /\ Resolve(S, None)
          /\ \A u \in S : \E c \in Conversations : u \in ToSet(pending[c]) \cup ToSet(mailbox[c])
          /\ \A c \in Conversations : /\ ToSet(mailbox'[c]) \subseteq ToSet(mailbox[c])
                                       /\ ToSet(pending'[c]) \subseteq ToSet(pending[c])
      BY <1>1, <3>1, <3>2
    <3> QED
      BY <3>3, Zenon
  <2> QED
    BY <1>2, <2>1

\* At the start nothing has happened.
LEMMA InitLife == Init => LifeInv
<1> SUFFICES ASSUME Init PROVE LifeInv
  OBVIOUS
<1>1. PhaseTells /\ HeardOf /\ OpenIsEmpty
  BY DEF Init, PhaseTells, Tells, Executed, HeardOf, OpenIsEmpty
<1>2. InjectsAreUsers
  BY EmptySet DEF Init, InjectsAreUsers
<1>3. TerminalBeforeResult /\ OutcomeStaysInConversation
  BY DEF Init, TerminalBeforeResult, OutcomeStaysInConversation
<1> QED
  BY <1>1, <1>2, <1>3 DEF LifeInv

\* Every step keeps the lifecycle.
LEMMA NextLife == OwnershipInv /\ LifeInv /\ [Next]_vars => LifeInv'
<1> SUFFICES ASSUME OwnershipInv, LifeInv, [Next]_vars PROVE LifeInv'
  OBVIOUS
<1> USE DEF handleVars, laneVars, payloadVars, shutdownVars
<1>1. ASSUME UNCHANGED <<req, fut, result, life, running, phase, outcome, mailbox, chained>>
      PROVE  LifeInv'
  BY <1>1, QuietLife
<1>2. ASSUME NEW t \in Turns, CancelTurn(t)  PROVE LifeInv'
  <2>1. CASE CancelRunning(t)
    BY <1>1, <1>2, <2>1 DEF CancelTurn, CancelRunning
  <2>2. CASE CancelQueued(t) \/ CancelMailboxed(t)
    <3>1. UNCHANGED <<req, life, running, phase, outcome, chained>>
      BY <1>2 DEF CancelTurn
    <3> QED
      BY <1>2, <2>2, <3>1, WithdrawnTurns, WithdrawLife
  <2> QED
    BY <1>2, <2>1, <2>2 DEF CancelTurn
<1>3. ASSUME NEW L \in SUBSET Conversations, DrainPending(L),
             UNCHANGED <<req, life, running, phase, outcome, chained>>
      PROVE  LifeInv'
  BY <1>3, WithdrawnTurns, WithdrawLife
<1>4. CASE Callers
  <2>1. ASSUME NEW c \in Conversations, CancelConversation(c)  PROVE LifeInv'
    <3>1. {c} \in SUBSET Conversations
      OBVIOUS
    <3> QED
      BY <1>3, <2>1, <3>1 DEF CancelConversation
  <2>2. CASE Seal
    BY <1>1, <2>2 DEF Seal
  <2> QED
    BY <1>2, <1>4, <2>1, <2>2, SubmitLife DEF Callers
<1>5. CASE Shutdown
  <2>1. CASE DrainLanes
    <3>1. lanes \in SUBSET Conversations
      BY DEF OwnershipInv, TypeOK
    <3> QED
      BY <1>3, <2>1, <3>1 DEF DrainLanes
  <2>2. CASE CollectRunning \/ GraceEnds \/ CascadeEnds
    BY <1>1, <2>2 DEF CollectRunning, GraceEnds, CascadeEnds
  <2> QED
    BY <1>5, <2>1, <2>2 DEF Shutdown
<1>6. CASE Sweep
  BY <1>1, <1>6 DEF Sweep
<1>7. CASE Stopped \/ UNCHANGED vars
  BY <1>1, <1>7 DEF Stopped, vars
<1> QED
  BY <1>4, <1>5, <1>6, <1>7, WorkerLife, PayloadLifeStep DEF Next

\* A Turn whose start the sink saw is resolved only after its terminal event,
\* and a Turn keeps an outcome of its own only if that event was TurnEnded:
\* neither a cancellation nor a failure of the sink can overtake it.
THEOREM TerminalComesFirst == Safety => []TerminalBeforeResult
<1>1. LifeInv => TerminalBeforeResult
  BY DEF LifeInv
<1> QED
  BY <1>1, InitOwner, NextOwner, InitLife, NextLife, PTL DEF Safety

\* The outcome of a Turn reaches nobody but that Turn and the USER injects that
\* were merged into it in the same conversation.
THEOREM OutcomesStayHome == Safety => []OutcomeStaysInConversation
<1>1. LifeInv => OutcomeStaysInConversation
  BY DEF LifeInv
<1> QED
  BY <1>1, InitOwner, NextOwner, InitLife, NextLife, PTL DEF Safety

-----------------------------------------------------------------------------
(* Shutdown. *)

\* Steps that leave the shutdown task alone, add nothing to an empty lane and
\* start nothing there.
LEMMA KeepsShutdown ==
  ASSUME ShutdownInv, UNCHANGED <<draining, shutdown, awaited>>,
         reaper' = "none" \/ reaper' = reaper,
         \A c \in Conversations : pending[c] = <<>> /\ mailbox[c] = <<>> =>
           /\ pending'[c] = <<>> /\ mailbox'[c] = <<>>
           /\ running'[c] \in {running[c], NoTurn}
  PROVE  ShutdownInv'
BY DEF ShutdownInv

\* A worker, a payload and a cancellation only take out of a lane.
LEMMA LanesShrink ==
  ASSUME OwnershipInv, NEW c \in Conversations,
         pending[c] = <<>> /\ mailbox[c] = <<>>,
         \/ \E d \in Conversations : Worker(d) \/ Payload(d) \/ CancelConversation(d)
         \/ \E t \in Turns : CancelTurn(t)
  PROVE  /\ pending'[c] = <<>> /\ mailbox'[c] = <<>> /\ running'[c] \in {running[c], NoTurn}
         /\ UNCHANGED shutdownVars
<1>1. /\ pending \in [Conversations -> Seq(Turns)] /\ mailbox \in [Conversations -> Seq(Turns)]
      /\ running \in [Conversations -> Turns \cup {NoTurn}]
  BY DEF OwnershipInv, TypeOK
<1>2. ASSUME NEW d \in Conversations, Worker(d)
      PROVE  /\ pending'[c] = <<>> /\ mailbox'[c] = <<>> /\ running'[c] \in {running[c], NoTurn}
             /\ UNCHANGED shutdownVars
  <2>1. PICK q : /\ q = pending[d] \/ q = pending[d] \o mailbox[d]
                 /\ TakeNext(d, q) /\ UNCHANGED shutdownVars
                 /\ mailbox' = mailbox \/ mailbox' = [mailbox EXCEPT ![d] = <<>>]
    BY <1>2 DEF Worker, WorkerStart, WorkerResume
  <2>2. d = c => q = <<>>
    <3>1. <<>> \o <<>> = <<>>
      OBVIOUS
    <3> QED
      BY <2>1, <3>1
  <2> QED
    BY <1>1, <2>1, <2>2 DEF TakeNext
<1>3. ASSUME NEW d \in Conversations, Payload(d)
      PROVE  /\ pending'[c] = <<>> /\ mailbox'[c] = <<>> /\ running'[c] \in {running[c], NoTurn}
             /\ UNCHANGED shutdownVars
  <2>1. /\ UNCHANGED <<pending, running, shutdownVars>>
        /\ mailbox' = mailbox \/ mailbox' = [mailbox EXCEPT ![d] = <<>>]
    BY <1>3 DEF Payload, BeginNow, BeginWaiting, Acquire, Enter, StartFails, CancelledEarly, Drain,
                RunnerReturns, RunnerRaises, RunnerCancelled, TerminalSent, TerminalCut, laneVars
  <2> QED
    BY <1>1, <2>1
<1>4. ASSUME NEW d \in Conversations, CancelConversation(d)
      PROVE  /\ pending'[c] = <<>> /\ mailbox'[c] = <<>> /\ running'[c] \in {running[c], NoTurn}
             /\ UNCHANGED shutdownVars
  BY <1>1, <1>4 DEF CancelConversation, DrainPending
<1>5. ASSUME NEW t \in Turns, CancelTurn(t)
      PROVE  /\ pending'[c] = <<>> /\ mailbox'[c] = <<>> /\ running'[c] \in {running[c], NoTurn}
             /\ UNCHANGED shutdownVars
  <2>1. UNCHANGED <<running, shutdownVars>>
    BY <1>5 DEF CancelTurn
  <2>2. CASE CancelRunning(t)
    BY <2>1, <2>2 DEF CancelRunning
  <2>3. CASE CancelQueued(t)
    <3>1. PICK d, i : /\ i \in DOMAIN pending[d] /\ mailbox' = mailbox
                      /\ pending' = [pending EXCEPT ![d] = RemoveAt(pending[d], i)]
      BY <2>3 DEF CancelQueued
    <3>2. d # c
      BY <3>1
    <3> QED
      BY <1>1, <2>1, <3>1, <3>2
  <2>4. CASE CancelMailboxed(t)
    <3>1. PICK d, i : /\ i \in DOMAIN mailbox[d] /\ pending' = pending
                      /\ mailbox' = [mailbox EXCEPT ![d] = RemoveAt(mailbox[d], i)]
      BY <2>4 DEF CancelMailboxed
    <3>2. d # c
      BY <3>1
    <3> QED
      BY <1>1, <2>1, <3>1, <3>2
  <2> QED
    BY <1>5, <2>2, <2>3, <2>4 DEF CancelTurn
<1> QED
  BY <1>2, <1>3, <1>4, <1>5

\* The future of a running Turn is not done, and its lane is registered.
LEMMA RunningIsOpen ==
  ASSUME OwnershipInv, NEW c \in Conversations, running[c] # NoTurn
  PROVE  c \in lanes /\ fut[running[c]] # "done"
<1>1. Held(c) # {}
  BY DEF Held
<1> QED
  BY <1>1, RunningFacts DEF OwnershipInv, NoStrandedWork

\* The steps of the shutdown task.
LEMMA ShutdownSteps ==
  ASSUME OwnershipInv, ShutdownInv, Shutdown
  PROVE  ShutdownInv'
<1> USE DEF handleVars, laneVars, payloadVars
<1>1. ASSUME Collect, UNCHANGED <<lanes, running>>
      PROVE  /\ \A c \in Conversations : running'[c] # NoTurn => running'[c] \in awaited'
             /\ shutdown' \in {"grace", "finished"} /\ (shutdown' = "finished" => awaited' = {})
  <2>1. \A c \in Conversations : running[c] # NoTurn => running[c] \in awaited'
    BY <1>1, RunningIsOpen DEF Collect
  <2> QED
    BY <1>1, <2>1 DEF Collect
<1>2. CASE DrainLanes
  <2>1. /\ shutdown = "sealed" /\ draining' = draining /\ UNCHANGED <<lanes, running>>
        /\ DrainPending(lanes) /\ reaper' = "none"
        /\ shutdown' = "reaped" \/ Collect
    BY <1>2 DEF DrainLanes
  <2>2. ASSUME NEW c \in Conversations  PROVE pending'[c] = <<>> /\ mailbox'[c] = <<>>
    <3>1. CASE c \in lanes
      BY <2>1, <3>1 DEF DrainPending
    <3>2. CASE c \notin lanes
      <4>1. ToSet(pending[c]) = {} /\ ToSet(mailbox[c]) = {}
        BY <3>2 DEF OwnershipInv, NoStrandedWork, Held
      <4>2. pending[c] = <<>> /\ mailbox[c] = <<>>
        BY <4>1, EmptySet DEF OwnershipInv, TypeOK
      <4> QED
        BY <2>1, <3>2, <4>2 DEF DrainPending
    <3> QED
      BY <3>1, <3>2
  <2> QED
    BY <1>1, <2>1, <2>2 DEF ShutdownInv
<1>3. CASE CollectRunning
  BY <1>1, <1>3 DEF CollectRunning, ShutdownInv
<1>4. CASE GraceEnds
  <2>1. /\ shutdown = "grace" /\ UNCHANGED <<draining, reaper, pending, mailbox, running>>
        /\ awaited' = {t \in awaited : fut[t] # "done"}
        /\ shutdown' \in {"finished", "cascade"} /\ (shutdown' = "finished" => awaited' = {})
    BY <1>4 DEF GraceEnds
  <2>2. \A c \in Conversations : running[c] # NoTurn => running[c] \in awaited'
    BY <2>1, RunningIsOpen DEF ShutdownInv
  <2> QED
    BY <2>1, <2>2 DEF ShutdownInv
<1>5. CASE CascadeEnds
  <2>1. /\ shutdown = "cascade" /\ UNCHANGED <<draining, reaper, pending, mailbox, running>>
        /\ awaited' = {} /\ shutdown' = "finished" /\ \A t \in awaited : fut[t] = "done"
    BY <1>5 DEF CascadeEnds
  <2>2. \A c \in Conversations : running[c] = NoTurn
    BY <2>1, RunningIsOpen DEF ShutdownInv
  <2> QED
    BY <2>1, <2>2 DEF ShutdownInv
<1> QED
  BY <1>2, <1>3, <1>4, <1>5 DEF Shutdown

\* Every step keeps what the shutdown relies on.
LEMMA NextShutdown == OwnershipInv /\ ShutdownInv /\ [Next]_vars => ShutdownInv'
<1> SUFFICES ASSUME OwnershipInv, ShutdownInv, [Next]_vars PROVE ShutdownInv'
  OBVIOUS
<1> USE DEF handleVars, laneVars, payloadVars, shutdownVars
<1>1. ASSUME NEW c \in Conversations, NEW o \in Origins, NEW b \in BusyPolicies, Submit(c, o, b)
      PROVE  ShutdownInv'
  BY <1>1 DEF Submit, ShutdownInv
<1>2. CASE \/ \E d \in Conversations : Worker(d) \/ Payload(d) \/ CancelConversation(d)
           \/ \E t \in Turns : CancelTurn(t)
  <2>1. UNCHANGED <<draining, shutdown, awaited, reaper>>
    BY <1>2 DEF Worker, WorkerStart, WorkerResume, CancelConversation, CancelTurn, Payload,
                BeginNow, BeginWaiting, Acquire, Enter, StartFails, CancelledEarly, Drain,
                RunnerReturns, RunnerRaises, RunnerCancelled, TerminalSent, TerminalCut
  <2> QED
    BY <1>2, <2>1, LanesShrink, KeepsShutdown
<1>3. CASE Seal
  BY <1>3 DEF Seal, ShutdownInv
<1>4. CASE Sweep
  <2>1. UNCHANGED <<draining, shutdown, awaited, pending, mailbox, running>> /\ reaper = "sleeping"
    BY <1>4 DEF Sweep
  <2> QED
    BY <2>1 DEF ShutdownInv
<1>5. CASE Stopped \/ UNCHANGED vars
  BY <1>5, KeepsShutdown DEF Stopped, vars
<1> QED
  BY <1>1, <1>2, <1>3, <1>4, <1>5, ShutdownSteps DEF Next, Callers

\* When shutdown returns every handle is resolved and nothing is queued, merged
\* or running in any lane, registered or not, although the task looks at the
\* lanes only twice and the payloads and workers run between its steps.
THEOREM ShutdownIsComplete == Safety => []ShutdownLeavesNothing
<1>1. Init => ShutdownInv
  BY DEF Init, ShutdownInv
<1>2. OwnershipInv /\ ShutdownInv => ShutdownLeavesNothing
  <2> SUFFICES ASSUME OwnershipInv, ShutdownInv, shutdown = "finished"
               PROVE  /\ \A t \in Turns : fut[t] # "open"
                      /\ \A c \in Conversations : Held(c) = {}
                      /\ reaper = "none"
    BY DEF ShutdownLeavesNothing
  <2>1. reaper = "none" /\ \A c \in Conversations : /\ pending[c] = <<>> /\ mailbox[c] = <<>>
                                                    /\ running[c] = NoTurn
    BY DEF ShutdownInv
  <2>2. \A c \in Conversations : chained[c] = {}
    BY <2>1 DEF OwnershipInv, NoStrandedWork
  <2>3. \A c \in Conversations : Held(c) = {}
    BY <2>1, <2>2, EmptySet DEF Held
  <2> QED
    BY <2>1, <2>3 DEF OwnershipInv, OneOwner
<1> QED
  BY <1>1, <1>2, InitOwner, NextOwner, NextShutdown, PTL DEF Safety

-----------------------------------------------------------------------------
(* The order of the queue. *)

\* Two APPEND Turns in the order of their submission.
Before(t, u) == req[t].busy = "APPEND" /\ req[u].busy = "APPEND" => t < u

InOrder(q) == \A i, j \in DOMAIN q : i < j => Before(q[i], q[j])

\* AppendOrder, lane by lane.
LEMMA OrderByLane ==
  AppendOrder <=> \A c \in Conversations :
                    /\ InOrder(pending[c])
                    /\ running[c] # NoTurn => \A t \in ToSet(pending[c]) : Before(running[c], t)
BY DEF AppendOrder, InOrder, Before, ToSet

\* Taking the head of a backlog that is in order.
LEMMA TakeNextOrder ==
  ASSUME OwnershipInv, AppendOrder, NEW c \in Conversations, NEW q \in Seq(Turns), InOrder(q),
         TakeNext(c, q), UNCHANGED req
  PROVE  AppendOrder'
<1>1. /\ pending \in [Conversations -> Seq(Turns)]
      /\ running \in [Conversations -> Turns \cup {NoTurn}]
  BY DEF OwnershipInv, TypeOK
<1>2. ASSUME NEW d \in Conversations, d # c
      PROVE  pending'[d] = pending[d] /\ running'[d] = running[d]
  BY <1>1, <1>2 DEF TakeNext
<1>3. /\ InOrder(pending'[c])
      /\ running'[c] # NoTurn => \A t \in ToSet(pending'[c]) : Before(running'[c], t)
  <2>1. CASE q = <<>>
    BY <1>1, <2>1 DEF TakeNext, InOrder
  <2>2. CASE q # <<>>
    <3>1. pending'[c] = Tail(q) /\ running'[c] = q[1]
      BY <1>1, <2>2 DEF TakeNext
    <3>2. /\ Len(q) \in Nat /\ Len(q) > 0 /\ DOMAIN q = 1 .. Len(q)
          /\ DOMAIN Tail(q) = 1 .. Len(q) - 1
          /\ \A i \in 1 .. Len(q) - 1 : Tail(q)[i] = q[i + 1]
      BY <2>2
    <3>3. InOrder(Tail(q))
      BY <3>2 DEF InOrder
    <3>4. \A t \in ToSet(Tail(q)) : Before(q[1], t)
      BY <3>2 DEF InOrder, ToSet
    <3> QED
      BY <3>1, <3>3, <3>4
  <2> QED
    BY <2>1, <2>2
<1> QED
  BY <1>2, <1>3, OrderByLane DEF AppendOrder, InOrder, Before, ToSet

\* The two steps of a worker; the injects it requeues are no APPEND Turns.
LEMMA WorkerOrder ==
  ASSUME OwnershipInv, InjectsAreUsers, AppendOrder, NEW c \in Conversations, Worker(c)
  PROVE  AppendOrder'
<1>1. pending[c] \in Seq(Turns) /\ mailbox[c] \in Seq(Turns) /\ InOrder(pending[c])
  BY OrderByLane DEF OwnershipInv, TypeOK
<1>2. CASE WorkerStart(c)
  BY <1>1, <1>2, TakeNextOrder DEF WorkerStart, handleVars
<1>3. CASE WorkerResume(c)
  <2>1. PICK q, p, m, n : q = p \o m /\ p = pending[c] /\ m = mailbox[c] /\ n = Len(p)
    OBVIOUS
  <2>0. p \in Seq(Turns) /\ m \in Seq(Turns) /\ InOrder(p)
    BY <1>1, <2>1
  <2>2. /\ n \in Nat /\ DOMAIN p = 1 .. n /\ DOMAIN m = 1 .. Len(m) /\ Len(m) \in Nat
        /\ q \in Seq(Turns) /\ DOMAIN q = 1 .. n + Len(m)
        /\ \A i \in 1 .. n : q[i] = p[i]
        /\ \A i \in 1 .. Len(m) : q[n + i] = m[i]
    <3>1. Len(p) \in Nat /\ DOMAIN p = 1 .. Len(p) /\ DOMAIN m = 1 .. Len(m) /\ Len(m) \in Nat
      BY ONLY <2>0
    <3>2. /\ p \o m \in Seq(Turns) /\ DOMAIN (p \o m) = 1 .. Len(p) + Len(m)
          /\ \A i \in 1 .. Len(p) : (p \o m)[i] = p[i]
          /\ \A i \in 1 .. Len(m) : (p \o m)[Len(p) + i] = m[i]
      BY ONLY <2>0, ConcatIndex
    <3> QED
      BY ONLY <2>1, <3>1, <3>2
  <2>3. ASSUME NEW j \in DOMAIN q, j > n  PROVE req[q[j]].busy # "APPEND"
    <3>1. PICK k \in 1 .. Len(m) : j = n + k
      <4>1. j - n \in 1 .. Len(m) /\ j = n + (j - n)
        BY ONLY <2>2, <2>3, j \in DOMAIN q
      <4> QED
        BY ONLY <4>1
    <3>2. q[j] = m[k]
      BY <2>2, <3>1
    <3>3. q[j] \in ToSet(mailbox[c])
      BY <2>1, <2>2, <3>1, <3>2 DEF ToSet
    <3> QED
      BY <3>3 DEF InjectsAreUsers
  <2>4. InOrder(q)
    <3> SUFFICES ASSUME NEW i \in DOMAIN q, NEW j \in DOMAIN q, i < j  PROVE Before(q[i], q[j])
      BY DEF InOrder
    <3>1. CASE j > n
      BY <2>3, <3>1 DEF Before
    <3>2. CASE j <= n
      <4>1. i \in 1 .. n /\ j \in 1 .. n
        BY ONLY <2>2, <3>2, i \in DOMAIN q, j \in DOMAIN q, i < j
      <4>2. Before(p[i], p[j])
        BY <2>0, <2>2, <4>1 DEF InOrder
      <4> QED
        BY <2>2, <4>1, <4>2
    <3> QED
      BY <2>2, <3>1, <3>2
  <2>5. TakeNext(c, q) /\ UNCHANGED req
    BY <1>3, <2>1 DEF WorkerResume
  <2> QED
    BY <2>2, <2>4, <2>5, TakeNextOrder
<1> QED
  BY <1>2, <1>3 DEF Worker

\* Scheduler.submit: the new Turn is the youngest, and the front of the queue
\* is for INTERRUPT alone.
LEMMA SubmitOrder ==
  ASSUME OwnershipInv, AppendOrder, NEW c \in Conversations, NEW o \in Origins,
         NEW b \in BusyPolicies, Submit(c, o, b)
  PROVE  AppendOrder'
<1>1. PICK n : n = accepted + 1
  OBVIOUS
<1>2. PICK policy : policy = effective_busy(o, b)
  OBVIOUS
<1>3. /\ n \in Turns /\ accepted \in Nat /\ n = accepted + 1
      /\ req \in [Turns -> Request \cup {NoRequest}]
      /\ pending \in [Conversations -> Seq(Turns)]
      /\ running \in [Conversations -> Turns \cup {NoTurn}]
  BY <1>1, ConstantsAssumption DEF Submit, OwnershipInv, TypeOK, Turns
<1>4. /\ \A t \in Turns : t # n => req'[t] = req[t]
      /\ req'[n].busy = policy /\ running' = running /\ Place(c, n, policy)
  BY <1>1, <1>2, <1>3 DEF Submit
<1>5. ASSUME NEW d \in Conversations, NEW t \in Held(d)  PROVE t \in Turns /\ t < n
  <2>1. t \in Turns
    BY ToSetType DEF OwnershipInv, TypeOK, Held
  <2>2. fut[t] = "open"
    BY <2>1 DEF OwnershipInv, OneOwner
  <2>3. ~(t > accepted)
    BY <2>1, <2>2 DEF OwnershipInv, OneOwner
  <2> QED
    BY <1>3, <2>1, <2>3 DEF Turns
<1>6. ASSUME NEW d \in Conversations, NEW t \in ToSet(pending[d])  PROVE t \in Turns /\ t < n
  BY <1>5 DEF Held
<1>7. ASSUME NEW d \in Conversations, running[d] # NoTurn  PROVE running[d] \in Turns /\ running[d] < n
  BY <1>5, <1>7 DEF Held
<1>8. ASSUME NEW t \in Turns, NEW u \in Turns, t < n, u < n, Before(t, u)  PROVE Before(t, u)'
  <2>1. t # n /\ u # n
    BY <1>3, <1>8 DEF Turns
  <2> QED
    BY <1>4, <1>8, <2>1 DEF Before
<1>9. ASSUME NEW t \in Turns, t < n  PROVE Before(t, n)' /\ (policy # "APPEND" => Before(n, t)')
  BY <1>4, <1>9 DEF Before
<1>10. ASSUME NEW d \in Conversations
       PROVE  /\ InOrder(pending[d])'
              /\ running[d] # NoTurn => \A t \in ToSet(pending'[d]) : Before(running[d], t)'
  <2>1. PICK p, r : p = pending[d] /\ r = running[d]
    OBVIOUS
  <2>2. /\ p \in Seq(Turns) /\ DOMAIN p = 1 .. Len(p) /\ Len(p) \in Nat
        /\ \A i \in DOMAIN p : p[i] \in ToSet(p)
        /\ InOrder(p) /\ (r # NoTurn => \A t \in ToSet(p) : Before(r, t))
        /\ \A t \in ToSet(p) : t \in Turns /\ t < n
    BY <1>3, <1>6, <2>1, OrderByLane DEF ToSet
  <2>3. \A i, j \in DOMAIN p : i < j => Before(p[i], p[j])'
    BY <1>8, <2>2 DEF InOrder
  <2>4. r # NoTurn => \A t \in ToSet(p) : Before(r, t)'
    BY <1>7, <1>8, <2>1, <2>2
  <2>5. CASE pending'[d] = p
    BY <1>4, <2>1, <2>3, <2>4, <2>5 DEF InOrder, Before
  <2>6. CASE pending'[d] = Append(p, n)
    <3>1. PICK x : x = Append(p, n)
      OBVIOUS
    <3>2. /\ DOMAIN x = 1 .. Len(p) + 1 /\ x[Len(p) + 1] = n
          /\ \A i \in 1 .. Len(p) : x[i] = p[i]
      BY <1>3, <2>2, <3>1
    <3>3. \A i, j \in DOMAIN x : i < j => Before(x[i], x[j])'
      BY <1>9, <2>2, <2>3, <3>2
    <3>4. ToSet(x) = ToSet(p) \cup {n}
      BY <1>3, <2>2, <3>1, AppendSet
    <3>5. r # NoTurn => \A t \in ToSet(x) : Before(r, t)'
      BY <1>7, <1>9, <2>1, <2>4, <3>4
    <3> QED
      BY <1>4, <2>1, <2>6, <3>1, <3>3, <3>5 DEF InOrder, Before
  <2>7. CASE pending'[d] = Cons(n, p) /\ policy # "APPEND"
    <3>1. PICK x : x = Cons(n, p)
      OBVIOUS
    <3>2. /\ DOMAIN x = 1 .. Len(p) + 1 /\ x[1] = n
          /\ \A i \in 2 .. Len(p) + 1 : x[i] = p[i - 1]
      BY <1>3, <2>2, <3>1 DEF Cons
    <3>3. \A i, j \in DOMAIN x : i < j => Before(x[i], x[j])'
      <4> SUFFICES ASSUME NEW i \in DOMAIN x, NEW j \in DOMAIN x, i < j
                   PROVE  Before(x[i], x[j])'
        OBVIOUS
      <4>1. j \in 2 .. Len(p) + 1 /\ j - 1 \in DOMAIN p /\ x[j] = p[j - 1]
        BY <2>2, <3>2
      <4>2. CASE i = 1
        BY <1>9, <2>2, <2>7, <3>2, <4>1, <4>2
      <4>3. CASE i # 1
        <5>1. i - 1 \in DOMAIN p /\ x[i] = p[i - 1] /\ i - 1 < j - 1
          BY <2>2, <3>2, <4>3
        <5> QED
          BY <2>3, <4>1, <5>1
      <4> QED
        BY <4>2, <4>3
    <3>4. ToSet(x) = ToSet(p) \cup {n}
      BY <1>3, <2>2, <3>1, ConsSet
    <3>5. r # NoTurn => \A t \in ToSet(x) : Before(r, t)'
      BY <1>7, <1>9, <2>1, <2>4, <3>4
    <3> QED
      BY <1>4, <2>1, <2>7, <3>1, <3>3, <3>5 DEF InOrder, Before
  <2> QED
    BY <1>3, <1>4, <2>1, <2>5, <2>6, <2>7
    DEF Place, PlaceInterrupt, PlaceInject, PlaceAppend
<1> QED
  BY <1>4, <1>10 DEF AppendOrder, InOrder, Before, ToSet

\* Steps that only take Turns out of the queues.
LEMMA ShrinkOrder ==
  ASSUME OwnershipInv, AppendOrder, UNCHANGED <<req, running>>,
         \A c \in Conversations :
           \/ pending'[c] \in {pending[c], <<>>}
           \/ \E i \in DOMAIN pending[c] : pending'[c] = RemoveAt(pending[c], i)
  PROVE  AppendOrder'
<1>1. ASSUME NEW c \in Conversations
      PROVE  InOrder(pending'[c]) /\ ToSet(pending'[c]) \subseteq ToSet(pending[c])
  <2>1. PICK p : p = pending[c]
    OBVIOUS
  <2>2. p \in Seq(Turns) /\ DOMAIN p = 1 .. Len(p) /\ Len(p) \in Nat /\ InOrder(p)
    BY <2>1, OrderByLane DEF OwnershipInv, TypeOK
  <2>3. CASE pending'[c] \in {p, <<>>}
    BY <2>1, <2>2, <2>3, EmptySet DEF InOrder
  <2>4. ASSUME NEW i \in DOMAIN p, pending'[c] = RemoveAt(p, i)
        PROVE  InOrder(pending'[c]) /\ ToSet(pending'[c]) \subseteq ToSet(p)
    <3>1. PICK x : x = RemoveAt(p, i)
      OBVIOUS
    <3>2. /\ DOMAIN x = 1 .. Len(p) - 1
          /\ \A j \in 1 .. Len(p) - 1 : x[j] = IF j < i THEN p[j] ELSE p[j + 1]
      BY <2>2, <3>1, RemoveAtIndex
    <3>3. InOrder(x)
      BY <2>2, <3>2 DEF InOrder
    <3>4. ToSet(x) \subseteq ToSet(p)
      BY <2>2, <3>2 DEF ToSet
    <3> QED
      BY <2>4, <3>1, <3>3, <3>4
  <2> QED
    BY <2>1, <2>3, <2>4
<1>2. \A c \in Conversations :
        running[c] # NoTurn => \A t \in ToSet(pending'[c]) : Before(running[c], t)
  BY <1>1, OrderByLane
<1> QED
  BY <1>1, <1>2 DEF AppendOrder, InOrder, Before, ToSet

\* Every step keeps the order.
LEMMA NextOrder == OwnershipInv /\ LifeInv /\ AppendOrder /\ [Next]_vars => AppendOrder'
<1> SUFFICES ASSUME OwnershipInv, LifeInv, AppendOrder, [Next]_vars PROVE AppendOrder'
  OBVIOUS
<1> USE DEF handleVars, laneVars, payloadVars, shutdownVars
<1>1. ASSUME UNCHANGED <<req, running, pending>>  PROVE AppendOrder'
  BY <1>1 DEF AppendOrder
<1>2. pending \in [Conversations -> Seq(Turns)]
  BY DEF OwnershipInv, TypeOK
<1>3. ASSUME NEW t \in Turns, CancelTurn(t)  PROVE AppendOrder'
  <2>1. CASE CancelQueued(t)
    <3>1. PICK d, i : i \in DOMAIN pending[d] /\ pending' = [pending EXCEPT ![d] = RemoveAt(pending[d], i)]
      BY <2>1 DEF CancelQueued
    <3>2. ASSUME NEW c \in Conversations
          PROVE  \/ pending'[c] \in {pending[c], <<>>}
                 \/ \E k \in DOMAIN pending[c] : pending'[c] = RemoveAt(pending[c], k)
      BY <1>2, <3>1
    <3>3. UNCHANGED <<req, running>>
      BY <1>3 DEF CancelTurn
    <3> QED
      BY <3>2, <3>3, ShrinkOrder
  <2>2. CASE CancelMailboxed(t) \/ CancelRunning(t)
    BY <1>1, <1>3, <2>2 DEF CancelTurn, CancelMailboxed, CancelRunning
  <2> QED
    BY <1>3, <2>1, <2>2 DEF CancelTurn
<1>4. ASSUME NEW L, DrainPending(L), UNCHANGED <<req, running>>  PROVE AppendOrder'
  BY <1>4, ShrinkOrder DEF DrainPending
<1>5. CASE Callers
  BY <1>1, <1>3, <1>4, <1>5, SubmitOrder DEF Callers, CancelConversation, Seal
<1>6. CASE Shutdown
  BY <1>1, <1>4, <1>6 DEF Shutdown, DrainLanes, CollectRunning, GraceEnds, CascadeEnds
<1>7. ASSUME NEW c \in Conversations, Payload(c)  PROVE AppendOrder'
  BY <1>1, <1>7 DEF Payload, BeginNow, BeginWaiting, Acquire, Enter, StartFails, CancelledEarly,
                    Drain, RunnerReturns, RunnerRaises, RunnerCancelled, TerminalSent, TerminalCut
<1>8. CASE Sweep \/ Stopped \/ UNCHANGED vars
  BY <1>1, <1>8 DEF Sweep, Stopped, vars
<1>9. InjectsAreUsers
  BY DEF LifeInv
<1> QED
  BY <1>5, <1>6, <1>7, <1>8, <1>9, WorkerOrder DEF Next

\* The APPEND Turns of a conversation are taken in the order of submission,
\* whatever is interrupted, injected, requeued, cancelled or drained between.
THEOREM QueueKeepsOrder == Safety => []AppendOrder
<1>1. Init => AppendOrder
  BY DEF Init, AppendOrder
<1> QED
  BY <1>1, InitOwner, NextOwner, InitLife, NextLife, NextOrder, PTL DEF Safety

-----------------------------------------------------------------------------
(* The scheduler implements TurnLedger. *)

\* What the stage of a Turn says about the places of the lanes.
StageMeaning ==
  \A t \in Turns :
    /\ StageOf(t) \in {"new", "waiting", "executing", "merged", "settled"}
    /\ StageOf(t) = "new" <=> fut[t] = "new"
    /\ StageOf(t) = "settled" <=> fut[t] = "done"
    /\ StageOf(t) = "executing" <=> \E c \in Conversations : running[c] = t
    /\ StageOf(t) = "merged" <=> \E c \in Conversations : t \in chained[c]
    /\ StageOf(t) = "waiting" <=>
         \E c \in Conversations : t \in ToSet(pending[c]) \cup ToSet(mailbox[c])

LEMMA StageMeans == OwnershipInv => StageMeaning
<1> SUFFICES ASSUME OwnershipInv, NEW t \in Turns
             PROVE  /\ StageOf(t) \in {"new", "waiting", "executing", "merged", "settled"}
                    /\ StageOf(t) = "new" <=> fut[t] = "new"
                    /\ StageOf(t) = "settled" <=> fut[t] = "done"
                    /\ StageOf(t) = "executing" <=> \E c \in Conversations : running[c] = t
                    /\ StageOf(t) = "merged" <=> \E c \in Conversations : t \in chained[c]
                    /\ StageOf(t) = "waiting" <=>
                         \E c \in Conversations : t \in ToSet(pending[c]) \cup ToSet(mailbox[c])
  BY DEF StageMeaning
<1>0. t # NoTurn
  BY DEF Turns, NoTurn
<1>1. fut[t] \in {"new", "open", "done"} /\ t # NoTurn
  BY <1>0 DEF OwnershipInv, TypeOK
<1>2. \A c \in Conversations : running[c] = t => fut[t] = "open"
  BY <1>1, RunningFacts
<1>3. ASSUME NEW c \in Conversations, t \in ToSet(pending[c]) \cup ToSet(mailbox[c]) \cup chained[c]
      PROVE  fut[t] = "open" /\ t \in Held(c) /\ \A d \in Conversations : running[d] # t
  <2>1. t \in Held(c)
    BY <1>3 DEF Held
  <2>2. fut[t] = "open"
    BY <2>1 DEF OwnershipInv, OneOwner
  <2> QED
    BY <1>1, <1>3, <2>1, <2>2, RunningFacts
<1>4. fut[t] = "open" =>
        \E c \in Conversations : \/ running[c] = t \/ t \in chained[c]
                                 \/ t \in ToSet(pending[c]) \cup ToSet(mailbox[c])
  BY DEF OwnershipInv, OneOwner, Held
<1>5. ASSUME NEW c \in Conversations, NEW d \in Conversations, t \in chained[c],
             t \in ToSet(pending[d]) \cup ToSet(mailbox[d])
      PROVE  FALSE
  <2>1. c = d
    BY <1>3, <1>5 DEF OwnershipInv, OneOwner
  <2> QED
    BY <1>5, <2>1 DEF OwnershipInv, OneOwner, PlacesDisjoint
<1>6. /\ fut[t] = "new" => StageOf(t) = "new"
      /\ fut[t] = "done" => StageOf(t) = "settled"
      /\ fut[t] = "open" =>
           /\ (\E c \in Conversations : running[c] = t) => StageOf(t) = "executing"
           /\ (~\E c \in Conversations : running[c] = t)
                /\ (\E c \in Conversations : t \in chained[c]) => StageOf(t) = "merged"
           /\ (~\E c \in Conversations : running[c] = t)
                /\ (~\E c \in Conversations : t \in chained[c]) => StageOf(t) = "waiting"
  BY DEF StageOf
<1>7. CASE fut[t] # "open"
  BY <1>1, <1>2, <1>3, <1>6, <1>7
<1>8. CASE \E c \in Conversations : running[c] = t
  BY <1>2, <1>3, <1>6, <1>8
<1>9. CASE \E c \in Conversations : t \in chained[c]
  BY <1>3, <1>5, <1>6, <1>9
<1>10. CASE \E c \in Conversations : t \in ToSet(pending[c]) \cup ToSet(mailbox[c])
  BY <1>3, <1>5, <1>6, <1>10
<1> QED
  BY <1>4, <1>7, <1>8, <1>9, <1>10

\* A step of the scheduler is a step of the ledger when it changes the stages,
\* results and homes in one of these ways.
LEMMA IsAccept ==
  ASSUME NEW n \in Turns, NEW c \in Conversations, StageOf(n) = "new",
         \A t \in Turns : StageOf(t)' = IF t = n THEN "waiting" ELSE StageOf(t),
         \A t \in Turns : req'[t].conversation = IF t = n THEN c ELSE req[t].conversation,
         UNCHANGED result
  PROVE  Ledger!Next
<1>1. Ledger!Accept(n, c)
  BY DEF Ledger!Accept
<1> QED
  BY <1>1 DEF Ledger!Next, Ledger!Turns, Turns

LEMMA IsWithdraw ==
  ASSUME NEW S \in SUBSET Turns, \A t \in S : StageOf(t) = "waiting",
         \A t \in Turns : StageOf(t)' = IF t \in S THEN "settled" ELSE StageOf(t),
         UNCHANGED <<req, result>>
  PROVE  Ledger!Next
<1>1. Ledger!Withdraw(S)
  BY DEF Ledger!Withdraw, Ledger!Turns, Turns
<1> QED
  BY <1>1 DEF Ledger!Next, Ledger!Turns, Turns

LEMMA IsMerge ==
  ASSUME NEW c \in Conversations, NEW h \in Turns, StageOf(h) = "executing",
         req[h].conversation = c, NEW S \in SUBSET Turns,
         \A t \in S : StageOf(t) = "waiting" /\ req[t].conversation = c,
         \A t \in Turns : StageOf(t)' = IF t \in S THEN "merged" ELSE StageOf(t),
         UNCHANGED <<req, result>>
  PROVE  Ledger!Next
<1>1. h \in Ledger!Executing(c)
  BY DEF Ledger!Executing, Ledger!Turns, Turns
<1>2. Ledger!Merge(S, c)
  BY <1>1 DEF Ledger!Merge, Ledger!Turns, Turns
<1> QED
  BY <1>2 DEF Ledger!Next, Ledger!Turns, Turns

LEMMA IsSettle ==
  ASSUME NEW h \in Turns, StageOf(h) = "executing", NEW v \in {h, 0}, NEW S \in SUBSET Turns,
         \A t \in Turns : t \in S <=> /\ StageOf(t) = "merged"
                                      /\ req[t].conversation = req[h].conversation,
         \A t \in Turns : StageOf(t)' = IF t \in S THEN "settled" ELSE StageOf(t),
         \A t \in Turns : result'[t] = IF t \in S THEN v ELSE result[t],
         result' = [t \in Turns |-> result'[t]],
         UNCHANGED req
  PROVE  Ledger!Next
<1>1. Ledger!SettleMerged(h, v)
  BY DEF Ledger!SettleMerged, Ledger!Turns, Turns
<1> QED
  BY <1>1 DEF Ledger!Next, Ledger!Turns, Turns

LEMMA IsAdvance ==
  ASSUME NEW c \in Conversations, NEW E \in SUBSET Turns, NEW N \in SUBSET Turns,
         \A t \in Turns : t \in E <=> StageOf(t) = "executing" /\ req[t].conversation = c,
         \A t \in Turns : ~(StageOf(t) = "merged" /\ req[t].conversation = c),
         \A t \in N : StageOf(t) = "waiting" /\ req[t].conversation = c,
         \A t, u \in N : t = u,
         \A t \in Turns : StageOf(t)' = IF t \in N THEN "executing"
                                        ELSE IF t \in E THEN "settled" ELSE StageOf(t),
         \A t \in E : result'[t] \in {t, 0},
         \A t \in Turns : t \notin E => result'[t] = result[t],
         result' = [t \in Turns |-> result'[t]],
         UNCHANGED req
  PROVE  Ledger!Next
<1>1. Ledger!Executing(c) = E
  BY DEF Ledger!Executing, Ledger!Turns, Turns
<1>2. PICK v : v = [t \in E |-> result'[t]]
  OBVIOUS
<1>3. Ledger!Advance(c, N)
  BY <1>1, <1>2 DEF Ledger!Advance, Ledger!Turns, Turns
<1> QED
  BY <1>3 DEF Ledger!Next, Ledger!Turns, Turns

\* The stage of a Turn depends on its future and on the running and merged
\* Turns alone.
LEMMA SameStage ==
  ASSUME NEW t \in Turns, fut'[t] = fut[t],
         (\E c \in Conversations : running'[c] = t) <=> (\E c \in Conversations : running[c] = t),
         (\E c \in Conversations : t \in chained'[c]) <=> (\E c \in Conversations : t \in chained[c])
  PROVE  StageOf(t)' = StageOf(t)
BY DEF StageOf

\* Steps that the ledger does not see.
LEMMA UnseenStep ==
  ASSUME UNCHANGED <<req, fut, result, running, chained>>
  PROVE  UNCHANGED Ledger!ledger
<1>1. \A t \in Turns : StageOf(t)' = StageOf(t)
  BY SameStage
<1> QED
  BY <1>1 DEF Ledger!ledger

\* Waiting Turns are withdrawn without an outcome.
LEMMA WithdrawStep ==
  ASSUME OwnershipInv, LifeInv, OwnershipInv', NEW S, Resolve(S, None),
         \A t \in S : \E c \in Conversations : t \in ToSet(pending[c]) \cup ToSet(mailbox[c]),
         UNCHANGED <<req, running, chained>>
  PROVE  Ledger!Next
<1>1. StageMeaning /\ StageMeaning'
  BY StageMeans, PTL
<1>2. S \in SUBSET Turns /\ \A t \in S : fut[t] = "open"
  BY WaitingFacts DEF LifeInv
<1>3. \A t \in S : StageOf(t) = "waiting"
  BY <1>1, <1>2 DEF StageMeaning
<1>4. /\ fut' = [t \in Turns |-> IF t \in S THEN "done" ELSE fut[t]]
      /\ result' = [t \in Turns |-> IF t \in S /\ fut[t] # "done" THEN None ELSE result[t]]
  BY DEF Resolve
<1>5. \A t \in Turns : result'[t] = result[t]
  BY <1>2, <1>4 DEF LifeInv, OpenIsEmpty
<1>6. result' = result
  BY <1>4, <1>5 DEF OwnershipInv, TypeOK
<1>7. ASSUME NEW t \in Turns  PROVE StageOf(t)' = IF t \in S THEN "settled" ELSE StageOf(t)
  <2>1. CASE t \in S
    BY <1>1, <1>4, <2>1 DEF StageMeaning
  <2>2. CASE t \notin S
    BY <1>4, <2>2, SameStage
  <2> QED
    BY <2>1, <2>2
<1> QED
  BY <1>2, <1>3, <1>6, <1>7, IsWithdraw

\* A payload settles what was merged into its Turn.
LEMMA SettleStep ==
  ASSUME OwnershipInv, LifeInv, OwnershipInv', NEW c \in Conversations, running[c] # NoTurn,
         NEW v \in {running[c], None}, Resolve(chained[c], v),
         chained' = [chained EXCEPT ![c] = {}], UNCHANGED <<req, running>>
  PROVE  Ledger!Next
<1>1. StageMeaning /\ StageMeaning'
  BY StageMeans, PTL
<1>2. PICK h, S : h = running[c] /\ S = chained[c]
  OBVIOUS
<1>3. h \in Turns /\ req[h].conversation = c /\ StageOf(h) = "executing" /\ v \in {h, 0}
  BY <1>1, <1>2, RunningFacts DEF StageMeaning, None
<1>4. /\ S \in SUBSET Turns /\ \A t \in S : fut[t] = "open" /\ req[t].conversation = c
      /\ chained \in [Conversations -> SUBSET Turns]
  BY <1>2, WaitingFacts DEF LifeInv, OwnershipInv, TypeOK
<1>5. ASSUME NEW t \in Turns
      PROVE  t \in S <=> StageOf(t) = "merged" /\ req[t].conversation = req[h].conversation
  <2>1. ASSUME NEW d \in Conversations, t \in chained[d]  PROVE req[t].conversation = d
    BY <2>1, WaitingFacts DEF LifeInv
  <2> QED
    BY <1>1, <1>2, <1>3, <2>1 DEF StageMeaning
<1>6. /\ fut' = [t \in Turns |-> IF t \in S THEN "done" ELSE fut[t]]
      /\ result' = [t \in Turns |-> IF t \in S /\ fut[t] # "done" THEN v ELSE result[t]]
  BY <1>2 DEF Resolve
<1>7. /\ \A t \in Turns : result'[t] = IF t \in S THEN v ELSE result[t]
      /\ result' = [t \in Turns |-> result'[t]]
  BY <1>4, <1>6
<1>8. ASSUME NEW t \in Turns  PROVE StageOf(t)' = IF t \in S THEN "settled" ELSE StageOf(t)
  <2>1. CASE t \in S
    BY <1>1, <1>6, <2>1 DEF StageMeaning
  <2>2. CASE t \notin S
    <3>1. (\E d \in Conversations : t \in chained'[d]) <=> (\E d \in Conversations : t \in chained[d])
      BY <1>2, <1>4, <2>2
    <3> QED
      BY <1>6, <2>2, <3>1, SameStage
  <2> QED
    BY <2>1, <2>2
<1> QED
  BY <1>3, <1>4, <1>5, <1>7, <1>8, IsSettle

\* Every action of a payload is a merge, a settlement or nothing.
LEMMA PayloadStep ==
  ASSUME OwnershipInv, LifeInv, OwnershipInv', NEW c \in Conversations, Payload(c)
  PROVE  [Ledger!Next]_(Ledger!ledger)
<1> USE DEF handleVars, laneVars
<1>1. CASE Drain(c)
  <2>1. StageMeaning /\ StageMeaning'
    BY StageMeans, PTL
  <2>2. PICK h, S : h = running[c] /\ S = ToSet(mailbox[c])
    OBVIOUS
  <2>3. /\ UNCHANGED <<req, fut, result, running>> /\ phase[c] = "running"
        /\ chained' = [chained EXCEPT ![c] = @ \cup S]
    BY <1>1, <2>2 DEF Drain
  <2>4. h \in Turns /\ req[h].conversation = c /\ StageOf(h) = "executing"
    <3>1. running[c] # NoTurn
      BY <2>3 DEF OwnershipInv, PayloadShape
    <3> QED
      BY <2>1, <2>2, <3>1, RunningFacts DEF StageMeaning
  <2>5. S \in SUBSET Turns /\ chained \in [Conversations -> SUBSET Turns]
        /\ \A t \in S : StageOf(t) = "waiting" /\ req[t].conversation = c
    BY <2>1, <2>2, WaitingFacts DEF LifeInv, StageMeaning, OwnershipInv, TypeOK
  <2>6. ASSUME NEW t \in Turns  PROVE StageOf(t)' = IF t \in S THEN "merged" ELSE StageOf(t)
    <3>1. CASE t \in S
      <4>1. t \in chained'[c]
        BY <2>3, <2>5, <3>1
      <4> QED
        BY <2>1, <3>1, <4>1 DEF StageMeaning
    <3>2. CASE t \notin S
      <4>1. \A d \in Conversations : t \in chained'[d] <=> t \in chained[d]
        BY <2>3, <2>5, <3>2
      <4> QED
        BY <2>3, <3>2, <4>1, SameStage
    <3> QED
      BY <3>1, <3>2
  <2> QED
    BY <2>3, <2>4, <2>5, <2>6, IsMerge
<1>2. CASE RunnerReturns(c) \/ TerminalSent(c) \/ TerminalCut(c)
  <2>1. /\ phase[c] # "none" /\ UNCHANGED <<req, running>> /\ chained' = [chained EXCEPT ![c] = {}]
        /\ \E v \in {running[c], None} : Resolve(chained[c], v)
    BY <1>2 DEF RunnerReturns, TerminalSent, TerminalCut, TerminalPhases
  <2>2. running[c] # NoTurn
    BY <2>1 DEF OwnershipInv, PayloadShape
  <2> QED
    BY <2>1, <2>2, SettleStep
<1>3. CASE \/ BeginNow(c) \/ BeginWaiting(c) \/ Acquire(c) \/ StartFails(c)
           \/ CancelledEarly(c) \/ RunnerRaises(c) \/ RunnerCancelled(c)
  <2>1. UNCHANGED <<req, fut, result, running, chained>>
    BY <1>3 DEF BeginNow, BeginWaiting, Acquire, Enter, StartFails, CancelledEarly, RunnerRaises,
                RunnerCancelled
  <2> QED
    BY <2>1, UnseenStep
<1> QED
  BY <1>1, <1>2, <1>3 DEF Payload

\* The step of a worker settles the Turn that ran and starts at most one.
LEMMA WorkerStep ==
  ASSUME OwnershipInv, LifeInv, OwnershipInv', NEW c \in Conversations, Worker(c)
  PROVE  [Ledger!Next]_(Ledger!ledger)
<1>1. StageMeaning /\ StageMeaning'
  BY StageMeans, PTL
<1>2. PICK q, E, r :
        /\ q \in Seq(Turns) /\ r = running[c] /\ E = {r} \ {NoTurn}
        /\ ToSet(q) \subseteq ToSet(pending[c]) \cup ToSet(mailbox[c])
        /\ TakeNext(c, q) /\ UNCHANGED <<req, chained>>
        /\ fut' = [t \in Turns |-> IF t \in E THEN "done" ELSE fut[t]]
        /\ result' = [t \in Turns |-> IF t \in E THEN outcome[c] ELSE result[t]]
        /\ E # {} => phase[c] = "done"
  <2>1. /\ pending[c] \in Seq(Turns) /\ mailbox[c] \in Seq(Turns)
        /\ fut \in [Turns -> {"new", "open", "done"}] /\ result \in [Turns -> Turns \cup {None}]
    BY DEF OwnershipInv, TypeOK
  <2>2. CASE WorkerStart(c)
    <3>1. running[c] = NoTurn
      BY <2>2 DEF WorkerStart, OwnershipInv, NoStrandedWork
    <3>2. /\ TakeNext(c, pending[c]) /\ UNCHANGED <<req, fut, result, chained>>
      BY <2>2 DEF WorkerStart, handleVars
    <3>3. {running[c]} \ {NoTurn} = {}
      BY <3>1
    <3>4. /\ fut' = [t \in Turns |-> IF t \in {} THEN "done" ELSE fut[t]]
          /\ result' = [t \in Turns |-> IF t \in {} THEN outcome[c] ELSE result[t]]
      BY <2>1, <3>2
    <3> QED
      BY <2>1, <3>2, <3>3, <3>4
  <2>3. CASE WorkerResume(c)
    <3>1. running[c] # NoTurn /\ phase[c] = "done"
      BY <2>3 DEF WorkerResume, OwnershipInv, PayloadShape
    <3>2. {running[c]} \ {NoTurn} = {running[c]} /\ fut[running[c]] = "open"
      BY <3>1, RunningFacts
    <3>3. PICK q : q = pending[c] \o mailbox[c]
      OBVIOUS
    <3>4. q \in Seq(Turns) /\ ToSet(q) = ToSet(pending[c]) \cup ToSet(mailbox[c])
      BY <2>1, <3>3, ConcatSet, ConcatIndex
    <3>5. /\ TakeNext(c, q) /\ UNCHANGED <<req, chained>>
          /\ fut' = [t \in Turns |-> IF t \in {running[c]} THEN "done" ELSE fut[t]]
          /\ result' = [t \in Turns |-> IF t \in {running[c]} THEN outcome[c] ELSE result[t]]
      BY <2>3, <3>2, <3>3 DEF WorkerResume, Resolve
    <3> QED
      BY <3>1, <3>2, <3>4, <3>5
  <2> QED
    BY <2>2, <2>3 DEF Worker
<1>3. PICK N : N = IF q = <<>> THEN {} ELSE {Head(q)}
  OBVIOUS
<1>4. /\ running \in [Conversations -> Turns \cup {NoTurn}]
      /\ \A d \in Conversations : d # c => running'[d] = running[d]
      /\ q = <<>> => running'[c] = NoTurn
      /\ q # <<>> => running'[c] = Head(q)
  BY <1>2 DEF TakeNext, OwnershipInv, TypeOK
<1>5. /\ N \subseteq ToSet(q) /\ \A t, u \in N : t = u
      /\ N = {running'[c]} \ {NoTurn}
  <2>1. q # <<>> => Head(q) \in ToSet(q) /\ Head(q) \in Turns
    BY <1>2 DEF ToSet
  <2>2. q # <<>> => Head(q) # NoTurn
    BY <2>1 DEF Turns, NoTurn
  <2> QED
    BY <1>3, <1>4, <2>1, <2>2
<1>6. /\ N \in SUBSET Turns
      /\ \A t \in N : StageOf(t) = "waiting" /\ req[t].conversation = c /\ t \notin E
  BY <1>1, <1>2, <1>5, WaitingFacts DEF LifeInv, StageMeaning
<1>7. /\ E \in SUBSET Turns
      /\ \A t \in Turns : t \in E <=> StageOf(t) = "executing" /\ req[t].conversation = c
  <2>1. E \in SUBSET Turns
    BY <1>2, <1>4
  <2>2. ASSUME NEW t \in Turns, StageOf(t) = "executing", req[t].conversation = c  PROVE t \in E
    <3>1. PICK d \in Conversations : running[d] = t
      BY <1>1, <2>2 DEF StageMeaning
    <3>2. running[d] # NoTurn
      BY <3>1 DEF Turns, NoTurn
    <3>3. d = c
      BY <2>2, <3>1, <3>2, RunningFacts
    <3> QED
      BY <1>2, <3>1, <3>2, <3>3
  <2>3. ASSUME NEW t \in E  PROVE StageOf(t) = "executing" /\ req[t].conversation = c
    <3>1. t = running[c] /\ running[c] # NoTurn
      BY <1>2
    <3> QED
      BY <1>1, <2>1, <3>1, RunningFacts DEF StageMeaning
  <2> QED
    BY <2>1, <2>2, <2>3
<1>8. ASSUME NEW t \in Turns  PROVE ~(StageOf(t) = "merged" /\ req[t].conversation = c)
  <2> SUFFICES ASSUME StageOf(t) = "merged", req[t].conversation = c  PROVE FALSE
    OBVIOUS
  <2>1. PICK d \in Conversations : t \in chained[d]
    BY <1>1 DEF StageMeaning
  <2>2. d = c
    BY <2>1, WaitingFacts DEF LifeInv
  <2>3. running[c] # NoTurn /\ phase[c] # "done"
    BY <2>1, <2>2 DEF OwnershipInv, NoStrandedWork, PayloadShape
  <2> QED
    BY <1>2, <2>3
<1>9. ASSUME NEW t \in Turns
      PROVE  StageOf(t)' = IF t \in N THEN "executing" ELSE IF t \in E THEN "settled" ELSE StageOf(t)
  <2>1. CASE t \in N
    BY <1>1, <1>5, <2>1 DEF StageMeaning
  <2>2. CASE t \notin N /\ t \in E
    BY <1>1, <1>2, <2>2 DEF StageMeaning
  <2>3. CASE t \notin N /\ t \notin E
    <3>1. \A d \in Conversations : running'[d] = t <=> running[d] = t
      <4>1. t # NoTurn
        BY DEF Turns, NoTurn
      <4> QED
        BY <1>2, <1>4, <1>5, <2>3, <4>1
    <3> QED
      BY <1>2, <2>3, <3>1, SameStage
  <2> QED
    BY <2>1, <2>2, <2>3
<1>10. \A t \in E : result'[t] \in {t, 0}
  BY <1>2, <1>7 DEF LifeInv, PhaseTells, Tells, None
<1>11. /\ \A t \in Turns : t \notin E => result'[t] = result[t]
       /\ result' = [t \in Turns |-> result'[t]] /\ UNCHANGED req
  BY <1>2
<1>12. /\ \A t, u \in N : t = u
       /\ \A t \in N : StageOf(t) = "waiting" /\ req[t].conversation = c
  BY ONLY <1>5, <1>6
<1>13. Ledger!Next
  BY ONLY c \in Conversations, <1>6, <1>7, <1>8, <1>9, <1>10, <1>11, <1>12, IsAdvance
<1> QED
  BY <1>13

\* Scheduler.submit accepts one Turn.
LEMMA SubmitStep ==
  ASSUME OwnershipInv, OwnershipInv', NEW c \in Conversations, NEW o \in Origins,
         NEW b \in BusyPolicies, Submit(c, o, b)
  PROVE  Ledger!Next
<1>1. StageMeaning /\ StageMeaning'
  BY StageMeans, PTL
<1>2. PICK n : n = accepted + 1
  OBVIOUS
<1>3. n \in Turns /\ n > accepted /\ req \in [Turns -> Request \cup {NoRequest}]
      /\ fut \in [Turns -> {"new", "open", "done"}]
  BY <1>2, ConstantsAssumption DEF Submit, OwnershipInv, TypeOK, Turns
<1>4. fut[n] = "new" /\ StageOf(n) = "new"
  BY <1>1, <1>3 DEF OwnershipInv, OneOwner, StageMeaning
<1>5. /\ UNCHANGED <<result, running, chained>> /\ fut' = [fut EXCEPT ![n] = "open"]
      /\ req' = [req EXCEPT ![n] =
                   [conversation |-> c, origin |-> o, busy |-> effective_busy(o, b)]]
  BY <1>2 DEF Submit
<1>6. \A t \in Turns : req'[t].conversation = IF t = n THEN c ELSE req[t].conversation
  BY <1>3, <1>5
<1>7. ASSUME NEW t \in Turns  PROVE StageOf(t)' = IF t = n THEN "waiting" ELSE StageOf(t)
  <2>1. CASE t = n
    <3>1. StageOf(t) \notin {"executing", "merged"} /\ fut'[t] = "open"
      BY <1>3, <1>4, <1>5, <2>1
    <3>2. /\ ~\E d \in Conversations : running'[d] = t
          /\ ~\E d \in Conversations : t \in chained'[d]
      BY <1>1, <1>5, <3>1 DEF StageMeaning
    <3> QED
      BY <2>1, <3>1, <3>2 DEF StageOf
  <2>2. CASE t # n
    BY <1>3, <1>5, <2>2, SameStage
  <2> QED
    BY <2>1, <2>2
<1> QED
  BY <1>3, <1>4, <1>5, <1>6, <1>7, IsAccept

\* Every step of the scheduler is a step of the ledger or changes nothing in it.
LEMMA LedgerStep ==
  OwnershipInv /\ LifeInv /\ OwnershipInv' /\ [Next]_vars => [Ledger!Next]_(Ledger!ledger)
<1> SUFFICES ASSUME OwnershipInv, LifeInv, OwnershipInv', [Next]_vars
             PROVE  [Ledger!Next]_(Ledger!ledger)
  OBVIOUS
<1> USE DEF handleVars, laneVars, payloadVars, shutdownVars
<1>1. ASSUME NEW t \in Turns, CancelTurn(t)  PROVE [Ledger!Next]_(Ledger!ledger)
  <2>1. CASE CancelRunning(t)
    BY <1>1, <2>1, UnseenStep DEF CancelTurn, CancelRunning
  <2>2. CASE CancelQueued(t) \/ CancelMailboxed(t)
    <3>1. UNCHANGED <<req, running, chained>>
      BY <1>1 DEF CancelTurn
    <3> QED
      BY <1>1, <2>2, <3>1, WithdrawnTurns, WithdrawStep
  <2> QED
    BY <1>1, <2>1, <2>2 DEF CancelTurn
<1>2. ASSUME NEW L \in SUBSET Conversations, DrainPending(L), UNCHANGED <<req, running, chained>>
      PROVE  [Ledger!Next]_(Ledger!ledger)
  BY <1>2, WithdrawnTurns, WithdrawStep
<1>3. CASE Callers
  <2>1. ASSUME NEW c \in Conversations, CancelConversation(c)  PROVE [Ledger!Next]_(Ledger!ledger)
    <3>1. {c} \in SUBSET Conversations
      OBVIOUS
    <3> QED
      BY <1>2, <2>1, <3>1 DEF CancelConversation
  <2>2. CASE Seal
    BY <2>2, UnseenStep DEF Seal
  <2> QED
    BY <1>1, <1>3, <2>1, <2>2, SubmitStep DEF Callers
<1>4. CASE Shutdown
  <2>1. CASE DrainLanes
    <3>1. lanes \in SUBSET Conversations
      BY DEF OwnershipInv, TypeOK
    <3> QED
      BY <1>2, <2>1, <3>1 DEF DrainLanes
  <2>2. CASE CollectRunning \/ GraceEnds \/ CascadeEnds
    BY <2>2, UnseenStep DEF CollectRunning, GraceEnds, CascadeEnds
  <2> QED
    BY <1>4, <2>1, <2>2 DEF Shutdown
<1>5. CASE Sweep \/ Stopped \/ UNCHANGED vars
  BY <1>5, UnseenStep DEF Sweep, Stopped, vars
<1> QED
  BY <1>3, <1>4, <1>5, WorkerStep, PayloadStep DEF Next

\* The scheduler with its queues, mailboxes, workers, pools, cancellations and
\* shutdown implements the ledger: a handle waits, executes alone in its
\* conversation or is merged into the Turn that executes there, and is settled
\* once, with an outcome only of the Turn that executed.
THEOREM SchedulerKeepsLedger == Safety => KeepsLedger
<1>1. Init => Ledger!Init
  <2> SUFFICES ASSUME Init PROVE Ledger!Init
    OBVIOUS
  <2>1. \A t \in Turns : StageOf(t) = "new" /\ req[t].conversation = "none" /\ result[t] = 0
    BY DEF Init, StageOf, NoRequest, None
  <2>2. result = [t \in Turns |-> 0]
    BY DEF Init, None
  <2> QED
    BY <2>1, <2>2 DEF Ledger!Init, Ledger!Turns, Ledger!NoHome, Turns
<1> QED
  BY <1>1, InitOwner, NextOwner, InitLife, NextLife, LedgerStep, PTL
  DEF Safety, KeepsLedger, Ledger!Spec
=============================================================================
