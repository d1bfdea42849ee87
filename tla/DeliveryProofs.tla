--------------------------- MODULE DeliveryProofs ---------------------------
(***************************************************************************)
(* DeliveryHub for every value of its constants.  First the join counters  *)
(* and the close (HubInv): the counter of each outlet queue is exact and a *)
(* closed hub is empty.  On top of it (OrderInv) the order of delivery, the*)
(* end of the streams, the render barrier and the types.                   *)
(***************************************************************************)
EXTENDS DeliveryHub, SequenceFacts

\* An item as the hub handles it: the number of the event does not matter.
AnyItem == Conversations \X Nat

ShapeOK ==
  /\ queue \in [Channels -> Seq(AnyItem)]
  /\ unfinished \in [Channels -> Int]
  /\ hand \in [Channels -> AnyItem \cup {Nothing}]
  /\ worker \in [Channels -> WorkerStates]
  /\ cancelled \in [Channels -> BOOLEAN]
  /\ ops \in [Conversations -> Seq(Kinds)]
  /\ closed \in BOOLEAN
  /\ closing \in {"none", "sealed", "gathering", "done"}

\* A worker has an item exactly while it is suspended in handling one.
HandMatchesWorker ==
  \A ch \in Channels :
    hand[ch] = Nothing <=> worker[ch] \in {"none", "new", "waiting"}

\* What a finished close leaves, and what no later step brings back.
Swept ==
  /\ closing # "none" => closed
  /\ closing = "done" =>
       /\ \A ch \in Channels : queue[ch] = <<>> /\ worker[ch] = "none"
       /\ routed = {} /\ open = {}

HubInv == ShapeOK /\ HandMatchesWorker /\ JoinCountsWork /\ Swept

LEMMA ItemIsSomething == \A item \in AnyItem : item # Nothing
  BY DEF AnyItem, Nothing

LEMMA InitHub == Init => HubInv
<1> SUFFICES ASSUME Init PROVE HubInv
  OBVIOUS
<1>1. ShapeOK
  <2>1. queue \in [Channels -> Seq(AnyItem)] /\ ops \in [Conversations -> Seq(Kinds)]
    BY DEF Init
  <2> QED
    <3>1. /\ hand \in [Channels -> AnyItem \cup {Nothing}]
          /\ unfinished \in [Channels -> Int]
      BY DEF Init
    <3>2. worker \in [Channels -> WorkerStates] /\ cancelled \in [Channels -> BOOLEAN]
      BY DEF Init, WorkerStates
    <3>3. /\ closed \in BOOLEAN
          /\ closing \in {"none", "sealed", "gathering", "done"}
      BY DEF Init
    <3> QED
      BY <2>1, <3>1, <3>2, <3>3 DEF ShapeOK
<1>2. HandMatchesWorker
  BY DEF Init, HandMatchesWorker
<1>3. JoinCountsWork
  BY DEF Init, JoinCountsWork
<1>4. Swept
  BY DEF Init, Swept
<1> QED
  BY <1>1, <1>2, <1>3, <1>4 DEF HubInv

\* A step that leaves the queues, the counters and the items alone, and does
\* not change which workers are busy, keeps the counters exact.
LEMMA QuietStep ==
  ASSUME HubInv, UNCHANGED <<queue, unfinished, hand, worker>>
  PROVE  HandMatchesWorker' /\ JoinCountsWork'
  BY DEF HubInv, HandMatchesWorker, JoinCountsWork

\* queue.put of one item: the queue and its counter grow by one.
LEMMA PutStep ==
  ASSUME HubInv, NEW ch \in Channels, NEW item \in AnyItem,
         queue' = [queue EXCEPT ![ch] = Append(@, item)],
         unfinished' = [unfinished EXCEPT ![ch] = @ + 1],
         UNCHANGED hand
  PROVE  /\ queue' \in [Channels -> Seq(AnyItem)]
         /\ unfinished' \in [Channels -> Int]
         /\ JoinCountsWork'
<1> USE DEF HubInv, ShapeOK, JoinCountsWork
<1>1. queue' \in [Channels -> Seq(AnyItem)] /\ unfinished' \in [Channels -> Int]
  OBVIOUS
<1>2. ASSUME NEW d \in Channels
      PROVE  unfinished'[d] = Len(queue'[d]) + (IF hand'[d] = Nothing THEN 0 ELSE 1)
  <2>1. CASE d = ch
    <3>1. Len(queue'[d]) = Len(queue[d]) + 1
      BY <2>1
    <3> QED
      BY <2>1, <3>1
  <2>2. CASE d # ch
    BY <2>2
  <2> QED
    BY <2>1, <2>2
<1> QED
  BY <1>1, <1>2

\* The end of an item: task_done takes it from the counter.
LEMMA FinishStep ==
  ASSUME HubInv, NEW ch \in Channels, hand[ch] # Nothing,
         NEW next \in {"none", "waiting"}, Finish(ch, next), UNCHANGED queue
  PROVE  /\ unfinished' \in [Channels -> Int]
         /\ hand' \in [Channels -> AnyItem \cup {Nothing}]
         /\ worker' \in [Channels -> WorkerStates]
         /\ HandMatchesWorker' /\ JoinCountsWork'
  BY DEF HubInv, ShapeOK, HandMatchesWorker, JoinCountsWork, Finish, WorkerStates

\* queue.get: an item moves from the queue to the worker's hand.
LEMMA TakeStep ==
  ASSUME HubInv, NEW ch \in Channels, NEW next \in {"chunk", "sending"}, Take(ch, next)
  PROVE  /\ queue' \in [Channels -> Seq(AnyItem)]
         /\ hand' \in [Channels -> AnyItem \cup {Nothing}]
         /\ worker' \in [Channels -> WorkerStates]
         /\ HandMatchesWorker' /\ JoinCountsWork'
<1>1. queue[ch] \in Seq(AnyItem) /\ queue[ch] # <<>> /\ hand[ch] = Nothing
  BY DEF HubInv, ShapeOK, HandMatchesWorker, Take
<1>2. /\ Head(queue[ch]) \in AnyItem
      /\ Tail(queue[ch]) \in Seq(AnyItem)
      /\ Len(Tail(queue[ch])) = Len(queue[ch]) - 1
      /\ Len(queue[ch]) \in Nat
  BY <1>1
<1>3. Head(queue[ch]) # Nothing
  BY <1>2, ItemIsSomething
<1>4. /\ hand' = [hand EXCEPT ![ch] = Head(queue[ch])]
      /\ queue' = [queue EXCEPT ![ch] = Tail(queue[ch])]
      /\ worker' = [worker EXCEPT ![ch] = next]
      /\ unfinished' = unfinished
  BY DEF Take
<1>5. /\ queue' \in [Channels -> Seq(AnyItem)]
      /\ hand' \in [Channels -> AnyItem \cup {Nothing}]
      /\ worker' \in [Channels -> WorkerStates]
  BY <1>2, <1>4 DEF HubInv, ShapeOK, WorkerStates
<1>6. HandMatchesWorker'
  BY <1>3, <1>4 DEF HubInv, ShapeOK, HandMatchesWorker
<1>7. JoinCountsWork'
  <2> SUFFICES ASSUME NEW d \in Channels
               PROVE  unfinished'[d] = Len(queue'[d]) + (IF hand'[d] = Nothing THEN 0 ELSE 1)
    BY DEF JoinCountsWork
  <2>0. unfinished[d] = Len(queue[d]) + (IF hand[d] = Nothing THEN 0 ELSE 1)
    BY DEF HubInv, JoinCountsWork
  <2>1. CASE d = ch
    <3>1. queue'[d] = Tail(queue[ch]) /\ hand'[d] = Head(queue[ch])
      BY <1>4, <2>1 DEF HubInv, ShapeOK
    <3>2. unfinished[d] = Len(queue[ch])
      BY <1>1, <1>2, <2>0, <2>1
    <3>3. Len(queue'[d]) = Len(queue[ch]) - 1
      BY <1>2, <3>1
    <3>4. hand'[d] # Nothing /\ unfinished'[d] = unfinished[d]
      BY <1>3, <1>4, <3>1
    <3> QED
      BY <1>2, <3>2, <3>3, <3>4
  <2>2. CASE d # ch
    BY <1>4, <2>0, <2>2 DEF HubInv, ShapeOK
  <2> QED
    BY <2>1, <2>2
<1> QED
  BY <1>5, <1>6, <1>7

\* drain: every queue and its counter lose the same number.
LEMMA DrainStep ==
  ASSUME HubInv, Drain, UNCHANGED <<hand, worker>>
  PROVE  /\ queue' \in [Channels -> Seq(AnyItem)]
         /\ unfinished' \in [Channels -> Int]
         /\ \A ch \in Channels : queue'[ch] = <<>>
         /\ HandMatchesWorker' /\ JoinCountsWork'
<1>1. \A ch \in Channels : Len(queue[ch]) \in Nat
  BY DEF HubInv, ShapeOK
<1> QED
  BY <1>1 DEF HubInv, ShapeOK, HandMatchesWorker, JoinCountsWork, Drain

\* The call of queue.put by a caller of an open hub.
LEMMA PutCall ==
  ASSUME HubInv, NEW v \in Conversations, NEW kind \in Kinds, ~closed, Put(v, kind),
         UNCHANGED <<hand, cancelled, closed, closing>>
  PROVE  /\ queue' \in [Channels -> Seq(AnyItem)]
         /\ unfinished' \in [Channels -> Int]
         /\ ops' \in [Conversations -> Seq(Kinds)]
         /\ JoinCountsWork'
<1> DEFINE item == <<v, Len(ops[v]) + 1>>
<1>1. ops[v] \in Seq(Kinds) /\ ChannelOf[v] \in Channels
  BY HubAssumption DEF HubInv, ShapeOK
<1>2. item \in AnyItem
  BY <1>1 DEF AnyItem
<1>3. ops' \in [Conversations -> Seq(Kinds)]
  BY <1>1 DEF Put, HubInv, ShapeOK
<1>4. CASE /\ queue' = [queue EXCEPT ![ChannelOf[v]] = Append(@, item)]
           /\ unfinished' = [unfinished EXCEPT ![ChannelOf[v]] = @ + 1]
  BY <1>1, <1>2, <1>3, <1>4, PutStep
<1>5. CASE UNCHANGED <<queue, unfinished>>
  BY <1>3, <1>5 DEF HubInv, ShapeOK, JoinCountsWork
<1> QED
  BY <1>4, <1>5 DEF Put

\* The callers.
LEMMA CallerStep ==
  ASSUME HubInv, NEW v \in Conversations, Caller(v)
  PROVE  HubInv'
<1>1. ASSUME NEW kind \in Emits[v], Enqueue(v, kind)
      PROVE  HubInv'
  <2>1. kind \in Kinds /\ ~closed /\ closing = "none"
    BY <1>1, HubAssumption DEF Kinds, Enqueue, CanCall, HubInv, Swept
  <2>2. /\ queue' \in [Channels -> Seq(AnyItem)]
        /\ unfinished' \in [Channels -> Int]
        /\ ops' \in [Conversations -> Seq(Kinds)]
        /\ JoinCountsWork'
    BY <1>1, <2>1, PutCall DEF Enqueue
  <2>3. worker' \in [Channels -> WorkerStates] /\ HandMatchesWorker'
    BY <1>1 DEF Enqueue, HubInv, ShapeOK, HandMatchesWorker, WorkerStates
  <2>4. UNCHANGED <<hand, cancelled, closed, closing>>
    BY <1>1 DEF Enqueue
  <2>5. ShapeOK' /\ Swept'
    BY <2>1, <2>2, <2>3, <2>4 DEF HubInv, ShapeOK, Swept
  <2> QED
    BY <2>2, <2>3, <2>5 DEF HubInv
<1>2. CASE CloseStream(v)
  <2>1. "close" \in Kinds /\ ~closed /\ closing = "none"
    BY <1>2 DEF Kinds, CloseStream, CanCall, HubInv, Swept
  <2>2. /\ queue' \in [Channels -> Seq(AnyItem)]
        /\ unfinished' \in [Channels -> Int]
        /\ ops' \in [Conversations -> Seq(Kinds)]
        /\ JoinCountsWork'
    BY <1>2, <2>1, PutCall DEF CloseStream
  <2>3. UNCHANGED <<worker, hand, cancelled, closed, closing>>
    BY <1>2 DEF CloseStream
  <2>4. ShapeOK' /\ Swept' /\ HandMatchesWorker'
    BY <2>1, <2>2, <2>3 DEF HubInv, ShapeOK, Swept, HandMatchesWorker
  <2> QED
    BY <2>2, <2>4 DEF HubInv
<1>3. CASE PutProceeds(v)
  <2>1. ops[v] \in Seq(Kinds) /\ ChannelOf[v] \in Channels
    BY HubAssumption DEF HubInv, ShapeOK
  <2>2. <<v, Len(ops[v])>> \in AnyItem
    BY <2>1 DEF AnyItem
  <2>3. /\ queue' \in [Channels -> Seq(AnyItem)]
        /\ unfinished' \in [Channels -> Int]
        /\ JoinCountsWork'
    BY <1>3, <2>1, <2>2, PutStep DEF PutProceeds
  <2>4. UNCHANGED <<worker, hand, cancelled, ops, closed, closing>> /\ ~closed
    BY <1>3 DEF PutProceeds
  <2>5. ShapeOK' /\ Swept' /\ HandMatchesWorker'
    BY <2>3, <2>4 DEF HubInv, ShapeOK, Swept, HandMatchesWorker
  <2> QED
    BY <2>3, <2>5 DEF HubInv
<1>4. CASE PutRefused(v)
  <2>1. Drain /\ UNCHANGED <<worker, hand, cancelled, ops, routed, open, closed, closing>>
    BY <1>4 DEF PutRefused
  <2>2. /\ queue' \in [Channels -> Seq(AnyItem)]
        /\ unfinished' \in [Channels -> Int]
        /\ \A ch \in Channels : queue'[ch] = <<>>
        /\ HandMatchesWorker' /\ JoinCountsWork'
    BY <2>1, DrainStep
  <2>3. ShapeOK' /\ Swept'
    BY <2>1, <2>2 DEF HubInv, ShapeOK, Swept
  <2> QED
    BY <2>2, <2>3 DEF HubInv
<1>5. CASE PutCancelled(v)
  <2>1. UNCHANGED <<queue, unfinished, hand, worker, cancelled, ops, open, closed, closing>>
    BY <1>5 DEF PutCancelled
  <2>2. closed => routed' = routed
    BY <1>5 DEF PutCancelled
  <2>3. ShapeOK' /\ Swept'
    BY <2>1, <2>2 DEF HubInv, ShapeOK, Swept
  <2> QED
    BY <2>1, <2>3, QuietStep DEF HubInv
<1>6. CASE WaitIdle(v) \/ WaitEnds(v)
  <2>1. UNCHANGED <<hubVars, ops>>
    BY <1>6 DEF WaitIdle, WaitEnds
  <2>2. ShapeOK' /\ Swept' /\ UNCHANGED <<queue, unfinished, hand, worker>>
    BY <2>1 DEF HubInv, ShapeOK, Swept, hubVars
  <2> QED
    BY <2>2, QuietStep DEF HubInv
<1> QED
  BY <1>1, <1>2, <1>3, <1>4, <1>5, <1>6 DEF Caller

\* The worker when it neither starts nor ends an item.
LEMMA WorkerQuietStep ==
  ASSUME HubInv, NEW ch \in Channels,
         WorkerStart(ch) \/ RetryAfter(ch) \/ Resend(ch)
  PROVE  HubInv'
<1>1. /\ UNCHANGED <<queue, unfinished, hand, cancelled, routed, open, closed, closing>>
      /\ UNCHANGED ops
      /\ worker[ch] # "none"
  BY DEF WorkerStart, RetryAfter, Resend, callerVars
<1>0. worker' \in [Channels -> WorkerStates]
  BY DEF WorkerStart, RetryAfter, Resend, Loop, HubInv, ShapeOK, WorkerStates
<1>2. HandMatchesWorker'
  BY DEF WorkerStart, RetryAfter, Resend, Loop, HubInv, ShapeOK, HandMatchesWorker
<1>3. JoinCountsWork'
  BY <1>1 DEF HubInv, JoinCountsWork
<1>4. ShapeOK'
  BY <1>0, <1>1 DEF HubInv, ShapeOK
<1>5. Swept'
  BY <1>1 DEF HubInv, Swept
<1> QED
  BY <1>2, <1>3, <1>4, <1>5 DEF HubInv

\* The worker takes an item on which it suspends.
LEMMA WorkerTakesStep ==
  ASSUME HubInv, NEW ch \in Channels,
         TakeDeliverable(ch) \/ TakeDelta(ch) \/ TakeClose(ch)
  PROVE  HubInv'
<1>1. PICK next \in {"chunk", "sending"} : Take(ch, next)
  BY DEF TakeDeliverable, TakeDelta, TakeClose
<1>2. /\ queue' \in [Channels -> Seq(AnyItem)]
      /\ hand' \in [Channels -> AnyItem \cup {Nothing}]
      /\ worker' \in [Channels -> WorkerStates]
      /\ HandMatchesWorker' /\ JoinCountsWork'
  BY <1>1, TakeStep
<1>3. UNCHANGED <<unfinished, cancelled, ops, closed, closing>> /\ worker[ch] = "waiting"
  BY <1>1 DEF Take
<1>4. closing # "done"
  BY <1>3 DEF HubInv, Swept
<1>5. ShapeOK' /\ Swept'
  BY <1>2, <1>3, <1>4 DEF HubInv, ShapeOK, Swept
<1> QED
  BY <1>2, <1>5 DEF HubInv

\* The worker takes and settles an item at once.
LEMMA SkipStep ==
  ASSUME HubInv, NEW ch \in Channels, Skip(ch)
  PROVE  HubInv'
<1>1. /\ queue[ch] \in Seq(AnyItem) /\ queue[ch] # <<>>
      /\ worker[ch] = "waiting"
  BY DEF HubInv, ShapeOK, Skip
<1>2. /\ Tail(queue[ch]) \in Seq(AnyItem)
      /\ Len(Tail(queue[ch])) = Len(queue[ch]) - 1
      /\ Len(queue[ch]) \in Nat
  BY <1>1
<1>3. /\ queue' = [queue EXCEPT ![ch] = Tail(queue[ch])]
      /\ unfinished' = [unfinished EXCEPT ![ch] = unfinished[ch] - 1]
      /\ worker' = [worker EXCEPT ![ch] = Loop]
      /\ UNCHANGED <<hand, cancelled, ops, routed, open, closed, closing>>
  BY DEF Skip
<1>4. ShapeOK'
  BY <1>2, <1>3 DEF HubInv, ShapeOK, Loop, WorkerStates
<1>5. HandMatchesWorker'
  BY <1>1, <1>3 DEF HubInv, ShapeOK, HandMatchesWorker, Loop
<1>6. JoinCountsWork'
  <2> SUFFICES ASSUME NEW d \in Channels
               PROVE  unfinished'[d] = Len(queue'[d]) + (IF hand'[d] = Nothing THEN 0 ELSE 1)
    BY DEF JoinCountsWork
  <2>0. unfinished[d] = Len(queue[d]) + (IF hand[d] = Nothing THEN 0 ELSE 1)
    BY DEF HubInv, JoinCountsWork
  <2>1. CASE d = ch
    <3>1. /\ queue'[d] = Tail(queue[ch])
          /\ unfinished'[d] = unfinished[ch] - 1
          /\ hand'[d] = hand[ch]
      BY <1>3, <2>1 DEF HubInv, ShapeOK
    <3>2. Len(queue'[d]) = Len(queue[d]) - 1 /\ Len(queue[d]) \in Nat
      BY <1>2, <2>1, <3>1
    <3>3. unfinished'[d] = unfinished[d] - 1 /\ hand'[d] = hand[d]
      BY <2>1, <3>1
    <3> QED
      BY <2>0, <3>2, <3>3
  <2>2. CASE d # ch
    BY <1>3, <2>0, <2>2 DEF HubInv, ShapeOK
  <2> QED
    BY <2>1, <2>2
<1>7. Swept'
  BY <1>1, <1>3 DEF HubInv, Swept
<1> QED
  BY <1>4, <1>5, <1>6, <1>7 DEF HubInv

\* The worker ends an item, goes on to report it, or ends itself.
LEMMA WorkerEndsStep ==
  ASSUME HubInv, NEW ch \in Channels,
         \/ Sent(ch) \/ ChunkFails(ch) \/ DeliveryFails(ch) \/ Reported(ch)
         \/ WorkerDies(ch) \/ WorkerCancelled(ch)
  PROVE  HubInv'
<1>1. UNCHANGED <<queue, ops, routed, open, closed, closing>>
  BY DEF Sent, ChunkFails, DeliveryFails, Reported, WorkerDies, WorkerCancelled, workerKeeps
<1>2. cancelled' \in [Channels -> BOOLEAN]
  BY DEF Sent, ChunkFails, DeliveryFails, Reported, WorkerDies, WorkerCancelled, workerKeeps,
         HubInv, ShapeOK
<1>3. CASE /\ hand[ch] # Nothing
           /\ \E next \in {"none", "waiting"} : Finish(ch, next)
  <2>1. /\ unfinished' \in [Channels -> Int]
        /\ hand' \in [Channels -> AnyItem \cup {Nothing}]
        /\ worker' \in [Channels -> WorkerStates]
        /\ HandMatchesWorker' /\ JoinCountsWork'
    BY <1>1, <1>3, FinishStep
  <2>2. worker[ch] # "none"
    BY <1>3 DEF HubInv, HandMatchesWorker
  <2>3. ShapeOK' /\ Swept'
    BY <1>1, <1>2, <2>1, <2>2 DEF HubInv, ShapeOK, Swept
  <2> QED
    BY <2>1, <2>3 DEF HubInv
<1>4. CASE /\ worker[ch] = "sending"
           /\ worker' = [worker EXCEPT ![ch] = "reporting"]
           /\ UNCHANGED <<hand, unfinished>>
  <2>1. worker' \in [Channels -> WorkerStates]
    BY <1>4 DEF HubInv, ShapeOK, WorkerStates
  <2>2. HandMatchesWorker'
    BY <1>4 DEF HubInv, ShapeOK, HandMatchesWorker
  <2>3. JoinCountsWork'
    BY <1>1, <1>4 DEF HubInv, JoinCountsWork
  <2>4. ShapeOK' /\ Swept'
    BY <1>1, <1>2, <1>4, <2>1 DEF HubInv, ShapeOK, Swept
  <2> QED
    BY <2>2, <2>3, <2>4 DEF HubInv
<1>5. CASE Leave(ch)
  <2>1. worker' \in [Channels -> WorkerStates]
    BY <1>5 DEF Leave, HubInv, ShapeOK, WorkerStates
  <2>2. HandMatchesWorker'
    BY <1>5 DEF Leave, HubInv, ShapeOK, HandMatchesWorker
  <2>3. JoinCountsWork'
    BY <1>1, <1>5 DEF Leave, HubInv, JoinCountsWork
  <2>4. ShapeOK' /\ Swept'
    BY <1>1, <1>2, <1>5, <2>1 DEF Leave, HubInv, ShapeOK, Swept
  <2> QED
    BY <2>2, <2>3, <2>4 DEF HubInv
<1>6. Loop \in {"none", "waiting"}
  BY DEF Loop
<1>7. worker[ch] \in {"chunk", "sending", "reporting"} => hand[ch] # Nothing
  BY DEF HubInv, HandMatchesWorker
<1>8. CASE Sent(ch) \/ ChunkFails(ch) \/ Reported(ch) \/ WorkerDies(ch)
  <2>1. worker[ch] \in {"chunk", "sending", "reporting"}
    BY <1>8 DEF Sent, ChunkFails, Reported, WorkerDies
  <2>2. Finish(ch, Loop) \/ Finish(ch, "none")
    BY <1>8 DEF Sent, ChunkFails, Reported, WorkerDies
  <2> QED
    BY <1>3, <1>6, <1>7, <2>1, <2>2
<1>9. CASE DeliveryFails(ch)
  BY <1>3, <1>4, <1>6, <1>7, <1>9 DEF DeliveryFails, Drop
<1>10. CASE WorkerCancelled(ch)
  BY <1>3, <1>5, <1>10 DEF WorkerCancelled
<1> QED
  BY <1>8, <1>9, <1>10

\* Registration and the close.
LEMMA OwnerStep ==
  ASSUME HubInv, (\E ch \in Channels : Register(ch)) \/ Aclose \/ Close
  PROVE  HubInv'
<1>1. CASE \E ch \in Channels : Register(ch)
  BY <1>1, QuietStep DEF Register, callerVars, HubInv, ShapeOK, Swept
<1>2. CASE Aclose
  BY <1>2, QuietStep DEF Aclose, callerVars, HubInv, ShapeOK, Swept
<1>3. CASE CloseCancels
  <2>1. HandMatchesWorker' /\ JoinCountsWork'
    BY <1>3, QuietStep DEF CloseCancels
  <2>2. cancelled' \in [Channels -> BOOLEAN]
    BY <1>3 DEF CloseCancels
  <2>3. ShapeOK' /\ Swept'
    BY <1>3, <2>2 DEF CloseCancels, callerVars, HubInv, ShapeOK, Swept
  <2> QED
    BY <2>1, <2>3 DEF HubInv
<1>4. CASE CloseFinishes
  <2>1. /\ Drain /\ closing' = "done" /\ routed' = {} /\ open' = {}
        /\ \A ch \in Channels : worker[ch] = "none"
        /\ UNCHANGED <<hand, worker, cancelled, ops, closed>>
        /\ closed
    BY <1>4 DEF CloseFinishes, HubInv, Swept
  <2>2. /\ queue' \in [Channels -> Seq(AnyItem)]
        /\ unfinished' \in [Channels -> Int]
        /\ \A ch \in Channels : queue'[ch] = <<>>
        /\ HandMatchesWorker' /\ JoinCountsWork'
    BY <2>1, DrainStep
  <2>3. ShapeOK' /\ Swept'
    BY <2>1, <2>2 DEF HubInv, ShapeOK, Swept
  <2> QED
    BY <2>2, <2>3 DEF HubInv
<1> QED
  BY <1>1, <1>2, <1>3, <1>4 DEF Close

LEMMA NextHub == HubInv /\ [Next]_vars => HubInv'
<1> SUFFICES ASSUME HubInv, [Next]_vars PROVE HubInv'
  OBVIOUS
<1>1. ASSUME NEW ch \in Channels, WorkerMoves(ch) \/ OutletAnswers(ch) \/ WorkerDies(ch)
      PROVE  HubInv'
  BY <1>1, WorkerQuietStep, WorkerTakesStep, SkipStep, WorkerEndsStep
     DEF WorkerMoves, OutletAnswers
<1>2. ASSUME NEW v \in Conversations, Caller(v)
      PROVE  HubInv'
  BY <1>2, CallerStep
<1>3. CASE (\E ch \in Channels : Register(ch)) \/ Aclose \/ Close
  BY <1>3, OwnerStep
<1>4. CASE UNCHANGED vars
  <2>1. UNCHANGED <<queue, unfinished, hand, worker, cancelled, ops, routed, open,
                    closed, closing>>
    BY <1>4 DEF vars, hubVars, callerVars
  <2>2. ShapeOK' /\ Swept'
    BY <2>1 DEF HubInv, ShapeOK, Swept
  <2> QED
    BY <2>1, <2>2, QuietStep DEF HubInv
<1> QED
  BY <1>1, <1>2, <1>3, <1>4 DEF Next, Stopped

LEMMA HubInvariant == Safety => []HubInv
  BY InitHub, NextHub, PTL DEF Safety

\* The counter that wait_idle joins on counts exactly the queued items and the
\* one in the worker's hand, however deliveries fail, callers are cancelled,
\* workers die and the hub closes.
THEOREM JoinCounterIsExact == Safety => []JoinCountsWork
<1>1. HubInv => JoinCountsWork
  BY DEF HubInv
<1> QED
  BY <1>1, HubInvariant, PTL

\* After _finish_close nothing is queued, counted, streamed or served, although
\* callers that were suspended on a full queue run on after it.
THEOREM ClosedHubStaysEmpty == Safety => []ClosedHubIsEmpty
<1>1. HubInv => ClosedHubIsEmpty
  <2> SUFFICES ASSUME HubInv, closing = "done" PROVE ClosedHubIsEmpty
    BY DEF ClosedHubIsEmpty
  <2>1. /\ \A ch \in Channels : queue[ch] = <<>> /\ worker[ch] = "none"
        /\ routed = {} /\ open = {}
    BY DEF HubInv, Swept
  <2>2. \A ch \in Channels : hand[ch] = Nothing
    BY <2>1 DEF HubInv, HandMatchesWorker
  <2>3. \A ch \in Channels : unfinished[ch] = 0
    <3> SUFFICES ASSUME NEW ch \in Channels PROVE unfinished[ch] = 0
      OBVIOUS
    <3>1. unfinished[ch] = Len(queue[ch]) + 0
      BY <2>2 DEF HubInv, JoinCountsWork
    <3>2. Len(queue[ch]) = 0
      BY <2>1
    <3> QED
      BY <3>1, <3>2
  <2> QED
    BY <2>1, <2>3 DEF ClosedHubIsEmpty
<1> QED
  BY <1>1, HubInvariant, PTL

-----------------------------------------------------------------------------
(* Order, streams and the barrier. *)

\* An event that was emitted and is not the one its caller is still putting.
Old(item) ==
  /\ item[1] \in Conversations
  /\ item[2] \in 1 .. Len(ops[item[1]])
  /\ pc[item[1]] = "putting" => item[2] # Len(ops[item[1]])

\* What a channel holds.
Holds(ch) == ToSet(queue[ch]) \cup ({hand[ch]} \ {Nothing})

SeenOld == \A v \in Conversations : \A i \in DOMAIN seen[v] : Old(<<v, seen[v][i]>>)

\* Whatever is queued, handled, waited for or seen was put, on its own channel.
AllOld ==
  /\ \A ch \in Channels : \A item \in Holds(ch) : Old(item) /\ ChannelOf[item[1]] = ch
  /\ \A v \in Conversations : \A item \in barrier[v] : Old(item)
  /\ SeenOld

\* A caller suspended in a put has an event to put.
PuttingSomething == \A v \in Conversations : pc[v] = "putting" => ops[v] # <<>>

\* The queue keeps the order of each conversation and is behind what the outlet
\* has seen of it.
Ordered ==
  /\ \A ch \in Channels : \A i, j \in DOMAIN queue[ch] :
       i < j /\ queue[ch][i][1] = queue[ch][j][1] => queue[ch][i][2] < queue[ch][j][2]
  /\ \A v \in Conversations : \A i \in DOMAIN seen[v], item \in ToSet(queue[ChannelOf[v]]) :
       item[1] = v => seen[v][i] < item[2]
  /\ DeliveryInOrder

\* In an open stream a delta was seen after every done=True chunk.
Streams ==
  /\ \A v \in open : \A i \in DOMAIN seen[v] :
       ops[v][seen[v][i]] = "close" =>
         \E k \in DOMAIN seen[v] : k > i /\ ops[v][seen[v][k]] = "delta"
  /\ OneDonePerStream

OrderInv == TypeOK /\ PuttingSomething /\ AllOld /\ Ordered /\ Streams /\ RenderBarrier

\* The steps in which no caller emits and no outlet is called: the queues and
\* the hands only give away, and a caller is released only by its barrier.
Calm ==
  /\ UNCHANGED <<ops, seen>> /\ open' \subseteq open
  /\ \A ch \in Channels :
       /\ \/ queue'[ch] \in {queue[ch], <<>>}
          \/ queue[ch] # <<>> /\ queue'[ch] = Tail(queue[ch])
       /\ hand'[ch] \in {hand[ch], Nothing}
  /\ pc' \in [Conversations -> {"free", "putting", "joining", "released"}]
  /\ barrier' \in [Conversations -> SUBSET Items]
  /\ \A v \in Conversations :
       /\ pc'[v] = "putting" => pc[v] = "putting"
       /\ pc'[v] = "released" =>
            (pc[v] = "released" /\ barrier'[v] = barrier[v]) \/ unfinished'[ChannelOf[v]] = 0
       /\ barrier'[v] \subseteq barrier[v] \cup Holds(ChannelOf[v])

\* dispatch, post and close_stream.
Emission ==
  /\ \E v \in Conversations, kind \in Kinds : CanCall(v) /\ Put(v, kind)
  /\ UNCHANGED <<hand, open, seen, barrier>>

\* An outlet is called.
Takes(ch) == TakeDeliverable(ch) \/ TakeDelta(ch) \/ TakeClose(ch)

\* A worker's step that calls no outlet.
LEMMA WorkerIsCalm ==
  ASSUME TypeOK, NEW ch \in Channels,
         \/ WorkerStart(ch) \/ Skip(ch) \/ Resend(ch) \/ WorkerCancelled(ch)
         \/ OutletAnswers(ch) \/ WorkerDies(ch)
  PROVE  Calm
<1> USE DEF TypeOK, callerVars, workerKeeps
<1>1. /\ UNCHANGED <<ops, seen, barrier, open>>
      /\ queue' = queue \/ (queue[ch] # <<>> /\ queue' = [queue EXCEPT ![ch] = Tail(@)])
      /\ hand' = hand \/ hand' = [hand EXCEPT ![ch] = Nothing]
      /\ pc' = pc \/ Wake(pc)
  BY DEF WorkerStart, Skip, Resend, WorkerCancelled, OutletAnswers, WorkerDies, Sent, ChunkFails,
         DeliveryFails, Drop, RetryAfter, Reported, Finish, Leave
<1>2. /\ pc' \in [Conversations -> {"free", "putting", "joining", "released"}]
      /\ \A v \in Conversations : pc'[v] = "putting" => pc[v] = "putting"
  BY <1>1 DEF Wake
<1>3. \A v \in Conversations : pc'[v] = "released" =>
        (pc[v] = "released" /\ barrier'[v] = barrier[v]) \/ unfinished'[ChannelOf[v]] = 0
  BY <1>1 DEF Wake, AllDone
<1>4. \A c \in Channels :
        /\ queue'[c] \in {queue[c], <<>>} \/ (queue[c] # <<>> /\ queue'[c] = Tail(queue[c]))
        /\ hand'[c] \in {hand[c], Nothing}
  BY <1>1
<1> QED
  BY <1>1, <1>2, <1>3, <1>4 DEF Calm

\* A caller's step that emits nothing.
LEMMA CallerIsCalm ==
  ASSUME HubInv, TypeOK, NEW v \in Conversations,
         PutRefused(v) \/ PutCancelled(v) \/ WaitIdle(v) \/ WaitEnds(v)
  PROVE  Calm
<1> USE DEF TypeOK, hubVars
<1>1. /\ UNCHANGED <<ops, seen, open, hand>>
      /\ queue' = queue \/ queue' = [ch \in Channels |-> <<>>]
  BY DEF PutRefused, PutCancelled, WaitIdle, WaitEnds, Drain
<1>2. \A ch \in Channels : /\ queue'[ch] \in {queue[ch], <<>>}
                           /\ hand'[ch] \in {hand[ch], Nothing}
  BY <1>1
<1>3. CASE PutRefused(v)
  <2>1. barrier' = barrier /\ Wake([pc EXCEPT ![v] = "free"])
    BY <1>3 DEF PutRefused
  <2> QED
    BY <1>1, <1>2, <2>1 DEF Wake, AllDone, Calm
<1>4. CASE PutCancelled(v)
  <2>1. barrier' = barrier /\ pc' = [pc EXCEPT ![v] = "free"]
    BY <1>4 DEF PutCancelled
  <2> QED
    BY <1>1, <1>2, <2>1 DEF Calm
<1>5. CASE WaitEnds(v)
  <2>1. barrier' = [barrier EXCEPT ![v] = {}] /\ pc' = [pc EXCEPT ![v] = "free"]
    BY <1>5 DEF WaitEnds
  <2> QED
    BY <1>1, <1>2, <2>1 DEF Calm
<1>6. CASE WaitIdle(v)
  <2>1. /\ barrier' = [barrier EXCEPT ![v] = Holds(ChannelOf[v])] /\ unfinished' = unfinished
        /\ pc' = [pc EXCEPT ![v] = IF unfinished[ChannelOf[v]] = 0 THEN "released" ELSE "joining"]
    BY <1>6 DEF WaitIdle, Holds, AllDone
  <2>2. Holds(ChannelOf[v]) \in SUBSET Items
    <3>1. ChannelOf[v] \in Channels
      BY HubAssumption
    <3>2. ToSet(queue[ChannelOf[v]]) \subseteq Items /\ hand[ChannelOf[v]] \in Items \cup {Nothing}
      BY <3>1, ToSetType
    <3> QED
      BY <3>2 DEF Holds
  <2> QED
    BY <1>1, <1>2, <2>1, <2>2 DEF Calm
<1> QED
  BY <1>3, <1>4, <1>5, <1>6

\* Every step is calm, an emission, the end of a suspended put, or a call of an
\* outlet.
LEMMA StepKinds ==
  ASSUME HubInv, TypeOK, [Next]_vars
  PROVE  \/ Calm \/ Emission
         \/ \E v \in Conversations : PutProceeds(v)
         \/ \E ch \in Channels : Takes(ch)
<1> USE DEF callerVars, hubVars
<1>1. ASSUME UNCHANGED <<ops, seen, open, queue, hand, pc, barrier>>  PROVE Calm
  BY <1>1 DEF Calm, TypeOK
<1>2. ASSUME NEW v \in Conversations, Caller(v)
      PROVE  Calm \/ Emission \/ PutProceeds(v)
  <2>1. ASSUME NEW kind \in Emits[v], Enqueue(v, kind)  PROVE Emission
    <3>1. kind \in Kinds
      BY HubAssumption DEF Kinds
    <3> QED
      BY <2>1, <3>1 DEF Enqueue, Emission
  <2>2. CASE CloseStream(v)
    BY <2>2 DEF CloseStream, Emission, Kinds
  <2> QED
    BY <1>2, <2>1, <2>2, CallerIsCalm DEF Caller
<1>3. ASSUME NEW ch \in Channels, Register(ch)  PROVE Calm
  BY <1>1, <1>3 DEF Register
<1>4. CASE Aclose \/ CloseCancels \/ Stopped \/ UNCHANGED vars
  BY <1>1, <1>4 DEF Aclose, CloseCancels, Stopped, vars
<1>5. CASE CloseFinishes
  <2>1. /\ UNCHANGED <<ops, seen, barrier, hand>> /\ open' = {} /\ Wake(pc)
        /\ queue' = [ch \in Channels |-> <<>>]
    BY <1>5 DEF CloseFinishes, Drain
  <2> QED
    BY <2>1 DEF Calm, Wake, AllDone, TypeOK
<1>6. ASSUME NEW ch \in Channels, WorkerMoves(ch) \/ OutletAnswers(ch) \/ WorkerDies(ch)
      PROVE  Calm \/ Takes(ch)
  BY <1>6, WorkerIsCalm DEF WorkerMoves, Takes
<1> QED
  BY <1>2, <1>3, <1>4, <1>5, <1>6 DEF Next, Close

\* The ranges that no other part of the state bears on.
LEMMA SmallTypes ==
  ASSUME TypeOK, [Next]_vars
  PROVE  /\ outlets' \subseteq Channels /\ routed' \subseteq Conversations
         /\ attempt' \in [Channels -> 0 .. Retries]
<1> USE DEF TypeOK, callerVars, hubVars, workerKeeps
<1>1. ASSUME NEW v \in Conversations, Caller(v)
      PROVE  UNCHANGED <<outlets, attempt>> /\ routed' \subseteq Conversations
  BY <1>1 DEF Caller, Enqueue, CloseStream, WaitIdle, PutProceeds, PutRefused, PutCancelled, WaitEnds
<1>2. ASSUME NEW ch \in Channels, Register(ch)
      PROVE  outlets' \subseteq Channels /\ UNCHANGED <<routed, attempt>>
  BY <1>2 DEF Register
<1>3. CASE Aclose \/ Close \/ Stopped \/ UNCHANGED vars
  BY <1>3 DEF Aclose, Close, CloseCancels, CloseFinishes, Stopped, vars
<1>4. ASSUME NEW ch \in Channels, WorkerMoves(ch) \/ OutletAnswers(ch) \/ WorkerDies(ch)
      PROVE  /\ UNCHANGED <<outlets, routed>>
             /\ \/ UNCHANGED attempt
                \/ attempt' = [attempt EXCEPT ![ch] = 0]
                \/ attempt[ch] < Retries /\ attempt' = [attempt EXCEPT ![ch] = @ + 1]
  <2>1. CASE WorkerStart(ch) \/ TakeDeliverable(ch) \/ TakeDelta(ch) \/ TakeClose(ch)
               \/ Skip(ch) \/ Resend(ch) \/ RetryAfter(ch)
    BY <2>1 DEF WorkerStart, TakeDeliverable, TakeDelta, TakeClose, Take, Skip, Resend, RetryAfter
  <2>2. CASE Sent(ch) \/ ChunkFails(ch) \/ DeliveryFails(ch) \/ Reported(ch) \/ WorkerDies(ch)
               \/ WorkerCancelled(ch)
    BY <2>2 DEF Sent, ChunkFails, DeliveryFails, Drop, Reported, WorkerDies, WorkerCancelled,
                Leave, Finish
  <2> QED
    BY <1>4, <2>1, <2>2 DEF WorkerMoves, OutletAnswers
<1>5. ASSUME NEW ch \in Channels, WorkerMoves(ch) \/ OutletAnswers(ch) \/ WorkerDies(ch)
      PROVE  attempt' \in [Channels -> 0 .. Retries]
  <2>1. Retries \in Nat /\ attempt \in [Channels -> 0 .. Retries]
    BY HubAssumption
  <2>2. CASE attempt[ch] < Retries /\ attempt' = [attempt EXCEPT ![ch] = @ + 1]
    <3>1. attempt[ch] \in 0 .. Retries /\ attempt[ch] + 1 \in 0 .. Retries
      BY <2>1, <2>2
    <3> QED
      BY <2>1, <2>2, <3>1
  <2>3. CASE attempt' = [attempt EXCEPT ![ch] = 0]
    BY <2>1, <2>3
  <2> QED
    BY <1>4, <1>5, <2>2, <2>3
<1> QED
  BY <1>1, <1>2, <1>3, <1>4, <1>5 DEF Next

\* The rest of the type invariant.
HistoryOK ==
  /\ queue \in [Channels -> Seq(Items)]
  /\ \A ch \in Channels : Len(queue[ch]) <= QueueMax
  /\ hand \in [Channels -> Items \cup {Nothing}]
  /\ open \subseteq Conversations
  /\ pc \in [Conversations -> {"free", "putting", "joining", "released"}]
  /\ barrier \in [Conversations -> SUBSET Items]
  /\ \A v \in Conversations : Len(ops[v]) <= MaxOps[v]
  /\ seen \in [Conversations -> Seq(Nat \ {0})]

LEMMA TypeFromParts ==
  ASSUME TypeOK, [Next]_vars, HubInv', HistoryOK'
  PROVE  TypeOK'
<1>1. unfinished' \in [Channels -> Nat]
  <2>1. unfinished' \in [Channels -> Int]
    BY DEF HubInv, ShapeOK
  <2>2. ASSUME NEW ch \in Channels  PROVE unfinished'[ch] \in Nat
    <3>1. \/ unfinished'[ch] = Len(queue'[ch]) + 0
          \/ unfinished'[ch] = Len(queue'[ch]) + 1
      BY DEF HubInv, JoinCountsWork
    <3>2. queue'[ch] \in Seq(Items)
      BY DEF HistoryOK
    <3>3. Len(queue'[ch]) \in Nat
      BY ONLY <3>2
    <3> QED
      BY ONLY <3>1, <3>3
  <2> QED
    BY <2>1, <2>2
<1>2. /\ outlets' \subseteq Channels /\ routed' \subseteq Conversations
      /\ attempt' \in [Channels -> 0 .. Retries]
  BY SmallTypes
<1>3. /\ worker' \in [Channels -> WorkerStates] /\ cancelled' \in [Channels -> BOOLEAN]
      /\ ops' \in [Conversations -> Seq(Kinds)]
      /\ closed' \in BOOLEAN /\ closing' \in {"none", "sealed", "gathering", "done"}
  BY DEF HubInv, ShapeOK
<1> QED
  BY <1>1, <1>2, <1>3 DEF TypeOK, HistoryOK

\* What was put stays put.
LEMMA OldKept ==
  ASSUME TypeOK, NEW item, Old(item),
         \A v \in Conversations :
           /\ ops'[v] = ops[v] \/ \E kind \in Kinds : ops'[v] = Append(ops[v], kind)
           /\ pc'[v] = "putting" /\ ops'[v] = ops[v] => pc[v] = "putting"
  PROVE  Old(item)' /\ Kind(item)' = Kind(item)
<1> DEFINE v == item[1]
           n == item[2]
<1>1. v \in Conversations /\ n \in 1 .. Len(ops[v]) /\ (pc[v] = "putting" => n # Len(ops[v]))
  BY DEF Old
<1>2. ops[v] \in Seq(Kinds)
  BY <1>1 DEF TypeOK
<1>3. CASE ops'[v] = ops[v]
  BY <1>1, <1>3 DEF Old, Kind
<1>4. CASE \E kind \in Kinds : ops'[v] = Append(ops[v], kind)
  <2>1. PICK kind \in Kinds : ops'[v] = Append(ops[v], kind)
    BY <1>4
  <2>2. Len(ops'[v]) = Len(ops[v]) + 1 /\ Len(ops[v]) \in Nat /\ ops'[v][n] = ops[v][n]
    BY <1>1, <1>2, <2>1, AppendIndex
  <2> QED
    BY <1>1, <2>2 DEF Old, Kind
<1> QED
  BY <1>1, <1>3, <1>4

\* Where what an outlet saw does not change, its order and its streams do not.
LEMMA HistoryKept ==
  ASSUME OrderInv, UNCHANGED seen, open' \subseteq open,
         \A item \in Items : Old(item) => Old(item)' /\ Kind(item)' = Kind(item)
  PROVE  /\ SeenOld'
         /\ DeliveryInOrder' /\ Streams'
<1>1. ASSUME NEW v \in Conversations, NEW i \in DOMAIN seen[v]
      PROVE  Old(<<v, seen[v][i]>>)' /\ ops'[v][seen[v][i]] = ops[v][seen[v][i]]
  <2>1. seen[v][i] \in Nat \ {0}
    BY DEF OrderInv, TypeOK
  <2>2. PICK item : item = <<v, seen[v][i]>>
    OBVIOUS
  <2>3. item \in Items /\ Old(item)
    BY <2>1, <2>2 DEF Items, OrderInv, AllOld, SeenOld
  <2>4. Old(item)' /\ Kind(item)' = Kind(item)
    BY <2>3
  <2>5. item[1] = v /\ item[2] = seen[v][i]
    BY <2>2
  <2>6. Old(<<v, seen[v][i]>>)'
    BY <2>2, <2>4, <2>5 DEF Old
  <2> QED
    BY <2>4, <2>5, <2>6 DEF Kind
<1>2. DeliveryInOrder'
  BY DEF OrderInv, Ordered, DeliveryInOrder
<1>3. OneDonePerStream'
  <2> SUFFICES ASSUME NEW v \in Conversations, NEW i \in DOMAIN seen[v], NEW j \in DOMAIN seen[v],
                      i < j, ops'[v][seen[v][i]] = "close", ops'[v][seen[v][j]] = "close"
               PROVE  \E k \in i .. j : ops'[v][seen[v][k]] = "delta"
    BY DEF OneDonePerStream
  <2>1. ops[v][seen[v][i]] = "close" /\ ops[v][seen[v][j]] = "close"
    BY <1>1
  <2>2. PICK k \in i .. j : ops[v][seen[v][k]] = "delta"
    BY <2>1 DEF OrderInv, Streams, OneDonePerStream
  <2>3. k \in DOMAIN seen[v]
    <3>1. seen[v] \in Seq(Nat \ {0})
      BY DEF OrderInv, TypeOK
    <3> QED
      BY <3>1
  <2> QED
    BY <1>1, <2>2, <2>3
<1>4. ASSUME NEW v \in open, NEW i \in DOMAIN seen[v], ops'[v][seen[v][i]] = "close"
      PROVE  \E k \in DOMAIN seen[v] : k > i /\ ops'[v][seen[v][k]] = "delta"
  <2>1. v \in Conversations
    BY DEF OrderInv, TypeOK
  <2>2. ops[v][seen[v][i]] = "close"
    BY <1>1, <1>4, <2>1
  <2>3. PICK k \in DOMAIN seen[v] : k > i /\ ops[v][seen[v][k]] = "delta"
    BY <2>2 DEF OrderInv, Streams
  <2> QED
    BY <1>1, <2>1, <2>3
<1> QED
  BY <1>1, <1>2, <1>3, <1>4 DEF Streams, SeenOld

\* The first part of Ordered, for one queue.
InOrder(s) == \A i, j \in DOMAIN s : i < j /\ s[i][1] = s[j][1] => s[i][2] < s[j][2]

\* A tail of an ordered queue is ordered, and its head comes before all of it.
LEMMA TailInOrder ==
  ASSUME NEW s \in Seq(Items), s # <<>>, InOrder(s)
  PROVE  /\ InOrder(Tail(s))
         /\ \A item \in ToSet(Tail(s)) : item[1] = Head(s)[1] => Head(s)[2] < item[2]
<1>1. /\ DOMAIN Tail(s) = 1 .. Len(s) - 1 /\ Len(s) \in Nat \ {0} /\ DOMAIN s = 1 .. Len(s)
      /\ \A i \in 1 .. Len(s) - 1 : Tail(s)[i] = s[i + 1]
      /\ Head(s) = s[1]
  BY TailIndex
<1>2. ASSUME NEW i \in 1 .. Len(s) - 1, NEW j \in 1 .. Len(s) - 1, i < j,
             s[i + 1][1] = s[j + 1][1]
      PROVE  s[i + 1][2] < s[j + 1][2]
  <2>1. i + 1 \in DOMAIN s /\ j + 1 \in DOMAIN s /\ i + 1 < j + 1
    BY <1>1, <1>2
  <2> QED
    BY <1>2, <2>1 DEF InOrder
<1>3. InOrder(Tail(s))
  BY <1>1, <1>2 DEF InOrder
<1>4. ASSUME NEW i \in 1 .. Len(s) - 1, s[i + 1][1] = s[1][1]
      PROVE  s[1][2] < s[i + 1][2]
  <2>1. i + 1 \in DOMAIN s /\ 1 \in DOMAIN s /\ 1 < i + 1
    BY <1>1, <1>4
  <2> QED
    BY <1>4, <2>1 DEF InOrder
<1> QED
  BY <1>1, <1>3, <1>4 DEF ToSet

\* An ordered queue stays so when a later event of a conversation comes in.
LEMMA AppendInOrder ==
  ASSUME NEW s \in Seq(Items), NEW e \in Items, InOrder(s),
         \A item \in ToSet(s) : item[1] = e[1] => item[2] < e[2]
  PROVE  InOrder(Append(s, e))
<1>1. /\ DOMAIN s = 1 .. Len(s) /\ DOMAIN Append(s, e) = 1 .. Len(s) + 1 /\ Len(s) \in Nat
      /\ \A i \in 1 .. Len(s) : Append(s, e)[i] = s[i]
      /\ Append(s, e)[Len(s) + 1] = e
  BY AppendIndex
<1>2. \A i \in 1 .. Len(s) : s[i] \in ToSet(s)
  BY <1>1 DEF ToSet
<1> SUFFICES ASSUME NEW i \in 1 .. Len(s) + 1, NEW j \in 1 .. Len(s) + 1, i < j,
                    Append(s, e)[i][1] = Append(s, e)[j][1]
             PROVE  Append(s, e)[i][2] < Append(s, e)[j][2]
  BY <1>1 DEF InOrder
<1>3. i \in 1 .. Len(s) /\ Append(s, e)[i] = s[i]
  BY <1>1
<1>4. CASE j = Len(s) + 1
  BY <1>1, <1>2, <1>3, <1>4
<1>5. CASE j \in 1 .. Len(s)
  BY <1>1, <1>3, <1>5 DEF InOrder
<1> QED
  BY <1>1, <1>4, <1>5

\* Items that are held are items.
LEMMA HeldItems ==
  TypeOK => \A ch \in Channels : Holds(ch) \subseteq Items /\ ToSet(queue[ch]) \subseteq Items
<1> SUFFICES ASSUME TypeOK, NEW ch \in Channels
             PROVE  Holds(ch) \subseteq Items /\ ToSet(queue[ch]) \subseteq Items
  OBVIOUS
<1>1. queue[ch] \in Seq(Items) /\ hand[ch] \in Items \cup {Nothing}
  BY DEF TypeOK
<1>2. ToSet(queue[ch]) \subseteq Items
  BY <1>1, ToSetType
<1> QED
  BY <1>1, <1>2 DEF Holds

\* The barrier holds if nobody new is released and the channels give away, or
\* if the one released finds his channel with no unfinished item.
LEMMA BarrierKept ==
  ASSUME RenderBarrier, HistoryOK', HubInv',
         \A v \in Conversations : pc'[v] = "released" =>
           \/ unfinished'[ChannelOf[v]] = 0
           \/ /\ pc[v] = "released" /\ barrier'[v] = barrier[v]
              /\ \A item \in barrier[v] :
                   item \in Holds(ChannelOf[v])' => item \in Holds(ChannelOf[v])
  PROVE  RenderBarrier'
<1> SUFFICES ASSUME NEW v \in Conversations, pc'[v] = "released"
             PROVE  barrier'[v] \cap (ToSet(queue'[ChannelOf[v]]) \cup {hand'[ChannelOf[v]]}) = {}
  BY DEF RenderBarrier
<1> DEFINE ch == ChannelOf[v]
<1>1. ch \in Channels
  BY HubAssumption
<1>2. Nothing \notin barrier'[v]
  <2>1. barrier'[v] \subseteq Items
    BY DEF HistoryOK
  <2> QED
    BY <2>1 DEF Items, Nothing
<1> HIDE DEF ch
<1>3. CASE unfinished'[ch] = 0
  <2>1. queue'[ch] \in Seq(Items)
    BY <1>1 DEF HistoryOK
  <2>2. \/ hand'[ch] = Nothing /\ Len(queue'[ch]) + 0 = 0
        \/ Len(queue'[ch]) + 1 = 0
    BY <1>1, <1>3 DEF HubInv, JoinCountsWork
  <2>3. Len(queue'[ch]) \in Nat
    BY ONLY <2>1
  <2>4. hand'[ch] = Nothing /\ Len(queue'[ch]) = 0
    BY ONLY <2>2, <2>3
  <2>5. queue'[ch] = <<>>
    BY <2>1, <2>4
  <2>6. ToSet(queue'[ch]) = {}
    BY <2>5, EmptySet
  <2> QED
    BY <1>2, <2>4, <2>6 DEF ch
<1>4. CASE /\ pc[v] = "released" /\ barrier'[v] = barrier[v]
           /\ \A item \in barrier[v] : item \in Holds(ch)' => item \in Holds(ch)
  <2>1. barrier[v] \cap (ToSet(queue[ch]) \cup {hand[ch]}) = {}
    BY <1>4 DEF RenderBarrier, ch
  <2>2. ASSUME NEW item \in barrier'[v], item \in ToSet(queue'[ch]) \cup {hand'[ch]}
        PROVE  FALSE
    <3>1. item \in Holds(ch)'
      BY <1>2, <2>2 DEF Holds, ch
    <3>2. item \in Holds(ch)
      BY <1>4, <2>2, <3>1
    <3> QED
      BY <1>4, <2>1, <2>2, <3>2 DEF Holds
  <2> QED
    BY <2>2 DEF ch
<1> QED
  BY <1>3, <1>4 DEF ch

\* A calm step.
LEMMA CalmOrder ==
  ASSUME OrderInv, HubInv', Calm
  PROVE  HistoryOK' /\ PuttingSomething' /\ AllOld' /\ Ordered' /\ Streams' /\ RenderBarrier'
<1>t. TypeOK /\ ops' = ops /\ seen' = seen /\ open' \subseteq open
  BY DEF OrderInv, Calm
<1>1. ASSUME NEW item \in Items, Old(item)
      PROVE  Old(item)' /\ Kind(item)' = Kind(item)
  <2>1. \A v \in Conversations : ops'[v] = ops[v] /\ (pc'[v] = "putting" => pc[v] = "putting")
    BY <1>t DEF Calm
  <2> QED
    BY <1>1, <1>t, <2>1, OldKept
<1>2. ASSUME NEW ch \in Channels
      PROVE  /\ queue'[ch] \in Seq(Items) /\ Len(queue'[ch]) <= QueueMax
             /\ InOrder(queue'[ch]) /\ ToSet(queue'[ch]) \subseteq ToSet(queue[ch])
  <2>1. /\ queue[ch] \in Seq(Items) /\ Len(queue[ch]) <= QueueMax /\ InOrder(queue[ch])
        /\ QueueMax \in Nat
    BY HubAssumption DEF OrderInv, TypeOK, Ordered, InOrder
  <2>2. CASE queue'[ch] = queue[ch]
    BY <2>1, <2>2
  <2>3. CASE queue'[ch] = <<>>
    <3>1. InOrder(<<>>) /\ ToSet(<<>>) = {}
      BY EmptySet DEF InOrder
    <3> QED
      BY <2>1, <2>3, <3>1
  <2>4. CASE queue[ch] # <<>> /\ queue'[ch] = Tail(queue[ch])
    <3>1. /\ Tail(queue[ch]) \in Seq(Items) /\ Len(Tail(queue[ch])) = Len(queue[ch]) - 1
          /\ Len(queue[ch]) \in Nat \ {0} /\ ToSet(Tail(queue[ch])) \subseteq ToSet(queue[ch])
      BY <2>1, <2>4, TailIndex
    <3>2. InOrder(Tail(queue[ch]))
      BY <2>1, <2>4, TailInOrder
    <3>3. Len(Tail(queue[ch])) <= QueueMax
      BY <2>1, <3>1
    <3> QED
      BY <2>4, <3>1, <3>2, <3>3
  <2> QED
    BY <2>2, <2>3, <2>4 DEF Calm
<1>3. ASSUME NEW ch \in Channels
      PROVE  Holds(ch)' \subseteq Holds(ch)
  <2>1. hand'[ch] \in {hand[ch], Nothing}
    BY DEF Calm
  <2> QED
    BY <1>2, <2>1 DEF Holds
<1>4. HistoryOK'
  <2>1. queue' \in [Channels -> Seq(Items)]
    BY <1>2 DEF HubInv, ShapeOK
  <2>2. hand' \in [Channels -> Items \cup {Nothing}]
    BY <1>t DEF HubInv, ShapeOK, Calm, TypeOK
  <2>3. /\ open' \subseteq Conversations /\ seen' \in [Conversations -> Seq(Nat \ {0})]
        /\ \A v \in Conversations : Len(ops'[v]) <= MaxOps[v]
    BY <1>t DEF TypeOK
  <2> QED
    BY <1>2, <2>1, <2>2, <2>3 DEF HistoryOK, Calm
<1>5. PuttingSomething'
  BY <1>t DEF OrderInv, PuttingSomething, Calm
<1>6. SeenOld' /\ DeliveryInOrder' /\ Streams'
  BY <1>t, <1>1, HistoryKept
<1>7. AllOld'
  <2>1. ASSUME NEW ch \in Channels, NEW item \in Holds(ch)'
        PROVE  Old(item)' /\ ChannelOf[item[1]] = ch
    <3>1. item \in Holds(ch) /\ item \in Items
      BY <1>3, <1>t, HeldItems
    <3>2. Old(item) /\ ChannelOf[item[1]] = ch
      BY <3>1 DEF OrderInv, AllOld
    <3> QED
      BY <1>1, <3>1, <3>2
  <2>2. ASSUME NEW v \in Conversations, NEW item \in barrier'[v]
        PROVE  Old(item)'
    <3>1. ChannelOf[v] \in Channels
      BY HubAssumption
    <3>2. item \in barrier[v] \cup Holds(ChannelOf[v]) /\ item \in Items
      BY <1>4 DEF Calm, HistoryOK
    <3>3. Old(item)
      BY <3>1, <3>2 DEF OrderInv, AllOld
    <3> QED
      BY <1>1, <3>2, <3>3
  <2> QED
    BY <1>6, <2>1, <2>2 DEF AllOld
<1>8. Ordered'
  <2>1. ASSUME NEW v \in Conversations, NEW i \in DOMAIN seen[v],
               NEW item \in ToSet(queue'[ChannelOf[v]]), item[1] = v
        PROVE  seen[v][i] < item[2]
    <3>1. ChannelOf[v] \in Channels
      BY HubAssumption
    <3>2. item \in ToSet(queue[ChannelOf[v]])
      BY <1>2, <2>1, <3>1
    <3> QED
      BY <2>1, <3>2 DEF OrderInv, Ordered
  <2> QED
    BY <1>2, <1>6, <1>t, <2>1 DEF Ordered, InOrder
<1>9. RenderBarrier'
  <2>1. \A v \in Conversations : ChannelOf[v] \in Channels
    BY HubAssumption
  <2>2. \A v \in Conversations : pc'[v] = "released" =>
           \/ unfinished'[ChannelOf[v]] = 0
           \/ /\ pc[v] = "released" /\ barrier'[v] = barrier[v]
              /\ \A item \in barrier[v] :
                   item \in Holds(ChannelOf[v])' => item \in Holds(ChannelOf[v])
    BY <1>3, <2>1 DEF Calm
  <2>3. RenderBarrier
    BY DEF OrderInv
  <2> QED
    BY <1>4, <2>2, <2>3, BarrierKept
<1> QED
  BY <1>4, <1>5, <1>6, <1>7, <1>8, <1>9

\* An event comes into the queue of its channel behind all earlier ones.
LEMMA PutOrder ==
  ASSUME OrderInv, HubInv', NEW v \in Conversations, NEW n \in Nat \ {0},
         Len(queue[ChannelOf[v]]) < QueueMax,
         queue' = [queue EXCEPT ![ChannelOf[v]] = Append(@, <<v, n>>)],
         UNCHANGED <<hand, open, seen, barrier>>,
         \A item \in Items : Old(item) => Old(item)' /\ Kind(item)' = Kind(item),
         \A item \in Items : Old(item) /\ item[1] = v => item[2] < n,
         (v \in Conversations /\ n \in 1 .. Len(ops[v]) /\ pc[v] # "putting")',
         pc' \in [Conversations -> {"free", "putting", "joining", "released"}],
         \A w \in Conversations : Len(ops'[w]) <= MaxOps[w],
         \A w \in Conversations : pc'[w] = "released" => pc[w] = "released"
  PROVE  HistoryOK' /\ AllOld' /\ Ordered' /\ Streams' /\ RenderBarrier'
<1> DEFINE ch == ChannelOf[v]
<1>c. ch \in Channels /\ QueueMax \in Nat
  BY HubAssumption
<1>t. TypeOK
  BY DEF OrderInv
<1>n. PICK new : new = <<v, n>>
  OBVIOUS
<1>1. /\ new \in Items /\ new[1] = v /\ new[2] = n /\ ~Old(new) /\ Old(new)'
      /\ \A item \in Items : Old(item) /\ item[1] = v => item[2] < n
  <2>1. new \in Items /\ new[1] = v /\ new[2] = n
    BY <1>n DEF Items
  <2>2. ~(n < n)
    OBVIOUS
  <2>3. ~Old(new)
    BY <2>1, <2>2
  <2>4. Old(new)'
    BY <2>1 DEF Old
  <2> QED
    BY <2>1, <2>3, <2>4
<1> HIDE DEF ch
<1>2. /\ queue[ch] \in Seq(Items) /\ InOrder(queue[ch])
      /\ \A item \in ToSet(queue[ch]) : Old(item) /\ item \in Items
  <2>1. queue[ch] \in Seq(Items)
    BY <1>c, <1>t DEF TypeOK
  <2>2. InOrder(queue[ch])
    BY <1>c DEF OrderInv, Ordered, InOrder
  <2>3. \A item \in ToSet(queue[ch]) : Old(item)
    BY <1>c DEF OrderInv, AllOld, Holds
  <2> QED
    BY <2>1, <2>2, <2>3, ToSetType
<1>3. /\ queue'[ch] = Append(queue[ch], new)
      /\ \A d \in Channels \ {ch} : queue'[d] = queue[d]
  BY <1>c, <1>n, <1>t DEF TypeOK, ch
<1>4. /\ queue'[ch] \in Seq(Items) /\ Len(queue'[ch]) = Len(queue[ch]) + 1
      /\ Len(queue[ch]) \in Nat
  <2>0. queue[ch] \in Seq(Items) /\ new \in Items
    BY <1>1, <1>2
  <2>1. /\ Append(queue[ch], new) \in Seq(Items) /\ Len(queue[ch]) \in Nat
        /\ Len(Append(queue[ch], new)) = Len(queue[ch]) + 1
    BY ONLY <2>0, AppendIndex
  <2> QED
    BY <1>3, <2>1
<1>5. ToSet(queue'[ch]) = ToSet(queue[ch]) \cup {new}
  <2>0. queue[ch] \in Seq(Items) /\ new \in Items
    BY <1>1, <1>2
  <2>1. ToSet(Append(queue[ch], new)) = ToSet(queue[ch]) \cup {new}
    BY ONLY <2>0, AppendSet
  <2> QED
    BY <1>3, <2>1
<1>6. InOrder(queue'[ch])
  BY <1>1, <1>2, <1>3, AppendInOrder
<1>7. \A d \in Channels : Holds(d)' \subseteq Holds(d) \cup (IF d = ch THEN {new} ELSE {})
  BY <1>3, <1>5 DEF Holds
<1>8. HistoryOK'
  <2>1. queue' \in [Channels -> Seq(Items)]
    BY <1>3, <1>4, <1>t DEF HubInv, ShapeOK, TypeOK
  <2>2. Len(queue'[ch]) <= QueueMax
    BY <1>4, <1>c DEF ch
  <2>3. \A d \in Channels : Len(queue'[d]) <= QueueMax
    BY <1>3, <1>t, <2>2 DEF TypeOK
  <2>4. /\ hand' \in [Channels -> Items \cup {Nothing}] /\ open' \subseteq Conversations
        /\ barrier' \in [Conversations -> SUBSET Items]
        /\ seen' \in [Conversations -> Seq(Nat \ {0})]
    BY <1>t DEF TypeOK
  <2> QED
    BY <2>1, <2>3, <2>4 DEF HistoryOK
<1>9. SeenOld' /\ DeliveryInOrder' /\ Streams'
  BY HistoryKept
<1>10. AllOld'
  <2>1. ASSUME NEW d \in Channels, NEW item \in Holds(d)'
        PROVE  Old(item)' /\ ChannelOf[item[1]] = d
    <3>1. CASE item \in Holds(d)
      <4>1. item \in Items /\ Old(item) /\ ChannelOf[item[1]] = d
        BY <1>t, <3>1, HeldItems DEF OrderInv, AllOld
      <4> QED
        BY <4>1
    <3>2. CASE d = ch /\ item = new
      BY <1>1, <3>2 DEF ch
    <3> QED
      BY <1>7, <2>1, <3>1, <3>2
  <2>2. ASSUME NEW w \in Conversations, NEW item \in barrier'[w]
        PROVE  Old(item)'
    <3>1. item \in barrier[w] /\ item \in Items
      BY <1>t, <2>2 DEF TypeOK
    <3>2. Old(item)
      BY <3>1 DEF OrderInv, AllOld
    <3> QED
      BY <3>1, <3>2
  <2> QED
    BY <1>9, <2>1, <2>2 DEF AllOld
<1>11. Ordered'
  <2>1. ASSUME NEW w \in Conversations, NEW i \in DOMAIN seen[w],
               NEW item \in ToSet(queue'[ChannelOf[w]]), item[1] = w
        PROVE  seen[w][i] < item[2]
    <3>1. ChannelOf[w] \in Channels
      BY HubAssumption
    <3>2. CASE item \in ToSet(queue[ChannelOf[w]])
      BY <2>1, <3>2 DEF OrderInv, Ordered
    <3>3. CASE item = new
      <4>1. w = v /\ item[2] = n
        BY <1>1, <2>1, <3>3
      <4>2. PICK old : old = <<w, seen[w][i]>>
        OBVIOUS
      <4>3. seen[w][i] \in Nat \ {0}
        BY <1>t DEF TypeOK
      <4>4. old \in Items /\ Old(old) /\ old[1] = v /\ old[2] = seen[w][i]
        BY <4>1, <4>2, <4>3 DEF Items, OrderInv, AllOld, SeenOld
      <4> QED
        BY <1>1, <4>1, <4>4
    <3> QED
      BY <1>3, <1>5, <2>1, <3>1, <3>2, <3>3
  <2>2. \A d \in Channels : InOrder(queue'[d])
    BY <1>3, <1>6 DEF OrderInv, Ordered, InOrder
  <2> QED
    BY <1>9, <2>1, <2>2 DEF Ordered, InOrder
<1>12. RenderBarrier'
  <2>1. ASSUME NEW w \in Conversations, pc'[w] = "released"
        PROVE  /\ pc[w] = "released" /\ barrier'[w] = barrier[w]
               /\ \A item \in barrier[w] :
                    item \in Holds(ChannelOf[w])' => item \in Holds(ChannelOf[w])
    <3>1. ChannelOf[w] \in Channels
      BY HubAssumption
    <3>2. \A item \in barrier[w] : item # new
      BY <1>1 DEF OrderInv, AllOld
    <3> QED
      BY <1>7, <2>1, <3>1, <3>2
  <2>2. RenderBarrier
    BY DEF OrderInv
  <2> QED
    BY <1>8, <2>1, <2>2, BarrierKept
<1> QED
  BY <1>8, <1>9, <1>10, <1>11, <1>12

\* A suspended put that finds a place.
LEMMA PutProceedsOrder ==
  ASSUME OrderInv, HubInv', NEW v \in Conversations, PutProceeds(v)
  PROVE  HistoryOK' /\ PuttingSomething' /\ AllOld' /\ Ordered' /\ Streams' /\ RenderBarrier'
<1>t. TypeOK /\ PuttingSomething
  BY DEF OrderInv
<1>1. PICK n : n = Len(ops[v])
  OBVIOUS
<1>2. /\ pc[v] = "putting" /\ pc' = [pc EXCEPT ![v] = "free"] /\ ops' = ops
      /\ Len(queue[ChannelOf[v]]) < QueueMax
      /\ queue' = [queue EXCEPT ![ChannelOf[v]] = Append(@, <<v, n>>)]
      /\ UNCHANGED <<hand, open, seen, barrier>>
  BY <1>1 DEF PutProceeds
<1>3. n \in Nat \ {0}
  <2>1. ops[v] \in Seq(Kinds) /\ ops[v] # <<>>
    BY <1>2, <1>t DEF TypeOK, PuttingSomething
  <2> QED
    BY <1>1, <2>1
<1>4. /\ pc' \in [Conversations -> {"free", "putting", "joining", "released"}]
      /\ \A w \in Conversations : Len(ops'[w]) <= MaxOps[w]
      /\ \A w \in Conversations : pc'[w] = "released" => pc[w] = "released"
      /\ \A w \in Conversations : ops'[w] = ops[w] /\ (pc'[w] = "putting" => pc[w] = "putting")
      /\ pc'[v] = "free"
  BY <1>2, <1>t DEF TypeOK
<1>5. \A item \in Items : Old(item) => Old(item)' /\ Kind(item)' = Kind(item)
  BY <1>4, <1>t, OldKept
<1>6. ASSUME NEW item \in Items, Old(item), item[1] = v  PROVE item[2] < n
  <2>1. item[2] \in 1 .. n /\ item[2] # n
    BY <1>1, <1>2, <1>6 DEF Old
  <2> QED
    BY <1>3, <2>1
<1>7. (v \in Conversations /\ n \in 1 .. Len(ops[v]) /\ pc[v] # "putting")'
  BY <1>1, <1>2, <1>3, <1>4
<1>8. HistoryOK' /\ AllOld' /\ Ordered' /\ Streams' /\ RenderBarrier'
  BY <1>2, <1>3, <1>4, <1>5, <1>6, <1>7, PutOrder
<1>9. PuttingSomething'
  BY <1>2, <1>4, <1>t DEF PuttingSomething
<1> QED
  BY <1>8, <1>9

\* An emission: the event finds a place, or its caller is suspended with it.
LEMMA EmissionOrder ==
  ASSUME OrderInv, HubInv', Emission
  PROVE  HistoryOK' /\ PuttingSomething' /\ AllOld' /\ Ordered' /\ Streams' /\ RenderBarrier'
<1>t. TypeOK /\ PuttingSomething
  BY DEF OrderInv
<1>1. PICK v \in Conversations, kind \in Kinds : CanCall(v) /\ Put(v, kind)
  BY DEF Emission
<1>2. PICK n : n = Len(ops[v]) + 1
  OBVIOUS
<1>3. /\ pc[v] = "free" /\ Len(ops[v]) < MaxOps[v] /\ UNCHANGED <<hand, open, seen, barrier>>
      /\ ops' = [ops EXCEPT ![v] = Append(@, kind)]
  BY <1>1 DEF CanCall, Put, Emission
<1>4. /\ ops[v] \in Seq(Kinds) /\ Len(ops[v]) \in Nat /\ n \in Nat \ {0}
      /\ ops'[v] = Append(ops[v], kind) /\ Len(ops'[v]) = n
      /\ \A w \in Conversations \ {v} : ops'[w] = ops[w]
  <2>1. ops[v] \in Seq(Kinds)
    BY <1>t DEF TypeOK
  <2>2. ops'[v] = Append(ops[v], kind) /\ \A w \in Conversations \ {v} : ops'[w] = ops[w]
    BY <1>3, <1>t DEF TypeOK
  <2>3. Len(Append(ops[v], kind)) = Len(ops[v]) + 1 /\ Len(ops[v]) \in Nat
    BY <2>1, AppendIndex
  <2> QED
    BY <1>2, <2>1, <2>2, <2>3
<1>5. \A w \in Conversations : Len(ops'[w]) <= MaxOps[w]
  <2>1. MaxOps[v] \in Nat
    BY HubAssumption
  <2>2. Len(ops'[v]) <= MaxOps[v]
    BY <1>2, <1>3, <1>4, <2>1
  <2> QED
    BY <1>4, <1>t, <2>2 DEF TypeOK
<1>6. /\ pc' = pc \/ pc' = [pc EXCEPT ![v] = "putting"]
      /\ \A w \in Conversations \ {v} : pc'[w] = pc[w]
      /\ pc' \in [Conversations -> {"free", "putting", "joining", "released"}]
      /\ pc'[v] \in {"free", "putting"}
  BY <1>1, <1>3, <1>t DEF Put, TypeOK
<1>7. \A item \in Items : Old(item) => Old(item)' /\ Kind(item)' = Kind(item)
  <2>1. \A w \in Conversations :
          /\ ops'[w] = ops[w] \/ \E k \in Kinds : ops'[w] = Append(ops[w], k)
          /\ pc'[w] = "putting" /\ ops'[w] = ops[w] => pc[w] = "putting"
    <3>1. ops'[v] # ops[v]
      BY <1>2, <1>4
    <3> QED
      BY <1>4, <1>6, <3>1
  <2> QED
    BY <1>t, <2>1, OldKept
<1>8. ASSUME NEW item \in Items, Old(item), item[1] = v  PROVE item[2] < n
  <2>1. item[2] \in 1 .. Len(ops[v])
    BY <1>8 DEF Old
  <2> QED
    BY <1>2, <1>4, <2>1
<1>9. PuttingSomething'
  <2>1. ops'[v] # <<>>
    BY <1>4
  <2> QED
    BY <1>4, <1>6, <1>t, <2>1 DEF PuttingSomething
<1>10. \A w \in Conversations : pc'[w] = "released" => pc[w] = "released"
  BY <1>6
<1>11. CASE /\ Len(queue[ChannelOf[v]]) < QueueMax
            /\ queue' = [queue EXCEPT ![ChannelOf[v]] = Append(@, <<v, n>>)]
            /\ pc' = pc
  <2>1. (v \in Conversations /\ n \in 1 .. Len(ops[v]) /\ pc[v] # "putting")'
    BY <1>3, <1>4, <1>11
  <2>2. HistoryOK' /\ AllOld' /\ Ordered' /\ Streams' /\ RenderBarrier'
    BY <1>3, <1>4, <1>5, <1>6, <1>7, <1>8, <1>10, <1>11, <2>1, PutOrder
  <2> QED
    BY <1>9, <2>2
<1>12. CASE queue' = queue
  <2>1. HistoryOK'
    BY <1>3, <1>5, <1>6, <1>12, <1>t DEF HistoryOK, TypeOK
  <2>2. SeenOld' /\ DeliveryInOrder' /\ Streams'
    BY <1>3, <1>7, HistoryKept
  <2>3. \A ch \in Channels : Holds(ch)' = Holds(ch)
    BY <1>3, <1>12 DEF Holds
  <2>4. AllOld'
    <3>1. ASSUME NEW ch \in Channels, NEW item \in Holds(ch)'
          PROVE  Old(item)' /\ ChannelOf[item[1]] = ch
      <4>1. item \in Items /\ Old(item) /\ ChannelOf[item[1]] = ch
        BY <1>t, <2>3, <3>1, HeldItems DEF OrderInv, AllOld
      <4> QED
        BY <1>7, <4>1
    <3>2. ASSUME NEW w \in Conversations, NEW item \in barrier'[w]
          PROVE  Old(item)'
      <4>1. item \in barrier[w] /\ item \in Items
        BY <1>3, <1>t, <3>2 DEF TypeOK
      <4>2. Old(item)
        BY <4>1 DEF OrderInv, AllOld
      <4> QED
        BY <1>7, <4>1, <4>2
    <3> QED
      BY <2>2, <3>1, <3>2 DEF AllOld
  <2>5. Ordered'
    BY <1>3, <1>12, <2>2 DEF OrderInv, Ordered
  <2>6. RenderBarrier'
    BY <1>3, <1>10, <1>12 DEF OrderInv, RenderBarrier
  <2> QED
    BY <1>9, <2>1, <2>2, <2>4, <2>5, <2>6
<1> QED
  BY <1>1, <1>2, <1>11, <1>12 DEF Put

\* An outlet is called with the head of its queue.
LEMMA TakesOrder ==
  ASSUME HubInv, OrderInv, HubInv', NEW ch \in Channels, Takes(ch)
  PROVE  HistoryOK' /\ PuttingSomething' /\ AllOld' /\ Ordered' /\ Streams' /\ RenderBarrier'
<1>t. TypeOK /\ PuttingSomething
  BY DEF OrderInv
<1>k. PICK next : Take(ch, next)
  BY DEF Takes, TakeDeliverable, TakeDelta, TakeClose
<1>i. PICK item : item = Head(queue[ch])
  OBVIOUS
<1>1. /\ worker[ch] = "waiting" /\ queue[ch] # <<>> /\ queue[ch] \in Seq(Items)
      /\ hand' = [hand EXCEPT ![ch] = item] /\ queue' = [queue EXCEPT ![ch] = Tail(@)]
      /\ UNCHANGED <<pc, barrier, ops>>
      /\ hand'[ch] = item
      /\ seen' = [seen EXCEPT ![item[1]] = Append(@, item[2])]
  <2>1. queue[ch] \in Seq(Items) /\ hand \in [Channels -> Items \cup {Nothing}]
    BY <1>t DEF TypeOK
  <2>2. hand' = [hand EXCEPT ![ch] = item]
    BY <1>k, <1>i DEF Take
  <2>3. hand'[ch] = item
    BY <2>1, <2>2
  <2> QED
    BY <1>k, <2>1, <2>2, <2>3 DEF Take
<1>2. /\ Tail(queue[ch]) \in Seq(Items) /\ Len(Tail(queue[ch])) = Len(queue[ch]) - 1
      /\ Len(queue[ch]) \in Nat \ {0} /\ ToSet(Tail(queue[ch])) \subseteq ToSet(queue[ch])
      /\ item \in ToSet(queue[ch])
  BY <1>1, <1>i, TailIndex
<1>3. /\ InOrder(Tail(queue[ch]))
      /\ \A x \in ToSet(Tail(queue[ch])) : x[1] = item[1] => item[2] < x[2]
  <2>1. InOrder(queue[ch])
    BY DEF OrderInv, Ordered, InOrder
  <2> QED
    BY <1>1, <1>i, <2>1, TailInOrder
<1>4. item \in Items /\ item \in Holds(ch) /\ Old(item) /\ ChannelOf[item[1]] = ch
  <2>1. item \in Holds(ch)
    BY <1>2 DEF Holds
  <2> QED
    BY <1>t, <2>1, HeldItems DEF OrderInv, AllOld
<1>v. PICK v \in Conversations, n \in Nat \ {0} : v = item[1] /\ n = item[2] /\ item = <<v, n>>
  BY <1>4 DEF Items
<1>5. /\ queue'[ch] = Tail(queue[ch]) /\ hand'[ch] = item
      /\ \A d \in Channels \ {ch} : queue'[d] = queue[d] /\ hand'[d] = hand[d]
  BY <1>1, <1>t DEF TypeOK
<1>6. \A d \in Channels : Holds(d)' \subseteq Holds(d) /\ ToSet(queue'[d]) \subseteq ToSet(queue[d])
  BY <1>2, <1>4, <1>5 DEF Holds
<1>7. /\ seen[v] \in Seq(Nat \ {0}) /\ Len(seen[v]) \in Nat
      /\ seen' \in [Conversations -> Seq(Nat \ {0})]
      /\ \A w \in Conversations \ {v} : seen'[w] = seen[w]
      /\ DOMAIN seen[v] = 1 .. Len(seen[v]) /\ DOMAIN seen'[v] = 1 .. Len(seen[v]) + 1
      /\ \A i \in 1 .. Len(seen[v]) : seen'[v][i] = seen[v][i]
      /\ seen'[v][Len(seen[v]) + 1] = n
  <2>1. seen[v] \in Seq(Nat \ {0}) /\ seen \in [Conversations -> Seq(Nat \ {0})]
    BY <1>t DEF TypeOK
  <2>2. /\ Append(seen[v], n) \in Seq(Nat \ {0}) /\ Len(seen[v]) \in Nat
        /\ DOMAIN seen[v] = 1 .. Len(seen[v]) /\ DOMAIN Append(seen[v], n) = 1 .. Len(seen[v]) + 1
        /\ \A i \in 1 .. Len(seen[v]) : Append(seen[v], n)[i] = seen[v][i]
        /\ Append(seen[v], n)[Len(seen[v]) + 1] = n
    BY <2>1, AppendIndex
  <2>3. /\ seen'[v] = Append(seen[v], n) /\ \A w \in Conversations \ {v} : seen'[w] = seen[w]
        /\ seen' \in [Conversations -> Seq(Nat \ {0})]
    BY <1>1, <1>v, <2>1, <2>2
  <2> QED
    BY <2>1, <2>2, <2>3
<1>x. ASSUME NEW w \in Conversations, NEW i \in DOMAIN seen'[w]
      PROVE  \/ w = v /\ i = Len(seen[v]) + 1
             \/ i \in DOMAIN seen[w] /\ seen'[w][i] = seen[w][i]
  <2>1. CASE w # v
    <3>1. seen'[w] = seen[w]
      BY <1>7, <2>1
    <3> QED
      BY <1>x, <3>1
  <2>2. CASE w = v
    <3>1. i \in 1 .. Len(seen[v]) + 1
      BY <1>7, <1>x, <2>2
    <3>2. i = Len(seen[v]) + 1 \/ i \in 1 .. Len(seen[v])
      BY <1>7, <3>1
    <3> QED
      BY <1>7, <2>2, <3>2
  <2> QED
    BY <2>1, <2>2
<1>o. \A x : Old(x)' <=> Old(x)
  BY <1>1 DEF Old
<1>8. HistoryOK'
  <2>1. queue' \in [Channels -> Seq(Items)] /\ hand' \in [Channels -> Items \cup {Nothing}]
    BY <1>1, <1>2, <1>4, <1>t DEF TypeOK
  <2>2. ASSUME NEW d \in Channels  PROVE Len(queue'[d]) <= QueueMax
    <3>1. Len(queue[d]) <= QueueMax /\ QueueMax \in Nat
      BY <1>t, HubAssumption DEF TypeOK
    <3>2. CASE d = ch
      <4>1. Len(queue'[d]) = Len(queue[d]) - 1 /\ Len(queue[d]) \in Nat
        BY <1>2, <1>5, <3>2
      <4> QED
        BY <3>1, <4>1
    <3>3. CASE d # ch
      BY <1>5, <3>1, <3>3
    <3> QED
      BY <3>2, <3>3
  <2>3. open' \subseteq Conversations
    <3>1. \/ open' = open \/ open' = open \cup {item[1]} \/ open' = open \ {item[1]}
      BY <1>1 DEF Takes, TakeDeliverable, TakeDelta, TakeClose
    <3> QED
      BY <1>t, <1>v, <3>1 DEF TypeOK
  <2>4. /\ pc' \in [Conversations -> {"free", "putting", "joining", "released"}]
        /\ barrier' \in [Conversations -> SUBSET Items]
        /\ \A w \in Conversations : Len(ops'[w]) <= MaxOps[w]
    BY <1>1, <1>t DEF TypeOK
  <2> QED
    BY <1>7, <2>1, <2>2, <2>3, <2>4 DEF HistoryOK
<1>9. PuttingSomething'
  BY <1>1, <1>t DEF PuttingSomething
<1>10. AllOld'
  <2>1. ASSUME NEW d \in Channels, NEW x \in Holds(d)'
        PROVE  Old(x)' /\ ChannelOf[x[1]] = d
    BY <1>6, <1>o, <2>1 DEF OrderInv, AllOld
  <2>2. ASSUME NEW w \in Conversations, NEW x \in barrier'[w]
        PROVE  Old(x)'
    BY <1>1, <1>o, <2>2 DEF OrderInv, AllOld
  <2>3. ASSUME NEW w \in Conversations, NEW i \in DOMAIN seen'[w]
        PROVE  Old(<<w, seen'[w][i]>>)
    <3>1. CASE w = v /\ i = Len(seen[v]) + 1
      BY <1>4, <1>7, <1>v, <3>1
    <3>2. CASE i \in DOMAIN seen[w] /\ seen'[w][i] = seen[w][i]
      BY <3>2 DEF OrderInv, AllOld, SeenOld
    <3> QED
      BY <1>x, <2>3, <3>1, <3>2
  <2>4. SeenOld'
    BY <1>1, <2>3 DEF SeenOld, Old
  <2> QED
    BY <2>1, <2>2, <2>4 DEF AllOld
<1>11. \A i \in 1 .. Len(seen[v]) : seen[v][i] < n
  <2>1. item \in ToSet(queue[ChannelOf[v]]) /\ item[1] = v /\ item[2] = n
    BY <1>2, <1>4, <1>v
  <2> QED
    BY <1>7, <2>1 DEF OrderInv, Ordered
<1>12. DeliveryInOrder'
  <2> SUFFICES ASSUME NEW w \in Conversations, NEW i \in DOMAIN seen'[w], NEW j \in DOMAIN seen'[w],
                      i < j
               PROVE  seen'[w][i] < seen'[w][j]
    BY DEF DeliveryInOrder
  <2>1. CASE w # v
    BY <1>7, <2>1 DEF OrderInv, Ordered, DeliveryInOrder
  <2>2. CASE w = v /\ j = Len(seen[v]) + 1
    <3>1. i \in 1 .. Len(seen[v])
      BY <1>7, <2>2
    <3> QED
      BY <1>7, <1>11, <2>2, <3>1
  <2>3. CASE w = v /\ j \in 1 .. Len(seen[v])
    <3>1. i \in 1 .. Len(seen[v])
      BY <1>7, <2>3
    <3> QED
      BY <1>7, <2>3, <3>1 DEF OrderInv, Ordered, DeliveryInOrder
  <2> QED
    BY <1>x, <1>7, <2>1, <2>2, <2>3
<1>13. Ordered'
  <2>1. \A d \in Channels : InOrder(queue'[d])
    BY <1>3, <1>5 DEF OrderInv, Ordered, InOrder
  <2>2. ASSUME NEW w \in Conversations, NEW i \in DOMAIN seen'[w],
               NEW x \in ToSet(queue'[ChannelOf[w]]), x[1] = w
        PROVE  seen'[w][i] < x[2]
    <3>1. ChannelOf[w] \in Channels
      BY HubAssumption
    <3>2. x \in ToSet(queue[ChannelOf[w]])
      BY <1>6, <2>2, <3>1
    <3>3. CASE w = v /\ i = Len(seen[v]) + 1
      <4>1. x \in ToSet(Tail(queue[ch])) /\ x[1] = item[1]
        BY <1>4, <1>5, <1>v, <2>2, <3>3
      <4> QED
        BY <1>3, <1>7, <1>v, <3>3, <4>1
    <3>4. CASE i \in DOMAIN seen[w] /\ seen'[w][i] = seen[w][i]
      BY <2>2, <3>2, <3>4 DEF OrderInv, Ordered
    <3> QED
      BY <1>x, <2>2, <3>3, <3>4
  <2> QED
    BY <1>12, <2>1, <2>2 DEF Ordered, InOrder
<1>14. Streams'
  <2>k. PICK kind : kind = ops[v][n]
    OBVIOUS
  <2>1. /\ open' \subseteq open \cup {v}
        /\ v \in open' /\ v \notin open => kind = "delta"
        /\ v \in open' /\ kind # "delta" => kind # "close"
        /\ kind = "close" => v \in open
    <3>1. CASE TakeDeliverable(ch)
      BY <1>1, <1>v, <2>k, <3>1 DEF TakeDeliverable, Kind
    <3>2. CASE TakeDelta(ch)
      BY <1>1, <1>v, <2>k, <3>2 DEF TakeDelta, Kind
    <3>3. CASE TakeClose(ch)
      BY <1>1, <1>v, <2>k, <3>3 DEF TakeClose, Kind
    <3> QED
      BY <3>1, <3>2, <3>3 DEF Takes
  <2>2. ASSUME NEW w \in open', NEW i \in DOMAIN seen'[w], ops[w][seen'[w][i]] = "close"
        PROVE  \E k \in DOMAIN seen'[w] : k > i /\ ops[w][seen'[w][k]] = "delta"
    <3>1. w \in Conversations
      BY <1>8 DEF HistoryOK
    <3>2. CASE w # v
      <4>1. w \in open /\ seen'[w] = seen[w]
        BY <1>7, <2>1, <2>2, <3>1, <3>2
      <4>2. \A h \in DOMAIN seen[w] : ops[w][seen[w][h]] = "close" =>
              \E k \in DOMAIN seen[w] : k > h /\ ops[w][seen[w][k]] = "delta"
        BY <4>1 DEF OrderInv, Streams
      <4> QED
        BY <2>2, <4>1, <4>2
    <3>3. CASE w = v /\ kind = "delta"
      <4>1. i # Len(seen[v]) + 1
        BY <1>7, <2>2, <2>k, <3>3
      <4>2. Len(seen[v]) + 1 \in DOMAIN seen'[w] /\ Len(seen[v]) + 1 > i
        BY <1>7, <2>2, <3>3, <4>1
      <4> QED
        BY <1>7, <2>k, <3>3, <4>2
    <3>4. CASE w = v /\ kind # "delta"
      <4>1. v \in open /\ kind # "close"
        BY <2>1, <2>2, <3>4
      <4>2. i \in 1 .. Len(seen[v])
        BY <1>7, <2>2, <2>k, <3>4, <4>1
      <4>3. seen'[v][i] = seen[v][i]
        BY <1>7, <4>2
      <4>6. \A h \in DOMAIN seen[v] : ops[v][seen[v][h]] = "close" =>
              \E k \in DOMAIN seen[v] : k > h /\ ops[v][seen[v][k]] = "delta"
        BY <4>1 DEF OrderInv, Streams
      <4>7. i \in DOMAIN seen[v] /\ ops[v][seen[v][i]] = "close"
        BY <1>7, <2>2, <3>4, <4>2, <4>3
      <4>4. PICK k \in DOMAIN seen[v] : k > i /\ ops[v][seen[v][k]] = "delta"
        BY <4>6, <4>7
      <4>5. k \in DOMAIN seen'[v] /\ seen'[v][k] = seen[v][k]
        BY <1>7, <4>4
      <4> QED
        BY <3>4, <4>4, <4>5
    <3> QED
      BY <3>2, <3>3, <3>4
  <2>3. OneDonePerStream'
    <3> SUFFICES ASSUME NEW w \in Conversations, NEW i \in DOMAIN seen'[w],
                        NEW j \in DOMAIN seen'[w], i < j,
                        ops'[w][seen'[w][i]] = "close", ops'[w][seen'[w][j]] = "close"
                 PROVE  \E k \in i .. j : ops'[w][seen'[w][k]] = "delta"
      BY DEF OneDonePerStream
    <3>0. ops' = ops
      BY <1>1
    <3>s. \A u \in Conversations : \A h, l \in DOMAIN seen[u] :
            h < l /\ ops[u][seen[u][h]] = "close" /\ ops[u][seen[u][l]] = "close" =>
              \E k \in h .. l : ops[u][seen[u][k]] = "delta"
      BY DEF OrderInv, Streams, OneDonePerStream
    <3>1. CASE w # v
      <4>1. seen'[w] = seen[w]
        BY <1>7, <3>1
      <4> QED
        BY <3>0, <3>s, <4>1
    <3>2. CASE w = v /\ j \in 1 .. Len(seen[v])
      <4>0. i \in 1 .. Len(seen[v]) + 1 /\ Len(seen[v]) \in Nat
        BY <1>7, <3>2
      <4>1. i \in 1 .. Len(seen[v]) /\ \A k \in i .. j : k \in 1 .. Len(seen[v])
        BY <3>2, <4>0
      <4>2. ops[v][seen[v][i]] = "close" /\ ops[v][seen[v][j]] = "close"
        BY <1>7, <3>0, <3>2, <4>1
      <4>3. PICK k \in i .. j : ops[v][seen[v][k]] = "delta"
        BY <1>7, <3>s, <3>2, <4>1, <4>2
      <4> QED
        BY <1>7, <3>0, <3>2, <4>1, <4>3
    <3>3. CASE w = v /\ j = Len(seen[v]) + 1
      <4>0. i \in 1 .. Len(seen[v]) + 1 /\ Len(seen[v]) \in Nat
        BY <1>7, <3>3
      <4>1. i \in 1 .. Len(seen[v]) /\ ops[v][seen[v][i]] = "close"
        <5>1. i \in 1 .. Len(seen[v])
          BY <3>3, <4>0
        <5>2. seen'[v][i] = seen[v][i]
          BY <1>7, <5>1
        <5> QED
          BY <3>0, <3>3, <5>1, <5>2
      <4>2. v \in open
        BY <1>7, <2>1, <2>k, <3>0, <3>3
      <4>3. PICK k \in DOMAIN seen[v] : k > i /\ ops[v][seen[v][k]] = "delta"
        BY <1>7, <4>1, <4>2 DEF OrderInv, Streams
      <4>4. k \in i .. j /\ seen'[v][k] = seen[v][k]
        BY <1>7, <3>3, <4>1, <4>3
      <4> QED
        BY <3>0, <3>3, <4>3, <4>4
    <3>4. w = v => j = Len(seen[v]) + 1 \/ j \in 1 .. Len(seen[v])
      BY <1>x, <1>7
    <3> QED
      BY <3>1, <3>2, <3>3, <3>4
  <2> QED
    BY <1>1, <2>2, <2>3 DEF Streams
<1>15. RenderBarrier'
  <2>1. \A w \in Conversations : ChannelOf[w] \in Channels
    BY HubAssumption
  <2>2. \A w \in Conversations : pc'[w] = "released" =>
          /\ pc[w] = "released" /\ barrier'[w] = barrier[w]
          /\ \A x \in barrier[w] : x \in Holds(ChannelOf[w])' => x \in Holds(ChannelOf[w])
    BY <1>1, <1>6, <2>1
  <2>3. RenderBarrier
    BY DEF OrderInv
  <2> QED
    BY <1>8, <2>2, <2>3, BarrierKept
<1> QED
  BY <1>8, <1>9, <1>10, <1>13, <1>14, <1>15

LEMMA InitOrder == Init => OrderInv
<1> SUFFICES ASSUME Init PROVE OrderInv
  OBVIOUS
<1>1. TypeOK
  <2>1. /\ queue \in [Channels -> Seq(Items)] /\ ops \in [Conversations -> Seq(Kinds)]
        /\ seen \in [Conversations -> Seq(Nat \ {0})]
    BY DEF Init
  <2>2. /\ hand \in [Channels -> Items \cup {Nothing}] /\ unfinished \in [Channels -> Nat]
        /\ barrier \in [Conversations -> SUBSET Items] /\ cancelled \in [Channels -> BOOLEAN]
    BY DEF Init
  <2>3. /\ worker \in [Channels -> WorkerStates]
        /\ pc \in [Conversations -> {"free", "putting", "joining", "released"}]
        /\ closed \in BOOLEAN /\ closing \in {"none", "sealed", "gathering", "done"}
        /\ outlets \subseteq Channels /\ routed \subseteq Conversations /\ open \subseteq Conversations
    BY DEF Init, WorkerStates
  <2>4. attempt \in [Channels -> 0 .. Retries]
    BY HubAssumption DEF Init
  <2>5. \A ch \in Channels : Len(queue[ch]) <= QueueMax
    <3>1. Len(<<>>) = 0 /\ QueueMax \in Nat
      BY HubAssumption
    <3> QED
      BY <3>1 DEF Init
  <2>6. \A v \in Conversations : Len(ops[v]) <= MaxOps[v]
    <3>1. Len(<<>>) = 0 /\ \A v \in Conversations : MaxOps[v] \in Nat
      BY HubAssumption
    <3> QED
      BY <3>1 DEF Init
  <2> QED
    BY <2>1, <2>2, <2>3, <2>4, <2>5, <2>6 DEF TypeOK
<1>2. PuttingSomething /\ RenderBarrier
  BY DEF Init, PuttingSomething, RenderBarrier
<1>3. \A v \in Conversations : DOMAIN seen[v] = {} /\ barrier[v] = {}
  BY DEF Init
<1>4. \A ch \in Channels : DOMAIN queue[ch] = {} /\ Holds(ch) = {}
  BY EmptySet DEF Init, Holds
<1>5. AllOld
  BY <1>3, <1>4 DEF AllOld, SeenOld
<1>6. Ordered
  BY <1>3, <1>4 DEF Ordered, DeliveryInOrder
<1>7. Streams
  BY <1>3 DEF Streams, OneDonePerStream, Init
<1> QED
  BY <1>1, <1>2, <1>5, <1>6, <1>7 DEF OrderInv

LEMMA NextOrder == HubInv /\ HubInv' /\ OrderInv /\ [Next]_vars => OrderInv'
<1> SUFFICES ASSUME HubInv, HubInv', OrderInv, [Next]_vars PROVE OrderInv'
  OBVIOUS
<1>t. TypeOK
  BY DEF OrderInv
<1>1. \/ Calm \/ Emission
      \/ \E v \in Conversations : PutProceeds(v)
      \/ \E ch \in Channels : Takes(ch)
  BY <1>t, StepKinds
<1>2. HistoryOK' /\ PuttingSomething' /\ AllOld' /\ Ordered' /\ Streams' /\ RenderBarrier'
  BY <1>1, CalmOrder, EmissionOrder, PutProceedsOrder, TakesOrder
<1>3. TypeOK'
  BY <1>2, <1>t, TypeFromParts
<1> QED
  BY <1>2, <1>3 DEF OrderInv

LEMMA OrderInvariant == Safety => []OrderInv
  BY HubInvariant, InitOrder, NextOrder, PTL DEF Safety

\* Every variable stays in its range: no queue outgrows its bound, no item is
\* sent more often than the retry budget allows, and no join counter is
\* negative.
THEOREM HubTyped == Safety => []TypeOK
<1>1. OrderInv => TypeOK
  BY DEF OrderInv
<1> QED
  BY <1>1, OrderInvariant, PTL

\* The outlet is called with the events of a conversation in the order of their
\* emission, each at most once, whatever is retried, refused or cancelled.
THEOREM OutletsSeeOrder == Safety => []DeliveryInOrder
<1>1. OrderInv => DeliveryInOrder
  BY DEF OrderInv, Ordered
<1> QED
  BY <1>1, OrderInvariant, PTL

\* Between two done=True chunks of a conversation its outlet got a delta: the
\* marker of a stream that was never opened is swallowed.
THEOREM StreamsEndOnce == Safety => []OneDonePerStream
<1>1. OrderInv => OneDonePerStream
  BY DEF OrderInv, Streams
<1> QED
  BY <1>1, OrderInvariant, PTL

\* A wait_idle that comes back leaves nothing of what it found queued or in
\* flight on its channel.
THEOREM BarrierHolds == Safety => []RenderBarrier
<1>1. OrderInv => RenderBarrier
  BY DEF OrderInv
<1> QED
  BY <1>1, OrderInvariant, PTL
=============================================================================
