----------------------- MODULE ServerLifecycleProofs -----------------------
(***************************************************************************)
(* Theorems about ServerLifecycle, for any number of signals, websockets   *)
(* and events: RabbitMQ is given the events in order, no websocket joins a *)
(* closing server, and the loop does not stop over a queue with a stopped  *)
(* event in it.                                                            *)
(***************************************************************************)
EXTENDS ServerLifecycle, TLAPS

-----------------------------------------------------------------------------
(***************************************************************************)
(* Types.                                                                  *)
(***************************************************************************)

\* What TypeOK says of the variables on the side of RabbitMQ.
RabbitTypes ==
    /\ published \in Seq(Events) /\ queue \in Seq(Events) /\ delivered \in Seq(Events)
    /\ worker \in [stage : {"absent", "waiting", "connecting", "publishing", "dead", "hung"},
                   item : Events \union {"none"}]
    /\ worker.stage \in {"connecting", "publishing", "hung"} <=> worker.item # "none"
    /\ amqp \in {"open", "closed"}

\* Publishing leaves the types on the side of RabbitMQ as they are.
LEMMA PublishTypes ==
    ASSUME RabbitTypes, NEW event \in Events, Publish(event)
    PROVE  RabbitTypes'
<1>1. CASE PutInQueue(event)
  BY <1>1 DEF PutInQueue, RabbitTypes
<1>2. CASE UNCHANGED rabbit
  BY <1>2 DEF rabbit, RabbitTypes
<1>3. QED
  BY <1>1, <1>2 DEF Publish

\* So does a step of the worker.
LEMMA WorkerTypes ==
    ASSUME RabbitTypes, WorkerNext
    PROVE  RabbitTypes'
<1>1. CASE TakeEvent
  <2>1. /\ Head(queue) \in Events /\ Tail(queue) \in Seq(Events)
        /\ Head(queue) # "none"
    BY <1>1 DEF TakeEvent, RabbitTypes, Events
  <2>2. QED
    BY <1>1, <2>1 DEF TakeEvent, RabbitTypes
<1>2. CASE Connects
  BY <1>2 DEF Connects, Goes, RabbitTypes
<1>3. CASE ConnectFails
  BY <1>3 DEF ConnectFails, GivesUp, Goes, RabbitTypes
<1>4. CASE Deliver
  <2>1. worker.item \in Events
    BY <1>4 DEF Deliver, RabbitTypes
  <2>2. QED
    BY <1>4, <2>1 DEF Deliver, RabbitTypes
<1>5. CASE ConnectionDrops
  BY <1>5 DEF ConnectionDrops, RabbitTypes
<1>6. QED
  BY <1>1, <1>2, <1>3, <1>4, <1>5 DEF WorkerNext

\* What TypeOK says of the server.
ServerTypes ==
    /\ loop \in {"running", "stopped"}
    /\ startup \in {"connecting", "done"}
    /\ wait_time \in 0 .. 300 /\ (wait_time = 0 <=> Started)
    /\ scheduler \in {"idle", "running", "paused", "stopped"}
    /\ listening \in Listening
    /\ calls \in 0 .. MaxCalls

\* The worker is there from the end of startup on.
LateWorker == ~Started => worker.stage = "absent"

\* Where a shutdown can stand.
Stages ==
    {"none", "called", "pausing", "joining", "joined", "unjoined", "stopping",
     "stopping early", "raised", "timed out"}

\* Only the end of startup makes the worker.
LEMMA LateWorkerStep ==
    ASSUME LateWorker, [Next]_vars
    PROVE  LateWorker'
<1>1. CASE StartupFinishes
  BY <1>1 DEF StartupFinishes, LateWorker, Started
<1>2. CASE startup' = startup /\ (worker' = worker \/ worker.stage # "absent")
  BY <1>2 DEF LateWorker, Started
<1>3. CASE UNCHANGED vars
  BY <1>2, <1>3 DEF vars, server, rabbit
<1>4. CASE StartupWaits \/ CallBegins \/ CallEnds
  BY <1>2, <1>4 DEF StartupWaits, CallBegins, CallEnds, Publish, PutInQueue, rabbit
<1>5. ASSUME NEW s \in Sockets, OpenSocket(s) \/ SocketCloses(s)
      PROVE  LateWorker'
  BY <1>2, <1>5 DEF OpenSocket, SocketCloses, server, rabbit
<1>6. CASE WorkerNext
  BY <1>2, <1>6 DEF WorkerNext, TakeEvent, Connects, ConnectFails, GivesUp, Deliver,
                    ConnectionDrops, server
<1>7. ASSUME NEW g \in Signals, Signal(g) \/ ShutdownNext(g)
      PROVE  LateWorker'
  BY <1>2, <1>7 DEF Signal, ShutdownNext, PauseScheduler, StopServer, Joined, JoinTimesOut,
                    CloseConnections, StopLoop, Publish, PutInQueue, server, rabbit
<1>8. QED
  BY <1>1, <1>3, <1>4, <1>5, <1>6, <1>7 DEF Next

\* Every variable keeps its type.
THEOREM TypeCorrect == Spec => []TypeOK
<1>1. TypeOK <=> /\ ServerTypes /\ RabbitTypes /\ LateWorker
                 /\ shutdown \in [Signals -> Stages]
                 /\ sockets \in [Sockets -> {"none", "listening", "closing", "closed"}]
                 /\ closing \in BOOLEAN
  BY DEF TypeOK, ServerTypes, RabbitTypes, LateWorker, Stages
<1>2. TypeOK' <=> /\ ServerTypes' /\ RabbitTypes' /\ LateWorker'
                  /\ shutdown' \in [Signals -> Stages]
                  /\ sockets' \in [Sockets -> {"none", "listening", "closing", "closed"}]
                  /\ closing' \in BOOLEAN
  BY DEF TypeOK, ServerTypes, RabbitTypes, LateWorker, Stages
<1>3. Init => TypeOK
  <2> SUFFICES ASSUME Init PROVE TypeOK
    OBVIOUS
  <2>1. ServerTypes
    <3>1. wait_time = 1 /\ ~Started /\ loop = "running" /\ startup = "connecting"
          /\ scheduler = "idle" /\ listening = "unopened" /\ calls = 0
      BY DEF Init, Started
    <3>2. calls \in 0 .. MaxCalls
      BY <3>1, ServerAssumption
    <3>3. wait_time \in 0 .. 300 /\ (wait_time = 0 <=> Started)
      BY <3>1
    <3>4. QED
      BY <3>1, <3>2, <3>3 DEF ServerTypes, Listening
  <2>2. RabbitTypes /\ LateWorker
    BY DEF Init, RabbitTypes, LateWorker
  <2>3. QED
    BY <1>1, <2>1, <2>2 DEF Init, Stages
<1>4. TypeOK /\ [Next]_vars => TypeOK'
  <2> SUFFICES ASSUME TypeOK, [Next]_vars
               PROVE  /\ ServerTypes' /\ RabbitTypes'
                      /\ shutdown' \in [Signals -> Stages]
                      /\ sockets' \in [Sockets -> {"none", "listening", "closing", "closed"}]
                      /\ closing' \in BOOLEAN
    BY <1>1, <1>2, LateWorkerStep
  <2> USE <1>1
  <2>1. CASE UNCHANGED vars
    BY <2>1 DEF vars, server, web, rabbit, ServerTypes, RabbitTypes, Started
  <2>2. CASE StartupFinishes
    <3>1. worker.stage = "absent"
      BY <2>2 DEF StartupFinishes, LateWorker, Started
    <3>2. RabbitTypes'
      <4>1. worker.item = "none" /\ "STARTED" \in Events
        BY <3>1 DEF RabbitTypes, Events
      <4>2. CASE UNCHANGED <<worker, published, queue>>
        BY <2>2, <4>2 DEF StartupFinishes, RabbitTypes
      <4>3. CASE /\ worker' = [worker EXCEPT !.stage = "waiting"]
                 /\ published' = Append(published, "STARTED")
                 /\ queue' = Append(queue, "STARTED")
        <5>1. published' \in Seq(Events) /\ queue' \in Seq(Events)
          BY <4>1, <4>3 DEF RabbitTypes
        <5>2. worker'.stage = "waiting" /\ worker'.item = "none"
          BY <4>1, <4>3 DEF RabbitTypes
        <5>3. worker' \in [stage : {"absent", "waiting", "connecting", "publishing", "dead", "hung"},
                           item : Events \union {"none"}]
          BY <4>3 DEF RabbitTypes
        <5>4. QED
          BY <2>2, <5>1, <5>2, <5>3 DEF StartupFinishes, RabbitTypes
      <4>4. QED
        BY <2>2, <4>2, <4>3 DEF StartupFinishes
    <3>3. ServerTypes'
      BY <2>2 DEF StartupFinishes, ServerTypes, Started, Listening
    <3>4. QED
      BY <2>2, <3>2, <3>3 DEF StartupFinishes, web
  <2>3. CASE StartupWaits
    <3>1. ServerTypes'
      BY <2>3 DEF StartupWaits, ServerTypes, Started
    <3>2. QED
      BY <2>3, <3>1 DEF StartupWaits, web, rabbit, RabbitTypes
  <2>4. CASE CallBegins
    <3>1. ServerTypes'
      BY <2>4, ServerAssumption DEF CallBegins, ServerTypes, Started, Listening
    <3>2. QED
      BY <2>4, <3>1 DEF CallBegins, web, rabbit, RabbitTypes
  <2>5. CASE CallEnds
    <3>1. ServerTypes'
      BY <2>5, ServerAssumption DEF CallEnds, ServerTypes, Started
    <3>2. RabbitTypes'
      BY <2>5, PublishTypes DEF CallEnds, Events
    <3>3. QED
      BY <2>5, <3>1, <3>2 DEF CallEnds, web
  <2>6. ASSUME NEW s \in Sockets, OpenSocket(s)
        PROVE  /\ ServerTypes' /\ RabbitTypes'
               /\ shutdown' \in [Signals -> Stages]
               /\ sockets' \in [Sockets -> {"none", "listening", "closing", "closed"}]
               /\ closing' \in BOOLEAN
    <3>1. ServerTypes'
      BY <2>6, ServerAssumption DEF OpenSocket, ServerTypes, Started
    <3>2. QED
      BY <2>6, <3>1 DEF OpenSocket, rabbit, RabbitTypes
  <2>7. ASSUME NEW s \in Sockets, SocketCloses(s)
        PROVE  /\ ServerTypes' /\ RabbitTypes'
               /\ shutdown' \in [Signals -> Stages]
               /\ sockets' \in [Sockets -> {"none", "listening", "closing", "closed"}]
               /\ closing' \in BOOLEAN
    BY <2>7 DEF SocketCloses, server, rabbit, ServerTypes, RabbitTypes, Started
  <2>8. CASE WorkerNext
    <3>1. RabbitTypes'
      BY <2>8, WorkerTypes
    <3>2. UNCHANGED <<server, shutdown, web>>
      BY <2>8 DEF WorkerNext, TakeEvent, Connects, ConnectFails, Deliver, ConnectionDrops
    <3>3. QED
      BY <3>1, <3>2 DEF server, web, ServerTypes, Started
  <2>9. ASSUME NEW g \in Signals, StopServer(g)
        PROVE  /\ ServerTypes' /\ RabbitTypes'
               /\ shutdown' \in [Signals -> Stages]
               /\ sockets' \in [Sockets -> {"none", "listening", "closing", "closed"}]
               /\ closing' \in BOOLEAN
    <3>1. ServerTypes'
      BY <2>9 DEF StopServer, ServerTypes, Started, Listening
    <3>2. RabbitTypes'
      <4>1. CASE Publish("STOPPED")
        BY <4>1, PublishTypes DEF Events
      <4>2. CASE UNCHANGED rabbit
        BY <4>2 DEF rabbit, RabbitTypes
      <4>3. QED
        BY <2>9, <4>1, <4>2 DEF StopServer
    <3>3. shutdown' \in [Signals -> Stages]
      BY <2>9 DEF StopServer, At, Stages
    <3>4. QED
      BY <2>9, <3>1, <3>2, <3>3 DEF StopServer, web
  <2>10. ASSUME NEW g \in Signals,
                \/ Signal(g) \/ PauseScheduler(g) \/ Joined(g) \/ JoinTimesOut(g)
                \/ CloseConnections(g) \/ StopLoop(g)
         PROVE  /\ ServerTypes' /\ RabbitTypes'
                /\ shutdown' \in [Signals -> Stages]
                /\ sockets' \in [Sockets -> {"none", "listening", "closing", "closed"}]
                /\ closing' \in BOOLEAN
    <3>1. UNCHANGED <<startup, wait_time, listening, calls, web, rabbit>>
      BY <2>10 DEF Signal, PauseScheduler, Joined, JoinTimesOut, CloseConnections, StopLoop,
                   server
    <3>2. loop' \in {"running", "stopped"} /\ scheduler' \in {"idle", "running", "paused", "stopped"}
      BY <2>10 DEF Signal, PauseScheduler, Joined, JoinTimesOut, CloseConnections, StopLoop,
                   server, ServerTypes
    <3>3. shutdown' \in [Signals -> Stages]
      BY <2>10 DEF Signal, PauseScheduler, Joined, JoinTimesOut, CloseConnections, StopLoop,
                   At, Stages
    <3>4. QED
      BY <3>1, <3>2, <3>3 DEF web, rabbit, ServerTypes, RabbitTypes, Started
  <2>11. QED
    BY <2>1, <2>2, <2>3, <2>4, <2>5, <2>6, <2>7, <2>8, <2>9, <2>10 DEF Next, ShutdownNext
<1>5. QED
  BY <1>3, <1>4, PTL DEF Spec
-----------------------------------------------------------------------------
(***************************************************************************)
(* Events reach RabbitMQ in order.                                         *)
(***************************************************************************)

\* 1 while the worker has an event in its hands.
Held == IF worker.item = "none" THEN 0 ELSE 1

\* What was published is what was delivered, then the event in the worker's
\* hands, then the queue; a worker that died has lost one event in between.
InOrder ==
    /\ Len(delivered) + Held + Len(queue) <= Len(published)
    /\ \A i \in 1 .. Len(delivered) : delivered[i] = published[i]
    /\ worker.stage # "dead" =>
           /\ Len(published) = Len(delivered) + Held + Len(queue)
           /\ worker.item # "none" => worker.item = published[Len(delivered) + 1]
           /\ \A i \in 1 .. Len(queue) : queue[i] = published[Len(delivered) + Held + i]

\* A sequence that ends another still does when both grow by the same.
LEMMA AppendToBoth ==
    \A whole, end \in Seq(Events), n \in Nat, e \in Events :
        (/\ Len(whole) = n + Len(end)
         /\ \A i \in 1 .. Len(end) : end[i] = whole[n + i])
        => \A i \in 1 .. Len(Append(end, e)) : Append(end, e)[i] = Append(whole, e)[n + i]
<1> SUFFICES ASSUME NEW whole \in Seq(Events), NEW end \in Seq(Events), NEW n \in Nat,
                    NEW e \in Events,
                    Len(whole) = n + Len(end),
                    \A i \in 1 .. Len(end) : end[i] = whole[n + i],
                    NEW i \in 1 .. Len(Append(end, e))
             PROVE  Append(end, e)[i] = Append(whole, e)[n + i]
  BY Zenon
<1>1. i \in 1 .. Len(end) + 1
  OBVIOUS
<1>2. CASE i = Len(end) + 1
  <2>1. n + i = Len(whole) + 1
    BY <1>2
  <2>2. QED
    BY <1>2, <2>1
<1>3. CASE i \in 1 .. Len(end)
  <2>1. n + i \in 1 .. Len(whole)
    BY <1>3
  <2>2. QED
    BY <1>3, <2>1
<1>4. QED
  BY <1>1, <1>2, <1>3

\* An event that is appended to what was published and to the queue keeps the
\* order.
LEMMA PutKeepsOrder ==
    ASSUME RabbitTypes, InOrder, NEW event \in Events,
           published' = Append(published, event), queue' = Append(queue, event),
           delivered' = delivered, worker'.item = worker.item,
           worker.stage = "dead" <=> worker'.stage = "dead"
    PROVE  InOrder'
<1>1. /\ Len(published') = Len(published) + 1 /\ Len(queue') = Len(queue) + 1
      /\ \A i \in 1 .. Len(published) : published'[i] = published[i]
      /\ \A i \in 1 .. Len(queue) : queue'[i] = queue[i]
      /\ published'[Len(published) + 1] = event
      /\ queue'[Len(queue) + 1] = event
      /\ Len(delivered) \in Nat /\ Len(published) \in Nat /\ Len(queue) \in Nat
      /\ Held \in {0, 1} /\ Held' = Held
  BY DEF RabbitTypes, Held
<1>2. Len(delivered') + Held' + Len(queue') <= Len(published')
  <2>1. Len(delivered) + Held + Len(queue) <= Len(published)
    BY DEF InOrder
  <2>2. QED
    BY <1>1, <2>1
<1>3. \A i \in 1 .. Len(delivered') : delivered'[i] = published'[i]
  BY <1>1 DEF InOrder
<1>4. ASSUME worker.stage # "dead"
      PROVE  /\ Len(published') = Len(delivered') + Held' + Len(queue')
             /\ worker'.item # "none" => worker'.item = published'[Len(delivered') + 1]
             /\ \A i \in 1 .. Len(queue') : queue'[i] = published'[Len(delivered') + Held' + i]
  <2>1. Len(published) = Len(delivered) + Held + Len(queue)
    BY <1>4 DEF InOrder
  <2>2. ASSUME worker.item # "none"
        PROVE  worker'.item = published'[Len(delivered') + 1]
    <3>1. Held = 1 /\ worker.item = published[Len(delivered) + 1]
      BY <1>4, <2>2 DEF InOrder, Held
    <3>2. Len(delivered) + 1 \in 1 .. Len(published)
      BY <1>1, <2>1, <3>1
    <3>3. QED
      BY <1>1, <3>1, <3>2
  <2>3. \A i \in 1 .. Len(queue') : queue'[i] = published'[Len(delivered') + Held' + i]
    <3> DEFINE n == Len(delivered) + Held
    <3>1. n \in Nat /\ Len(published) = n + Len(queue)
      BY <1>1, <2>1
    <3>2. \A i \in 1 .. Len(queue) : queue[i] = published[n + i]
      BY <1>4 DEF InOrder
    <3>3. published \in Seq(Events) /\ queue \in Seq(Events)
      BY DEF RabbitTypes
    <3>4. \A i \in 1 .. Len(Append(queue, event)) :
              Append(queue, event)[i] = Append(published, event)[n + i]
      <4> HIDE DEF n
      <4>1. QED
        BY <3>1, <3>2, <3>3, AppendToBoth, Zenon
    <3>5. Held' = Held /\ delivered' = delivered
      BY <1>1
    <3>6. QED
      BY <3>4, <3>5
  <2>4. Len(published') = Len(delivered') + Held' + Len(queue')
    BY <1>1, <2>1
  <2>5. QED
    BY <2>2, <2>3, <2>4
<1>5. QED
  BY <1>2, <1>3, <1>4 DEF InOrder

\* So does publishing to all publishers.
LEMMA PublishKeepsOrder ==
    ASSUME RabbitTypes, InOrder, NEW event \in Events, Publish(event)
    PROVE  InOrder'
<1>1. CASE PutInQueue(event)
  BY <1>1, PutKeepsOrder DEF PutInQueue
<1>2. CASE UNCHANGED rabbit
  BY <1>2 DEF rabbit, InOrder, Held
<1>3. QED
  BY <1>1, <1>2 DEF Publish

\* The worker takes from the head, and delivers what it has taken before it
\* takes the next.
LEMMA WorkerKeepsOrder ==
    ASSUME RabbitTypes, InOrder, WorkerNext
    PROVE  InOrder'
<1> USE DEF RabbitTypes
<1>1. CASE TakeEvent
  <2>1. /\ published' = published /\ delivered' = delivered
        /\ queue' = Tail(queue) /\ queue # <<>>
        /\ worker.stage = "waiting" /\ worker.item = "none"
        /\ worker'.stage # "dead" /\ worker'.item = Head(queue)
    BY <1>1 DEF TakeEvent
  <2>2. /\ Head(queue) = queue[1] /\ Head(queue) # "none"
        /\ Len(queue') = Len(queue) - 1 /\ Len(queue) \in Nat /\ Len(queue) > 0
        /\ \A i \in 1 .. Len(queue') : queue'[i] = queue[i + 1] /\ i + 1 \in 1 .. Len(queue)
    BY <2>1 DEF Events
  <2>3. Held = 0 /\ Held' = 1 /\ Len(delivered) \in Nat /\ Len(published) \in Nat
    BY <2>1, <2>2 DEF Held
  <2>4. Len(published) = Len(delivered) + Len(queue)
        /\ \A i \in 1 .. Len(queue) : queue[i] = published[Len(delivered) + i]
    BY <2>1, <2>3 DEF InOrder
  <2>5. Len(published') = Len(delivered') + Held' + Len(queue')
    BY <2>1, <2>2, <2>3, <2>4
  <2>6. worker'.item = published'[Len(delivered') + 1]
    BY <2>1, <2>2, <2>4
  <2>7. ASSUME NEW i \in 1 .. Len(queue')
        PROVE  queue'[i] = published'[Len(delivered') + Held' + i]
    <3>1. queue'[i] = queue[i + 1] /\ i + 1 \in 1 .. Len(queue)
      BY <2>2
    <3>2. queue[i + 1] = published[Len(delivered) + (i + 1)]
      BY <2>4, <3>1
    <3>3. Len(delivered) + (i + 1) = Len(delivered) + 1 + i
      BY <2>2, <2>3
    <3>4. QED
      BY <2>1, <2>3, <3>1, <3>2, <3>3
  <2>8. \A i \in 1 .. Len(delivered') : delivered'[i] = published'[i]
    BY <2>1 DEF InOrder
  <2>9. Len(delivered') + Held' + Len(queue') <= Len(published')
    BY <2>1, <2>2, <2>3, <2>4
  <2>10. QED
    BY <2>5, <2>6, <2>7, <2>8, <2>9 DEF InOrder
<1>2. CASE /\ UNCHANGED <<published, queue, delivered>> /\ worker'.item = worker.item
           /\ worker.stage # "dead"
  BY <1>2 DEF InOrder, Held
<1>3. CASE Connects
  BY <1>2, <1>3 DEF Connects, Goes
<1>4. CASE ConnectFails
  <2>1. CASE Goes("hung")
    BY <1>2, <1>4, <2>1 DEF ConnectFails, GivesUp, Goes
  <2>2. CASE worker' = [stage |-> "dead", item |-> "none"]
    <3>1. /\ UNCHANGED <<published, queue, delivered>> /\ worker'.stage = "dead"
          /\ Held' = 0 /\ Held \in {0, 1}
      BY <1>4, <2>2 DEF ConnectFails, Held
    <3>2. QED
      BY <3>1 DEF InOrder
  <2>3. QED
    BY <1>4, <2>1, <2>2 DEF ConnectFails, GivesUp
<1>5. CASE Deliver
  <2>1. /\ published' = published /\ queue' = queue
        /\ delivered' = Append(delivered, worker.item)
        /\ worker.stage # "dead" /\ worker.item # "none" /\ worker.item \in Events
        /\ worker'.item = "none" /\ worker'.stage # "dead"
    BY <1>5 DEF Deliver
  <2>2. /\ Len(delivered') = Len(delivered) + 1 /\ Len(delivered) \in Nat
        /\ delivered'[Len(delivered) + 1] = worker.item
        /\ \A i \in 1 .. Len(delivered) : delivered'[i] = delivered[i]
        /\ Len(queue) \in Nat /\ Len(published) \in Nat
        /\ Held = 1 /\ Held' = 0
    BY <2>1 DEF Held
  <2>3. /\ Len(published) = Len(delivered) + 1 + Len(queue)
        /\ worker.item = published[Len(delivered) + 1]
        /\ \A i \in 1 .. Len(queue) : queue[i] = published[Len(delivered) + 1 + i]
        /\ \A i \in 1 .. Len(delivered) : delivered[i] = published[i]
    BY <2>1, <2>2 DEF InOrder
  <2>4. \A i \in 1 .. Len(delivered') : delivered'[i] = published'[i]
    BY <2>1, <2>2, <2>3
  <2>5. \A i \in 1 .. Len(queue') : queue'[i] = published'[Len(delivered') + Held' + i]
    BY <2>1, <2>2, <2>3
  <2>6. Len(published') = Len(delivered') + Held' + Len(queue')
        /\ Len(delivered') + Held' + Len(queue') <= Len(published')
    BY <2>1, <2>2, <2>3
  <2>7. QED
    BY <2>1, <2>4, <2>5, <2>6 DEF InOrder
<1>6. CASE ConnectionDrops
  BY <1>2, <1>6 DEF ConnectionDrops
<1>7. QED
  BY <1>1, <1>3, <1>4, <1>5, <1>6 DEF WorkerNext

\* Every step does.
LEMMA InOrderStep ==
    ASSUME TypeOK, InOrder, [Next]_vars
    PROVE  InOrder'
<1>1. RabbitTypes
  BY DEF TypeOK, RabbitTypes
<1>2. CASE UNCHANGED rabbit
  BY <1>2 DEF rabbit, InOrder, Held
<1>3. CASE StartupFinishes
  <2>1. worker.stage = "absent"
    BY <1>3 DEF StartupFinishes, TypeOK, Started
  <2>2. CASE UNCHANGED <<worker, published, queue>>
    BY <1>2, <1>3, <2>2 DEF StartupFinishes, rabbit
  <2>3. CASE /\ worker' = [worker EXCEPT !.stage = "waiting"]
             /\ published' = Append(published, "STARTED")
             /\ queue' = Append(queue, "STARTED")
    <3>1. worker'.item = worker.item /\ worker'.stage = "waiting"
      BY <1>1, <2>3 DEF RabbitTypes
    <3>2. "STARTED" \in Events /\ delivered' = delivered
      BY <1>3 DEF StartupFinishes, Events
    <3>3. QED
      BY <1>1, <2>1, <2>3, <3>1, <3>2, PutKeepsOrder
  <2>4. QED
    BY <1>3, <2>2, <2>3 DEF StartupFinishes
<1>4. CASE CallEnds
  BY <1>1, <1>4, PublishKeepsOrder DEF CallEnds, Events
<1>5. ASSUME NEW g \in Signals, StopServer(g)
      PROVE  InOrder'
  <2>1. CASE Publish("STOPPED")
    BY <1>1, <2>1, PublishKeepsOrder DEF Events
  <2>2. QED
    BY <1>2, <1>5, <2>1 DEF StopServer
<1>6. CASE WorkerNext
  BY <1>1, <1>6, WorkerKeepsOrder
<1>7. CASE StartupWaits \/ CallBegins
  BY <1>2, <1>7 DEF StartupWaits, CallBegins
<1>8. ASSUME NEW s \in Sockets, OpenSocket(s) \/ SocketCloses(s)
      PROVE  InOrder'
  BY <1>2, <1>8 DEF OpenSocket, SocketCloses
<1>9. ASSUME NEW g \in Signals,
             \/ Signal(g) \/ PauseScheduler(g) \/ Joined(g) \/ JoinTimesOut(g)
             \/ CloseConnections(g) \/ StopLoop(g)
      PROVE  InOrder'
  BY <1>2, <1>9 DEF Signal, PauseScheduler, Joined, JoinTimesOut, CloseConnections, StopLoop
<1>10. CASE UNCHANGED vars
  BY <1>2, <1>10 DEF vars
<1>11. QED
  BY <1>3, <1>4, <1>5, <1>6, <1>7, <1>8, <1>9, <1>10 DEF Next, ShutdownNext

\* Nothing is published before Init.
LEMMA InOrderInit == Init => InOrder
BY DEF Init, InOrder, Held

\* RabbitMQ is given the events in the order in which they were published and
\* none is skipped, whatever connections drop or fail to open.
THEOREM EventsStayInOrder == Spec => []DeliveredInOrder
<1>1. TypeOK /\ InOrder => DeliveredInOrder
  <2> SUFFICES ASSUME TypeOK, InOrder PROVE DeliveredInOrder
    OBVIOUS
  <2>1. /\ published \in Seq(Events) /\ delivered \in Seq(Events)
        /\ Len(delivered) <= Len(published)
    <3>1. /\ published \in Seq(Events) /\ delivered \in Seq(Events) /\ queue \in Seq(Events)
          /\ Held \in {0, 1} /\ Len(delivered) + Held + Len(queue) <= Len(published)
      BY DEF TypeOK, InOrder, Held
    <3>2. QED
      BY <3>1
  <2>2. SubSeq(delivered, 1, Len(delivered)) = SubSeq(published, 1, Len(delivered))
    BY <2>1 DEF InOrder
  <2>3. QED
    BY <2>1, <2>2 DEF DeliveredInOrder, IsPrefix
<1>2. QED
  BY <1>1, TypeCorrect, InOrderInit, InOrderStep, PTL DEF Spec

-----------------------------------------------------------------------------
(***************************************************************************)
(* Websockets.                                                             *)
(***************************************************************************)

\* Once a shutdown has closed the websockets none joins or is left: closing is
\* never taken back, and asked by every socket that opens.
THEOREM ClosedToListeners == Spec => []NoListenerOutlives
<1>1. Init => NoListenerOutlives
  BY DEF Init, NoListenerOutlives
<1>2. TypeOK /\ NoListenerOutlives /\ [Next]_vars => NoListenerOutlives'
  <2> SUFFICES ASSUME TypeOK, NoListenerOutlives, [Next]_vars
               PROVE  NoListenerOutlives'
    OBVIOUS
  <2>1. CASE UNCHANGED web
    BY <2>1 DEF web, NoListenerOutlives
  <2>2. ASSUME NEW s \in Sockets, OpenSocket(s) \/ SocketCloses(s)
        PROVE  NoListenerOutlives'
    <3>1. closing' = closing
      BY <2>2 DEF OpenSocket, SocketCloses
    <3>2. ASSUME closing, NEW t \in Sockets PROVE sockets'[t] # "listening"
      BY <2>2, <3>2 DEF OpenSocket, SocketCloses, NoListenerOutlives, TypeOK
    <3>3. QED
      BY <3>1, <3>2 DEF NoListenerOutlives
  <2>3. ASSUME NEW g \in Signals, StopServer(g)
        PROVE  NoListenerOutlives'
    <3>1. CASE sockets' = [s \in Sockets |->
                   IF sockets[s] = "listening" THEN "closing" ELSE sockets[s]]
      BY <3>1 DEF NoListenerOutlives
    <3>2. QED
      BY <2>1, <2>3, <3>1 DEF StopServer
  <2>4. ASSUME NEW g \in Signals,
               \/ Signal(g) \/ PauseScheduler(g) \/ Joined(g) \/ JoinTimesOut(g)
               \/ CloseConnections(g) \/ StopLoop(g)
        PROVE  UNCHANGED web
    BY <2>4 DEF Signal, PauseScheduler, Joined, JoinTimesOut, CloseConnections, StopLoop
  <2>5. CASE \/ StartupFinishes \/ StartupWaits \/ CallBegins \/ CallEnds \/ WorkerNext
             \/ UNCHANGED vars
    BY <2>1, <2>5 DEF StartupFinishes, StartupWaits, CallBegins, CallEnds, WorkerNext,
           TakeEvent, Connects, ConnectFails, Deliver, ConnectionDrops, vars
  <2>6. QED
    BY <2>1, <2>2, <2>3, <2>4, <2>5 DEF Next, ShutdownNext
<1>3. QED
  BY <1>1, <1>2, TypeCorrect, PTL DEF Spec

-----------------------------------------------------------------------------
(***************************************************************************)
(* What is published before the loop stops.                                *)
(***************************************************************************)

StoppedIn(events) == \E i \in DOMAIN events : events[i] = "STOPPED"

\* Without the worker nothing is ever put into its queue.
NoneWithoutWorker == worker.stage = "absent" => published = <<>>

\* A shutdown that waits for the queue has put the stopped event there; one that
\* has waited for it knows that the event is out, unless there is no worker to
\* send it or the worker died.
JoinKnows ==
    \A g \in Signals :
        /\ shutdown[g] = "joining" => StoppedIn(published)
        /\ shutdown[g] \in {"joined", "stopping"} =>
               /\ Started
               /\ worker.stage \in {"absent", "dead"} \/ StoppedIn(delivered)

\* The loop is stopped by a shutdown that got to its end.
StoppedByShutdown ==
    loop = "stopped" => \E g \in Signals : shutdown[g] \in {"stopping", "stopping early"}

\* The invariant behind StopsDrained.
DrainInv == NoneWithoutWorker /\ JoinKnows /\ StoppedByShutdown

\* What RabbitMQ was given, and what was published, is not taken back; neither
\* is the death of the worker, and the worker appears at the end of startup.
LEMMA RabbitGrows ==
    ASSUME TypeOK, [Next]_vars
    PROVE  /\ StoppedIn(published) => StoppedIn(published)'
           /\ StoppedIn(delivered) => StoppedIn(delivered)'
           /\ worker.stage = "dead" => worker'.stage = "dead"
           /\ worker.stage = "absent" /\ Started => worker'.stage = "absent"
           /\ Started => Started'
<1> DEFINE Grows(before, after) ==
        after = before \/ \E event \in Events : after = Append(before, event)
<1>1. ASSUME NEW before \in Seq(Events), NEW after, Grows(before, after), StoppedIn(before)
      PROVE  StoppedIn(after)
  <2>1. PICK i \in DOMAIN before : before[i] = "STOPPED"
    BY <1>1 DEF StoppedIn
  <2>2. CASE after = before
    BY <1>1, <2>2
  <2>3. ASSUME NEW event \in Events, after = Append(before, event)
        PROVE  StoppedIn(after)
    <3>1. i \in DOMAIN after /\ after[i] = "STOPPED"
      BY <2>1, <2>3
    <3>2. QED
      BY <3>1 DEF StoppedIn
  <2>4. QED
    BY <1>1, <2>2, <2>3
<1>2. /\ Grows(published, published') /\ Grows(delivered, delivered')
      /\ worker.stage = "dead" => worker'.stage = "dead"
      /\ worker.stage = "absent" /\ Started => worker'.stage = "absent"
      /\ Started => Started'
  <2> DEFINE Goal ==
          /\ Grows(published, published') /\ Grows(delivered, delivered')
          /\ worker.stage = "dead" => worker'.stage = "dead"
          /\ worker.stage = "absent" /\ Started => worker'.stage = "absent"
          /\ Started => Started'
  <2>1. ASSUME startup' = startup, rabbit' = rabbit PROVE Goal
    BY <2>1 DEF rabbit, Started
  <2>2. ASSUME NEW event \in Events, startup' = startup, Publish(event) PROVE Goal
    <3>1. CASE PutInQueue(event)
      BY <2>2, <3>1 DEF PutInQueue, Started
    <3>2. QED
      BY <2>1, <2>2, <3>1 DEF Publish
  <2>3. CASE StartupFinishes
    <3>1. worker.stage = "absent" /\ ~Started /\ "STARTED" \in Events
      BY <2>3 DEF StartupFinishes, TypeOK, Started, Events
    <3>2. Grows(published, published') /\ delivered' = delivered
      BY <2>3, <3>1 DEF StartupFinishes
    <3>3. QED
      BY <3>1, <3>2
  <2>4. CASE CallEnds
    BY <2>2, <2>4 DEF CallEnds, Events
  <2>5. ASSUME NEW g \in Signals, StopServer(g) PROVE Goal
    <3>1. startup' = startup /\ (Publish("STOPPED") \/ rabbit' = rabbit)
      BY <2>5 DEF StopServer
    <3>2. QED
      BY <2>1, <2>2, <3>1 DEF Events
  <2>6. CASE WorkerNext
    <3>1. startup' = startup /\ published' = published
      BY <2>6 DEF WorkerNext, TakeEvent, Connects, ConnectFails, Deliver, ConnectionDrops, server
    <3>2. Grows(delivered, delivered')
      BY <2>6 DEF WorkerNext, TakeEvent, Connects, ConnectFails, Deliver, ConnectionDrops, TypeOK
    <3>3. /\ worker.stage = "dead" => worker'.stage = "dead"
          /\ worker.stage = "absent" => worker'.stage = "absent"
      BY <2>6 DEF WorkerNext, TakeEvent, Connects, ConnectFails, GivesUp, Deliver, ConnectionDrops
    <3>4. QED
      BY <3>1, <3>2, <3>3 DEF Started
  <2>7. CASE StartupWaits \/ CallBegins \/ UNCHANGED vars
    BY <2>1, <2>7 DEF StartupWaits, CallBegins, vars, server
  <2>8. ASSUME NEW s \in Sockets, OpenSocket(s) \/ SocketCloses(s) PROVE Goal
    BY <2>1, <2>8 DEF OpenSocket, SocketCloses, server
  <2>9. ASSUME NEW g \in Signals,
               \/ Signal(g) \/ PauseScheduler(g) \/ Joined(g) \/ JoinTimesOut(g)
               \/ CloseConnections(g) \/ StopLoop(g)
        PROVE  Goal
    BY <2>1, <2>9 DEF Signal, PauseScheduler, Joined, JoinTimesOut, CloseConnections, StopLoop,
           server
  <2>10. QED
    BY <2>3, <2>4, <2>5, <2>6, <2>7, <2>8, <2>9 DEF Next, ShutdownNext
<1>3. published \in Seq(Events) /\ delivered \in Seq(Events)
  BY DEF TypeOK
<1>4. StoppedIn(published) => StoppedIn(published')
  BY <1>1, <1>2, <1>3
<1>5. StoppedIn(delivered) => StoppedIn(delivered')
  BY <1>1, <1>2, <1>3
<1>6. QED
  BY <1>2, <1>4, <1>5 DEF StoppedIn

\* A join that ends finds all that was published delivered.
LEMMA JoinedDelivered ==
    ASSUME TypeOK, InOrder, ~Unfinished, worker.stage # "dead", StoppedIn(published)
    PROVE  StoppedIn(delivered)
<1>1. /\ published \in Seq(Events) /\ queue = <<>> /\ delivered \in Seq(Events) /\ Held = 0
  BY DEF TypeOK, Unfinished, Held
<1>2. Len(published) = Len(delivered) + Held + Len(queue)
      /\ \A i \in 1 .. Len(delivered) : delivered[i] = published[i]
  BY DEF InOrder
<1>3. Len(published) = Len(delivered)
  BY <1>1, <1>2
<1>4. QED
  BY <1>1, <1>2, <1>3 DEF StoppedIn

\* What was put into the queue contains what was put there last.
LEMMA PutIsIn ==
    ASSUME TypeOK, PutInQueue("STOPPED")
    PROVE  StoppedIn(published)'
<1>1. /\ published \in Seq(Events) /\ "STOPPED" \in Events
      /\ published' = Append(published, "STOPPED")
  BY DEF TypeOK, PutInQueue, Events
<1>2. Len(published) + 1 \in DOMAIN published' /\ published'[Len(published) + 1] = "STOPPED"
  BY <1>1
<1>3. QED
  BY <1>2 DEF StoppedIn

\* Without the worker there is no stopped event.
LEMMA StoppedByWorker ==
    ASSUME NoneWithoutWorker, StoppedIn(published)
    PROVE  worker.stage # "absent"
<1>1. ~ \E i \in DOMAIN <<>> : <<>>[i] = "STOPPED"
  OBVIOUS
<1>2. ASSUME worker.stage = "absent" PROVE FALSE
  <2>1. published = <<>>
    BY <1>2 DEF NoneWithoutWorker
  <2>2. QED
    BY <1>1, <2>1 DEF StoppedIn
<1>3. QED
  BY <1>2

\* No shutdown has begun, and nothing was published, before the first step.
LEMMA DrainInit == Init => DrainInv
BY DEF Init, DrainInv, NoneWithoutWorker, JoinKnows, StoppedByShutdown

\* Every step keeps what the shutdowns know.
LEMMA DrainStep ==
    ASSUME TypeOK, InOrder, DrainInv, [Next]_vars
    PROVE  DrainInv'
<1> USE DEF DrainInv
<1>1. NoneWithoutWorker'
  <2>1. CASE published' = published /\ (worker'.stage = "absent" => worker.stage = "absent")
    BY <2>1 DEF NoneWithoutWorker
  <2>2. ASSUME NEW event \in Events, Publish(event) PROVE NoneWithoutWorker'
    <3>1. CASE PutInQueue(event) /\ worker.stage # "absent"
      BY <3>1 DEF PutInQueue, NoneWithoutWorker
    <3>2. CASE UNCHANGED rabbit
      BY <2>1, <3>2 DEF rabbit
    <3>3. CASE PublishRaises /\ UNCHANGED rabbit
      BY <3>2, <3>3
    <3>4. QED
      BY <2>2, <3>1, <3>2, <3>3 DEF Publish
  <2>3. CASE StartupFinishes
    <3>1. CASE worker' = [worker EXCEPT !.stage = "waiting"]
      <4>1. worker'.stage = "waiting"
        BY <3>1 DEF TypeOK
      <4>2. QED
        BY <4>1 DEF NoneWithoutWorker
    <3>2. QED
      BY <2>1, <2>3, <3>1 DEF StartupFinishes
  <2>4. CASE CallEnds
    BY <2>2, <2>4 DEF CallEnds, Events
  <2>5. ASSUME NEW g \in Signals, StopServer(g) PROVE NoneWithoutWorker'
    <3>1. Publish("STOPPED") \/ UNCHANGED rabbit
      BY <2>5 DEF StopServer
    <3>2. QED
      BY <2>1, <2>2, <3>1 DEF rabbit, Events
  <2>6. CASE WorkerNext
    <3>1. published' = published
      BY <2>6 DEF WorkerNext, TakeEvent, Connects, ConnectFails, Deliver, ConnectionDrops
    <3>2. TakeEvent \/ Deliver \/ ConnectionDrops => worker'.stage # "absent"
      BY DEF TakeEvent, Deliver, ConnectionDrops
    <3>3. Goes("publishing") \/ Goes("hung") => worker'.stage # "absent"
      BY DEF Goes, TypeOK
    <3>4. Connects \/ ConnectFails => worker'.stage # "absent"
      BY <3>3 DEF Connects, ConnectFails, GivesUp
    <3>5. worker'.stage # "absent"
      BY <2>6, <3>2, <3>4 DEF WorkerNext
    <3>6. QED
      BY <3>5 DEF NoneWithoutWorker
  <2>7. CASE StartupWaits \/ CallBegins \/ UNCHANGED vars
    BY <2>1, <2>7 DEF StartupWaits, CallBegins, vars, rabbit
  <2>8. ASSUME NEW s \in Sockets, OpenSocket(s) \/ SocketCloses(s) PROVE NoneWithoutWorker'
    BY <2>1, <2>8 DEF OpenSocket, SocketCloses, rabbit
  <2>9. ASSUME NEW g \in Signals,
               \/ Signal(g) \/ PauseScheduler(g) \/ Joined(g) \/ JoinTimesOut(g)
               \/ CloseConnections(g) \/ StopLoop(g)
        PROVE  NoneWithoutWorker'
    BY <2>1, <2>9 DEF Signal, PauseScheduler, Joined, JoinTimesOut, CloseConnections, StopLoop,
           rabbit
  <2>10. QED
    BY <2>3, <2>4, <2>5, <2>6, <2>7, <2>8, <2>9 DEF Next, ShutdownNext
<1>2. JoinKnows'
  <2> SUFFICES ASSUME NEW h \in Signals
               PROVE  /\ shutdown'[h] = "joining" => StoppedIn(published)'
                      /\ shutdown'[h] \in {"joined", "stopping"} =>
                             /\ Started'
                             /\ worker'.stage \in {"absent", "dead"} \/ StoppedIn(delivered)'
    BY DEF JoinKnows
  <2> DEFINE Goal ==
          /\ shutdown'[h] = "joining" => StoppedIn(published)'
          /\ shutdown'[h] \in {"joined", "stopping"} =>
                 /\ Started'
                 /\ worker'.stage \in {"absent", "dead"} \/ StoppedIn(delivered)'
  <2>1. CASE shutdown'[h] = shutdown[h]
    BY <2>1, RabbitGrows DEF JoinKnows
  <2>2. CASE shutdown'[h] \notin {"joining", "joined", "stopping"}
    BY <2>2
  <2>3. ASSUME NEW g \in Signals, NEW stage, At(g, stage)
        PROVE  (g = h /\ shutdown'[h] = stage) \/ shutdown'[h] = shutdown[h]
    BY <2>3 DEF At, TypeOK
  <2>4. ASSUME NEW g \in Signals, StopServer(g) PROVE Goal
    <3>1. CASE At(g, "unjoined") \/ At(g, "raised")
      BY <2>1, <2>2, <2>3, <3>1
    <3>2. CASE /\ Started /\ ~PublishRaises
               /\ Publish("STOPPED")
               /\ At(g, IF worker.stage = "absent" THEN "joined" ELSE "joining")
      <4>1. CASE worker.stage = "absent"
        <5>1. At(g, "joined") /\ Started' /\ worker'.stage = "absent"
          BY <3>2, <4>1, RabbitGrows
        <5>2. QED
          BY <2>1, <2>3, <5>1
      <4>2. CASE worker.stage # "absent"
        <5>1. At(g, "joining") /\ StoppedIn(published)'
          BY <3>2, <4>2, PutIsIn DEF Publish
        <5>2. QED
          BY <2>1, <2>3, <5>1
      <4>3. QED
        BY <4>1, <4>2
    <3>3. QED
      BY <2>4, <3>1, <3>2 DEF StopServer
  <2>5. ASSUME NEW g \in Signals, Joined(g) PROVE Goal
    <3>1. At(g, "joined") /\ UNCHANGED <<server, web, rabbit>> /\ ~Unfinished
          /\ shutdown[g] = "joining"
      BY <2>5 DEF Joined
    <3>2. StoppedIn(published) /\ worker.stage # "absent"
      BY <3>1 DEF JoinKnows, NoneWithoutWorker, StoppedIn
    <3>3. worker.stage = "dead" \/ StoppedIn(delivered)
      BY <3>1, <3>2, JoinedDelivered
    <3>4. Started
      BY <3>2 DEF TypeOK
    <3>5. QED
      BY <2>1, <2>3, <3>1, <3>3, <3>4, RabbitGrows
  <2>6. ASSUME NEW g \in Signals, CloseConnections(g) PROVE Goal
    <3>1. CASE shutdown[g] = "joined"
      <4>1. At(g, "stopping")
        BY <2>6, <3>1 DEF CloseConnections
      <4>2. g = h => /\ Started'
                     /\ worker'.stage \in {"absent", "dead"} \/ StoppedIn(delivered)'
        BY <3>1, RabbitGrows DEF JoinKnows
      <4>3. QED
        BY <2>1, <2>3, <4>1, <4>2
    <3>2. CASE shutdown[g] = "unjoined"
      BY <2>1, <2>2, <2>3, <2>6, <3>2 DEF CloseConnections
    <3>3. QED
      BY <2>6, <3>1, <3>2 DEF CloseConnections
  <2>7. ASSUME NEW g \in Signals,
               Signal(g) \/ PauseScheduler(g) \/ JoinTimesOut(g) \/ StopLoop(g)
        PROVE  Goal
    <3>1. At(g, "called") \/ At(g, "pausing") \/ At(g, "timed out") \/ shutdown' = shutdown
      BY <2>7 DEF Signal, PauseScheduler, JoinTimesOut, StopLoop
    <3>2. QED
      BY <2>1, <2>2, <2>3, <3>1
  <2>8. CASE \/ StartupFinishes \/ StartupWaits \/ CallBegins \/ CallEnds \/ WorkerNext
             \/ UNCHANGED vars
    BY <2>1, <2>8 DEF StartupFinishes, StartupWaits, CallBegins, CallEnds, WorkerNext,
           TakeEvent, Connects, ConnectFails, Deliver, ConnectionDrops, vars
  <2>9. ASSUME NEW s \in Sockets, OpenSocket(s) \/ SocketCloses(s) PROVE Goal
    BY <2>1, <2>9 DEF OpenSocket, SocketCloses
  <2>10. QED
    BY <2>4, <2>5, <2>6, <2>7, <2>8, <2>9 DEF Next, ShutdownNext
<1>3. StoppedByShutdown'
  <2>1. CASE UNCHANGED vars
    BY <2>1 DEF vars, server, StoppedByShutdown
  <2>2. ASSUME NEW g \in Signals, StopLoop(g) PROVE StoppedByShutdown'
    BY <2>2 DEF StopLoop, StoppedByShutdown
  <2>3. CASE loop' # "stopped"
    BY <2>3 DEF StoppedByShutdown
  <2>4. ASSUME NEW g \in Signals,
               \/ Signal(g) \/ PauseScheduler(g) \/ StopServer(g) \/ Joined(g)
               \/ JoinTimesOut(g) \/ CloseConnections(g)
        PROVE  loop' = "running"
    BY <2>4 DEF Signal, PauseScheduler, StopServer, Joined, JoinTimesOut, CloseConnections,
           Running, server
  <2>5. CASE StartupFinishes \/ StartupWaits \/ CallBegins \/ CallEnds
    BY <2>3, <2>5 DEF StartupFinishes, StartupWaits, CallBegins, CallEnds, Running
  <2>6. CASE WorkerNext
    BY <2>3, <2>6 DEF WorkerNext, TakeEvent, Connects, ConnectFails, Deliver, ConnectionDrops,
           Running, server
  <2>7. ASSUME NEW s \in Sockets, OpenSocket(s) \/ SocketCloses(s) PROVE StoppedByShutdown'
    BY <2>3, <2>7 DEF OpenSocket, SocketCloses, Running, server
  <2>8. QED
    BY <2>1, <2>2, <2>3, <2>4, <2>5, <2>6, <2>7 DEF Next, ShutdownNext
<1>4. QED
  BY <1>1, <1>2, <1>3

\* The first stopped event, and with it all that was published before, has
\* been given to RabbitMQ when the loop stops, unless the worker died or a
\* shutdown found no publishers.
THEOREM LoopStopsDrained == Spec => []StopsDrained
<1>1. TypeOK /\ DrainInv => StopsDrained
  <2> SUFFICES ASSUME TypeOK, DrainInv, loop = "stopped", StoppedIn(published), worker.stage # "dead",
                      \A g \in Signals : shutdown[g] \notin {"unjoined", "stopping early"}
               PROVE  StoppedIn(delivered)
    BY DEF StopsDrained, StoppedIn
  <2>1. PICK g \in Signals : shutdown[g] = "stopping"
    BY DEF DrainInv, StoppedByShutdown
  <2>2. worker.stage \in {"absent", "dead"} \/ StoppedIn(delivered)
    BY <2>1 DEF DrainInv, JoinKnows
  <2>3. worker.stage # "absent"
    BY StoppedByWorker DEF DrainInv
  <2>4. QED
    BY <2>2, <2>3
<1>2. QED
  BY <1>1, TypeCorrect, InOrderInit, InOrderStep, DrainInit, DrainStep, PTL DEF Spec

=============================================================================
