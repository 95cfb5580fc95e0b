--------------------------- MODULE ServerLifecycle ---------------------------
(***************************************************************************)
(* The process of brew-view from startup to shutdown (__init__.py,         *)
(* __main__.py), with the events it publishes on the way: to websockets    *)
(* (controllers/event_api.py) and, through a queue that one coroutine      *)
(* works off, to RabbitMQ (publishers.py).                                 *)
(*                                                                         *)
(* Every signal starts a shutdown of its own, while startup may still be   *)
(* waiting for Mongo and calls may still be served; they take turns at     *)
(* their yields.                                                           *)
(***************************************************************************)
EXTENDS Integers, Sequences, SequencesExt

CONSTANTS
    Signals,        \* SIGTERM and SIGINT the process may get
    Sockets,        \* websocket connections
    Surroundings,   \* "mongo": it is not there at first; "drops": RabbitMQ
                    \* closes the connection; "fails": it cannot be opened;
                    \* "slow": an event may take longer than shutdown_timeout
    MaxCalls,       \* HTTP calls at a time (bound)
    MaxEvents       \* published in one behaviour (bound)

ASSUME ServerAssumption ==
    /\ Surroundings \subseteq {"mongo", "drops", "fails", "slow"}
    /\ MaxCalls \in Nat /\ MaxEvents \in Nat

VARIABLES
    loop,           \* the IOLoop
    startup,        \* the coroutine of that name
    wait_time,      \* of _progressive_backoff, in tenths of a second; 0 after it
    scheduler,
    listening,      \* the HTTP server, for new connections, see Listening
    calls,          \* HTTP calls being served, upgrades to a websocket too
    shutdown,       \* where the shutdown of each signal stands
    sockets,        \* EventSocket handlers
    closing,        \* EventSocket.closing
    published,      \* what was put into the work queue, ever
    queue,          \* _work_queue
    worker,         \* the coroutine _process
    amqp,           \* its connection, with or without a channel
    delivered       \* what RabbitMQ was given

server == <<loop, startup, wait_time, scheduler, listening, calls>>
web == <<sockets, closing>>
rabbit == <<published, queue, worker, amqp, delivered>>
vars == <<server, shutdown, web, rabbit>>

Events == {"STARTED", "CALL", "STOPPED"}

\* TCPServer.stop() does what it does once only: a server that is stopped
\* before it listens cannot be stopped afterwards.
Listening == {"unopened", "open", "closed", "kept_open"}

Init ==
    /\ loop = "running"
    /\ startup = "connecting"
    /\ wait_time = 1
    /\ scheduler = "idle"
    /\ listening = "unopened"
    /\ calls = 0
    /\ shutdown = [g \in Signals |-> "none"]
    /\ sockets = [s \in Sockets |-> "none"]
    /\ closing = FALSE
    /\ published = <<>>
    /\ queue = <<>>
    /\ worker = [stage |-> "absent", item |-> "none"]
    /\ amqp = "closed"
    /\ delivered = <<>>

Running == loop = "running"
Started == startup = "done"
-----------------------------------------------------------------------------
(***************************************************************************)
(* Publishing.                                                             *)
(***************************************************************************)

\* TornadoPikaPublisher.publish puts the event into the queue.
PutInQueue(event) ==
    /\ published' = Append(published, event)
    /\ queue' = Append(queue, event)
    /\ UNCHANGED <<worker, amqp, delivered>>

\* write_message raises for a listener that brew-view has closed and whose
\* on_close is still to come.
PublishRaises == \E s \in Sockets : sockets[s] = "closing"

\* event_publishers.publish_event; when the websockets raise, RabbitMQ may or
\* may not have had its turn.
Publish(event) ==
    \/ worker.stage # "absent" /\ PutInQueue(event)
    \/ worker.stage = "absent" /\ UNCHANGED rabbit
    \/ PublishRaises /\ UNCHANGED rabbit
-----------------------------------------------------------------------------
(***************************************************************************)
(* Startup.                                                                *)
(***************************************************************************)

\* Once Mongo is there the rest of startup has no yield: it listens and starts
\* the scheduler whatever a shutdown has stopped meanwhile.  Without RabbitMQ
\* there is no publisher to it.
StartupFinishes ==
    /\ Running /\ startup = "connecting"
    /\ startup' = "done"
    /\ scheduler' = "running"
    /\ listening' = IF listening = "closed" THEN "kept_open" ELSE "open"
    /\ \/ /\ worker' = [worker EXCEPT !.stage = "waiting"]
          /\ published' = Append(published, "STARTED")
          /\ queue' = Append(queue, "STARTED")
       \/ /\ "fails" \in Surroundings
          /\ UNCHANGED <<worker, published, queue>>
    /\ wait_time' = 0
    /\ UNCHANGED <<loop, calls, shutdown, web, amqp, delivered>>

\* Mutant of StartupWaits: the wait is not bounded.
StartupWaitsLonger ==
    /\ Running /\ startup = "connecting"
    /\ "mongo" \in Surroundings /\ wait_time < 1000
    /\ wait_time' = wait_time * 2
    /\ UNCHANGED <<loop, startup, scheduler, listening, calls, shutdown, web, rabbit>>

\* _progressive_backoff sleeps, twice as long every time, and tries again.
StartupWaits ==
    /\ Running /\ startup = "connecting"
    /\ "mongo" \in Surroundings
    /\ wait_time' = IF wait_time * 2 > 300 THEN 300 ELSE wait_time * 2
    /\ UNCHANGED <<loop, startup, scheduler, listening, calls, shutdown, web, rabbit>>
-----------------------------------------------------------------------------
(***************************************************************************)
(* Calls and websockets.                                                   *)
(***************************************************************************)

CallBegins ==
    /\ Running /\ listening \in {"open", "kept_open"} /\ calls < MaxCalls
    /\ calls' = calls + 1
    /\ UNCHANGED <<loop, startup, wait_time, scheduler, listening, shutdown, web, rabbit>>

\* on_finish, or EventPublisherAPI.post, publishes.
CallEnds ==
    /\ Running /\ calls > 0 /\ Len(published) < MaxEvents
    /\ calls' = calls - 1
    /\ Publish("CALL")
    /\ UNCHANGED <<loop, startup, wait_time, scheduler, listening, shutdown, web>>

\* Mutant of OpenSocket: whether the server is shutting down is not asked.
OpenSocketAnyway(s) ==
    /\ Running /\ calls > 0 /\ sockets[s] = "none"
    /\ calls' = calls - 1
    /\ sockets' = [sockets EXCEPT ![s] = "listening"]
    /\ UNCHANGED <<loop, startup, wait_time, scheduler, listening, shutdown, closing, rabbit>>

\* EventSocket.open: a call becomes a websocket; without the permission to read
\* events it is closed.
OpenSocket(s) ==
    /\ Running /\ calls > 0 /\ sockets[s] = "none"
    /\ calls' = calls - 1
    /\ \E permitted \in BOOLEAN :
           sockets' = [sockets EXCEPT ![s] =
               IF permitted /\ ~closing THEN "listening" ELSE "closed"]
    /\ UNCHANGED <<loop, startup, wait_time, scheduler, listening, shutdown, closing, rabbit>>

\* on_close, because the peer left or the server closed it.
SocketCloses(s) ==
    /\ Running /\ sockets[s] \in {"listening", "closing"}
    /\ sockets' = [sockets EXCEPT ![s] = "closed"]
    /\ UNCHANGED <<server, shutdown, closing, rabbit>>
-----------------------------------------------------------------------------
(***************************************************************************)
(* TornadoPikaPublisher._process.                                          *)
(***************************************************************************)

Goes(stage) == worker' = [worker EXCEPT !.stage = stage]

\* It takes an event, and opens first what is not open.
TakeEvent ==
    /\ Running /\ worker.stage = "waiting" /\ queue # <<>>
    /\ queue' = Tail(queue)
    /\ worker' = [item |-> Head(queue),
                  stage |-> IF amqp = "closed" THEN "connecting" ELSE "publishing"]
    /\ UNCHANGED <<server, shutdown, web, published, amqp, delivered>>

\* TornadoConnection calls back, and the channel after it.
Connects ==
    /\ Running /\ worker.stage = "connecting"
    /\ amqp' = "open"
    /\ Goes("publishing")
    /\ UNCHANGED <<server, shutdown, web, published, queue, delivered>>

\* Mutant of GivesUp: the coroutine survives and goes on with the next event.
SkipsEvent ==
    /\ worker.stage = "connecting" /\ worker' = [stage |-> "waiting", item |-> "none"]

\* A connection that fails to open ends the coroutine, with task_done, when it
\* raises; when it fails in a callback the coroutine waits for ever.
GivesUp ==
    /\ worker.stage = "connecting"
    /\ \/ worker' = [stage |-> "dead", item |-> "none"]
       \/ Goes("hung")

ConnectFails ==
    /\ Running /\ "fails" \in Surroundings
    /\ GivesUp
    /\ UNCHANGED <<server, shutdown, web, published, queue, amqp, delivered>>

\* basic_publish, and task_done.
Deliver ==
    /\ Running /\ worker.stage = "publishing" /\ amqp = "open"
    /\ delivered' = Append(delivered, worker.item)
    /\ worker' = [stage |-> "waiting", item |-> "none"]
    /\ UNCHANGED <<server, shutdown, web, published, queue, amqp>>

\* RabbitMQ closes a connection on which nothing is being published.
ConnectionDrops ==
    /\ Running /\ "drops" \in Surroundings
    /\ amqp = "open" /\ worker.stage = "waiting"
    /\ Len(delivered) < MaxEvents
    /\ amqp' = "closed"
    /\ UNCHANGED <<server, shutdown, web, published, queue, worker, delivered>>

\* What Queue.join waits for: an event counts until its task_done.
Unfinished == queue # <<>> \/ worker.item # "none"
-----------------------------------------------------------------------------
(***************************************************************************)
(* Shutdown.                                                               *)
(***************************************************************************)

At(g, stage) == shutdown' = [shutdown EXCEPT ![g] = stage]

Signal(g) ==
    /\ Running /\ shutdown[g] = "none"
    /\ At(g, "called")
    /\ UNCHANGED <<server, web, rabbit>>

PauseScheduler(g) ==
    /\ Running /\ shutdown[g] = "called" /\ scheduler \in {"running", "paused"}
    /\ scheduler' = "paused"
    /\ At(g, "pausing")
    /\ UNCHANGED <<loop, startup, wait_time, listening, calls, web, rabbit>>

\* From server.stop() to the join: the stopped event is published, and the
\* websockets are told to close.  Before startup is done there are no
\* publishers to shut down.
StopServer(g) ==
    /\ Running
    /\ \/ shutdown[g] = "pausing"
       \/ shutdown[g] = "called" /\ scheduler \notin {"running", "paused"}
    /\ listening' = IF listening = "kept_open" THEN listening ELSE "closed"
    /\ \/ /\ ~Started
          /\ At(g, "unjoined")
          /\ UNCHANGED <<web, rabbit>>
       \/ /\ Started /\ ~PublishRaises
          /\ Publish("STOPPED")
          /\ closing' = TRUE
          /\ sockets' = [s \in Sockets |->
                 IF sockets[s] = "listening" THEN "closing" ELSE sockets[s]]
          /\ At(g, IF worker.stage = "absent" THEN "joined" ELSE "joining")
       \/ /\ Started /\ PublishRaises
          /\ Publish("STOPPED")
          /\ At(g, "raised")
          /\ UNCHANGED web
    /\ UNCHANGED <<loop, startup, wait_time, scheduler, calls>>

\* Mutant of Joined: the queue is not waited for.
JoinedEarly(g) ==
    /\ Running /\ shutdown[g] = "joining"
    /\ At(g, "joined")
    /\ UNCHANGED <<server, web, rabbit>>

Joined(g) ==
    /\ Running /\ shutdown[g] = "joining" /\ ~Unfinished
    /\ At(g, "joined")
    /\ UNCHANGED <<server, web, rabbit>>

\* TimeoutError ends the coroutine: what is left of shutdown is not done.
JoinTimesOut(g) ==
    /\ Running /\ shutdown[g] = "joining" /\ Unfinished
    /\ worker.stage \in {"dead", "hung"} \/ "slow" \in Surroundings
    /\ At(g, "timed out")
    /\ UNCHANGED <<server, web, rabbit>>

\* Mutant of CloseConnections: without a scheduler nothing stops the loop.
CloseConnectionsOnly(g) ==
    /\ Running /\ shutdown[g] \in {"joined", "unjoined"} /\ scheduler # "idle"
    /\ scheduler' = "stopped"
    /\ At(g, IF shutdown[g] = "joined" THEN "stopping" ELSE "stopping early")
    /\ UNCHANGED <<loop, startup, wait_time, listening, calls, web, rabbit>>

\* The handlers behind the connections run on, if only to find them closed.
CloseConnections(g) ==
    /\ Running /\ shutdown[g] \in {"joined", "unjoined"}
    /\ scheduler' = IF scheduler = "idle" THEN "idle" ELSE "stopped"
    /\ At(g, IF shutdown[g] = "joined" THEN "stopping" ELSE "stopping early")
    /\ UNCHANGED <<loop, startup, wait_time, listening, calls, web, rabbit>>

StopLoop(g) ==
    /\ Running /\ shutdown[g] \in {"stopping", "stopping early"}
    /\ loop' = "stopped"
    /\ UNCHANGED <<startup, wait_time, scheduler, listening, calls, shutdown, web, rabbit>>
-----------------------------------------------------------------------------

WorkerNext == TakeEvent \/ Connects \/ ConnectFails \/ Deliver \/ ConnectionDrops

ShutdownNext(g) ==
    \/ PauseScheduler(g) \/ StopServer(g) \/ Joined(g) \/ JoinTimesOut(g)
    \/ CloseConnections(g) \/ StopLoop(g)

Next ==
    \/ StartupFinishes \/ StartupWaits
    \/ CallBegins \/ CallEnds
    \/ \E s \in Sockets : OpenSocket(s) \/ SocketCloses(s)
    \/ WorkerNext
    \/ \E g \in Signals : Signal(g) \/ ShutdownNext(g)

\* The IOLoop runs what is ready, and RabbitMQ answers or refuses.  Nothing is
\* asked of Mongo, of clients, or of whoever sends signals.
Fairness ==
    /\ WF_vars(TakeEvent)
    /\ WF_vars(Connects)
    /\ WF_vars(Deliver)
    /\ \A g \in Signals : WF_vars(ShutdownNext(g))

Spec == Init /\ [][Next]_vars /\ Fairness
-----------------------------------------------------------------------------
(***************************************************************************)
(* Correctness.                                                            *)
(***************************************************************************)

TypeOK ==
    /\ loop \in {"running", "stopped"}
    /\ startup \in {"connecting", "done"}
    /\ wait_time \in 0 .. 300 /\ (wait_time = 0 <=> Started)
    /\ scheduler \in {"idle", "running", "paused", "stopped"}
    /\ listening \in Listening
    /\ calls \in 0 .. MaxCalls
    /\ shutdown \in [Signals -> {"none", "called", "pausing", "joining", "joined", "unjoined",
                                 "stopping", "stopping early", "raised", "timed out"}]
    /\ sockets \in [Sockets -> {"none", "listening", "closing", "closed"}]
    /\ closing \in BOOLEAN
    /\ published \in Seq(Events) /\ queue \in Seq(Events) /\ delivered \in Seq(Events)
    /\ worker \in [stage : {"absent", "waiting", "connecting", "publishing", "dead", "hung"},
                   item : Events \union {"none"}]
    /\ worker.stage \in {"connecting", "publishing", "hung"} <=> worker.item # "none"
    /\ ~Started => worker.stage = "absent"
    /\ amqp \in {"open", "closed"}

\* RabbitMQ is given the events in the order in which they were published and
\* none is skipped, whatever connections drop or fail to open.
DeliveredInOrder == IsPrefix(delivered, published)

\* Once a shutdown has closed the websockets none joins or is left: a socket
\* that opens in the middle of it is turned away.
NoListenerOutlives ==
    closing => \A s \in Sockets : sockets[s] # "listening"

\* The first stopped event, and with it all that was published before, has
\* been given to RabbitMQ when the loop stops: no shutdown overtakes another's
\* join.  Only a worker that died over an event, and a shutdown that found no
\* publishers because startup was still waiting, let the loop stop without.
StopsDrained ==
    /\ loop = "stopped"
    /\ \E i \in DOMAIN published : published[i] = "STOPPED"
    /\ worker.stage # "dead"
    /\ \A g \in Signals : shutdown[g] \notin {"unjoined", "stopping early"}
    => \E i \in DOMAIN delivered : delivered[i] = "STOPPED"

\* A signal stops the loop, also in the middle of startup and when another
\* shutdown is under way, unless a join times out: that shutdown ends there and
\* the loop runs on.
SignalStops ==
    \A g \in Signals :
        shutdown[g] # "none" ~>
            loop = "stopped" \/ \E h \in Signals : shutdown[h] = "timed out"

=============================================================================
