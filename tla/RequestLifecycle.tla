-------------------------- MODULE RequestLifecycle --------------------------
(***************************************************************************)
(* A request from its POST to its last PATCH.                              *)
(*                                                                         *)
(* RequestListAPI.post saves the document, asks Bartender over Thrift to   *)
(* validate and publish it, and answers: at once, or, for a blocking call, *)
(* when a PATCH of RequestAPI has completed the request.  The two handlers *)
(* meet in the Mongo document, in brew_view.request_map (the waiters), in  *)
(* the Prometheus gauges and in the counts of the scheduled job that made  *)
(* the request.  Tornado runs one handler at a time, so an action is what  *)
(* a handler does between two yields.                                      *)
(*                                                                         *)
(* Bartender, the queue, the plugin and the process itself are the         *)
(* surroundings; Surroundings says which of their misdeeds an instance     *)
(* allows.                                                                 *)
(***************************************************************************)
EXTENDS RequestPatch, Integers, FiniteSets

CONSTANTS
    RequestIds,     \* the documents Mongo may come to hold
    JobIds,         \* scheduled jobs
    NoJob,          \* "_bg_job_id" missing from the metadata
    StrayPatches,   \* bodies other API clients send
    Surroundings,   \* what may go wrong around brew-view, see Mishaps
    MaxMishaps      \* how many bounded mishaps one behaviour may hold

\* unreachable: no Thrift connection        refuses: Bartender rejects or
\* rpc_loss: an answer never arrives                 cannot publish
\* retries: a plugin repeats an update      redelivers: a message comes twice
\* strays: other clients PATCH              clears: Bartender empties a queue
\* removals: jobs are deleted               restarts: brew-view restarts
\* crashes: it dies inside a PATCH
Mishaps == {"unreachable", "refuses", "rpc_loss", "retries", "redelivers",
            "strays", "clears", "removals", "restarts", "crashes"}

ASSUME LifecycleAssumption ==
    /\ IsFiniteSet(RequestIds)
    /\ NoJob \notin JobIds
    /\ StrayPatches \subseteq Seq(PatchOps)
    /\ Surroundings \subseteq Mishaps
    /\ MaxMishaps \in Nat

VARIABLES
    requests,       \* Mongo: the document of each id, Missing if none
    request_map,    \* the waiter of each id: none, or an Event clear or set
    handler,        \* where the POST of each id stands
    call,           \* how it was called
    reply,          \* what it was answered
    rpc,            \* its processRequest call
    plugin,         \* its message, from the queue to the plugin's last update
    gauges,         \* queued_request_gauge, in_progress_request_gauge and
                    \* completed_request_counter, for one set of labels
    jobs,           \* Mongo: the run counts of each job
    announced,      \* events the handlers of each request published
    mishaps         \* bounded mishaps so far

vars == <<requests, request_map, handler, call, reply, rpc, plugin, gauges,
          jobs, announced, mishaps>>

-----------------------------------------------------------------------------

Docs == [status : STATUS_LIST, output : Values \union {NoValue},
         error_class : Values \union {NoValue}, job : JobIds \union {NoJob}]

Missing == [status |-> "none", output |-> NoValue, error_class |-> NoValue,
            job |-> NoJob]

NewDoc(j) == [Missing EXCEPT !.status = "CREATED", !.job = j]

Exists(r) == requests[r].status # "none"
Completed(r) == requests[r].status \in COMPLETED_STATUSES

\* The query arguments of a POST: blocking or not, and if so with no timeout,
\* a number of seconds, or text that int() cannot read.
Calls == {"no", "forever", "seconds", "malformed"}
Blocking(r) == call[r] # "no"

Codes == {"none", "201", "400", "408", "500", "502", "503", "504", "dropped"}
Replies == [code : Codes, body : STATUS_LIST \union {"none"}]
Answer(code) == [code |-> code, body |-> "none"]
Unanswered == Answer("none")

Gauges == [queued : Int, in_progress : Int, completed : Int]

JobRecords == [exists : BOOLEAN, success_count : Nat, error_count : Nat]

Events ==
    [name : {"REQUEST_CREATED", "REQUEST_STARTED", "REQUEST_COMPLETED"},
     error : BOOLEAN]

InStatus(docs, status) == {r \in RequestIds : docs[r].status = status}

\* Mutant of InitialCounts: the running requests are forgotten.
QueuedOnlyInitialCounts(docs) ==
    [queued |-> Cardinality(InStatus(docs, "CREATED")),
     in_progress |-> 0, completed |-> 0]

\* initialize_counts, on the gauges of a process that has just started.
InitialCounts(docs) ==
    [queued      |-> Cardinality(InStatus(docs, "CREATED")),
     in_progress |-> Cardinality(InStatus(docs, "IN_PROGRESS")),
     completed   |-> 0]

Init ==
    /\ requests = [r \in RequestIds |-> Missing]
    /\ request_map = [r \in RequestIds |-> "none"]
    /\ handler = [r \in RequestIds |-> "idle"]
    /\ call = [r \in RequestIds |-> "no"]
    /\ reply = [r \in RequestIds |-> Unanswered]
    /\ rpc = [r \in RequestIds |-> "none"]
    /\ plugin = [r \in RequestIds |-> "none"]
    /\ gauges = [queued |-> 0, in_progress |-> 0, completed |-> 0]
    /\ jobs = [j \in JobIds |->
                  [exists |-> TRUE, success_count |-> 0, error_count |-> 0]]
    /\ announced = [r \in RequestIds |-> {}]
    /\ mishaps = 0

Mishap(kind) == kind \in Surroundings /\ UNCHANGED mishaps

\* A mishap that could otherwise recur for ever.
BoundedMishap(kind) ==
    /\ kind \in Surroundings
    /\ mishaps < MaxMishaps
    /\ mishaps' = mishaps + 1

Announce(r, name, error) ==
    announced' = [announced EXCEPT ![r] =
                     @ \union {[name |-> name, error |-> error]}]

-----------------------------------------------------------------------------
(***************************************************************************)
(* RequestListAPI.post up to its first yield.                              *)
(***************************************************************************)

\* Mutant of AcceptPost: the waiter is not registered before the yield.
WaiterlessAcceptPost(r, c, j) ==
    /\ handler[r] = "idle"
    /\ j # NoJob => c = "forever"
    /\ requests' = [requests EXCEPT ![r] = NewDoc(j)]
    /\ call' = [call EXCEPT ![r] = c]
    /\ UNCHANGED request_map

\* The document is saved and the waiter is in place before Bartender hears of
\* the request.  A scheduled job posts blocking, without a timeout (run_job).
AcceptPost(r, c, j) ==
    /\ handler[r] = "idle"
    /\ j # NoJob => c = "forever"
    /\ requests' = [requests EXCEPT ![r] = NewDoc(j)]
    /\ call' = [call EXCEPT ![r] = c]
    /\ request_map' =
           [request_map EXCEPT ![r] = IF c = "no" THEN "none" ELSE "clear"]

Post(r, c, j) ==
    /\ AcceptPost(r, c, j)
    /\ handler' = [handler EXCEPT ![r] = "dispatching"]
    /\ rpc' = [rpc EXCEPT ![r] = "sent"]
    /\ UNCHANGED <<reply, plugin, gauges, jobs, announced, mishaps>>

\* thrift_context connects when it is entered, outside the try: the exception
\* leaves the handler with the document saved and the waiter in the map.  As
\* after every exception, write_error marks the event and on_finish sends it.
PostUnreachable(r, c, j) ==
    /\ Mishap("unreachable")
    /\ AcceptPost(r, c, j)
    /\ handler' = [handler EXCEPT ![r] = "done"]
    /\ reply' = [reply EXCEPT ![r] = Answer("503")]
    /\ Announce(r, "REQUEST_CREATED", TRUE)
    /\ UNCHANGED <<rpc, plugin, gauges, jobs>>

-----------------------------------------------------------------------------
(***************************************************************************)
(* Bartender's processRequest (external).                                  *)
(***************************************************************************)

\* Its answer matters only while the handler still waits for it.
BackendAnswers(r, outcome) ==
    rpc' = [rpc EXCEPT ![r] =
               IF handler[r] = "dispatching" THEN outcome ELSE "none"]

BackendAccepts(r) ==
    /\ rpc[r] = "sent"
    /\ Exists(r)
    /\ BackendAnswers(r, "accepted")
    /\ plugin' = [plugin EXCEPT ![r] = "queued"]
    /\ UNCHANGED <<requests, request_map, handler, call, reply, gauges, jobs,
                   announced, mishaps>>

BackendRefuses(r) ==
    /\ Mishap("refuses")
    /\ rpc[r] = "sent"
    /\ \E outcome \in {"invalid", "unpublished"} : BackendAnswers(r, outcome)
    /\ UNCHANGED <<requests, request_map, handler, call, reply, plugin, gauges,
                   jobs, announced>>

-----------------------------------------------------------------------------
(***************************************************************************)
(* RequestListAPI.post after the yield of processRequest.                  *)
(***************************************************************************)

\* The handler ends with an answer and takes its waiter out of the map.
Finish(r, answer) ==
    /\ handler' = [handler EXCEPT ![r] = "done"]
    /\ reply' = [reply EXCEPT ![r] = answer]
    /\ request_map' = [request_map EXCEPT ![r] = "none"]

\* Mutant of FinishReloaded: the document is not reloaded after the wait.
StaleFinishReloaded(r) ==
    Finish(r, [code |-> "201", body |-> "CREATED"])

\* A blocking call answers 201 with the document as it is after reload().
FinishReloaded(r) ==
    Finish(r, [code |-> "201", body |-> requests[r].status])

\* A call that does not block answers with the document it saved, however far
\* the plugin has come.  The wait of a blocking call returns at once when the
\* request was completed before Bartender's answer was read.
Dispatched(r) ==
    /\ handler[r] = "dispatching"
    /\ rpc[r] = "accepted"
    /\ rpc' = [rpc EXCEPT ![r] = "none"]
    /\ gauges' = [gauges EXCEPT !.queued = @ + 1]
    /\ Announce(r, "REQUEST_CREATED", FALSE)
    /\ \/ /\ call[r] = "no"
          /\ Finish(r, [code |-> "201", body |-> "CREATED"])
       \/ /\ call[r] = "malformed"
          /\ Finish(r, Answer("500"))
       \/ /\ call[r] \in {"forever", "seconds"}
          /\ request_map[r] = "set"
          /\ FinishReloaded(r)
       \/ /\ call[r] \in {"forever", "seconds"}
          /\ request_map[r] # "set"
          /\ handler' = [handler EXCEPT ![r] = "waiting"]
          /\ UNCHANGED <<reply, request_map>>
    /\ UNCHANGED <<requests, call, plugin, jobs, mishaps>>

\* Mutant of Withdraw: the refused document is not deleted.
KeepingWithdraw(r, code) ==
    /\ handler[r] = "dispatching"
    /\ handler' = [handler EXCEPT ![r] = "done"]
    /\ reply' = [reply EXCEPT ![r] = Answer(code)]
    /\ rpc' = [rpc EXCEPT ![r] = "none"]
    /\ Announce(r, "REQUEST_CREATED", TRUE)
    /\ UNCHANGED <<requests, request_map, call, plugin, gauges, jobs>>

\* The three except clauses delete the document; none of them takes the waiter
\* out of the map, which only the wait's finally does.  on_finish announces
\* the creation, as one that failed.
Withdraw(r, code) ==
    /\ handler[r] = "dispatching"
    /\ requests' = [requests EXCEPT ![r] = Missing]
    /\ handler' = [handler EXCEPT ![r] = "done"]
    /\ reply' = [reply EXCEPT ![r] = Answer(code)]
    /\ rpc' = [rpc EXCEPT ![r] = "none"]
    /\ Announce(r, "REQUEST_CREATED", TRUE)
    /\ UNCHANGED <<request_map, call, plugin, gauges, jobs>>

DispatchRefused(r) ==
    /\ \/ rpc[r] = "invalid" /\ Withdraw(r, "400")
       \/ rpc[r] = "unpublished" /\ Withdraw(r, "502")
    /\ UNCHANGED mishaps

\* The connection breaks or socket_timeout passes, whatever Bartender did.
DispatchLost(r) ==
    /\ Mishap("rpc_loss")
    /\ \E code \in {"503", "504"} : Withdraw(r, code)

-----------------------------------------------------------------------------
(***************************************************************************)
(* The end of a blocking call.                                             *)
(***************************************************************************)

Wake(r) ==
    /\ handler[r] = "waiting"
    /\ request_map[r] = "set"
    /\ FinishReloaded(r)
    /\ UNCHANGED <<requests, call, rpc, plugin, gauges, jobs, announced,
                   mishaps>>

\* Mutant of Expire: a request whose caller gave up is deleted.
DeletingExpire(r) ==
    /\ handler[r] = "waiting"
    /\ call[r] = "seconds"
    /\ Finish(r, Answer("408"))
    /\ requests' = [requests EXCEPT ![r] = Missing]
    /\ UNCHANGED <<call, rpc, plugin, gauges, jobs, announced, mishaps>>

\* Mutant of Expire: only a request that is still open can time out.
OpenOnlyExpire(r) ==
    /\ handler[r] = "waiting"
    /\ call[r] = "seconds"
    /\ ~Completed(r)
    /\ Finish(r, Answer("408"))
    /\ UNCHANGED <<requests, call, rpc, plugin, gauges, jobs, announced,
                   mishaps>>

\* The timeout may fire after the Event was set and before the handler runs.
Expire(r) ==
    /\ handler[r] = "waiting"
    /\ call[r] = "seconds"
    /\ Finish(r, Answer("408"))
    /\ UNCHANGED <<requests, call, rpc, plugin, gauges, jobs, announced,
                   mishaps>>

-----------------------------------------------------------------------------
(***************************************************************************)
(* RequestAPI.patch, which yields nowhere.                                 *)
(***************************************************************************)

\* Mutant of UpdatedGauges: no early return, a repeated status counts again.
EagerUpdatedGauges(before, after) ==
    [queued |-> gauges.queued - (IF before = "CREATED" THEN 1 ELSE 0),
     in_progress |-> gauges.in_progress
         - (IF before = "IN_PROGRESS" THEN 1 ELSE 0)
         + (IF after = "IN_PROGRESS" THEN 1 ELSE 0),
     completed |-> gauges.completed
         + (IF after \in COMPLETED_STATUSES THEN 1 ELSE 0)]

\* metrics.request_updated
UpdatedGauges(before, after) ==
    IF before = after \/ before \in COMPLETED_STATUSES
    THEN gauges
    ELSE [queued |-> gauges.queued - (IF before = "CREATED" THEN 1 ELSE 0),
          in_progress |-> gauges.in_progress
              - (IF before = "IN_PROGRESS" THEN 1 ELSE 0)
              + (IF after = "IN_PROGRESS" THEN 1 ELSE 0),
          completed |-> gauges.completed
              + (IF after \in COMPLETED_STATUSES THEN 1 ELSE 0)]

\* Mutant of UpdatedJobs: a repeated status counts again.
EagerUpdatedJobs(job, before, after) ==
    [j \in JobIds |->
        IF j # job \/ ~jobs[j].exists
        THEN jobs[j]
        ELSE [jobs[j] EXCEPT
                !.success_count = @ + (IF after = "SUCCESS" THEN 1 ELSE 0),
                !.error_count = @ + (IF after = "ERROR" THEN 1 ELSE 0)]]

\* _update_job_numbers; a job that is gone is logged and ignored.
UpdatedJobs(job, before, after) ==
    IF job = NoJob \/ before = after
    THEN jobs
    ELSE [j \in JobIds |->
             IF j # job \/ ~jobs[j].exists
             THEN jobs[j]
             ELSE [jobs[j] EXCEPT
                     !.success_count = @ + (IF after = "SUCCESS" THEN 1 ELSE 0),
                     !.error_count = @ + (IF after = "ERROR" THEN 1 ELSE 0)]]

ApplyPatch(r, ops) ==
    LET doc == requests[r]
        req == PatchedDoc(doc, ops)
    IN  /\ requests' = [requests EXCEPT ![r] = req]
        /\ gauges' = UpdatedGauges(doc.status, req.status)
        /\ jobs' = UpdatedJobs(doc.job, doc.status, req.status)
        /\ request_map' = [request_map EXCEPT ![r] =
               IF Completes(ops) /\ @ # "none" THEN "set" ELSE @]
        /\ announced' = [announced EXCEPT ![r] = @ \union
               [name : EventNames(ops), error : {EventError(doc, ops)}]]

\* 404 for a document that is gone and 400 for a refused operation change
\* nothing, and their events do not say which request they are about.
ServePatch(r, ops) ==
    /\ \/ /\ Exists(r)
          /\ ~Rejected(requests[r], ops)
          /\ ApplyPatch(r, ops)
       \/ /\ ~Exists(r) \/ Rejected(requests[r], ops)
          /\ UNCHANGED <<requests, gauges, jobs, request_map, announced>>
    /\ UNCHANGED <<handler, call, reply, rpc>>

-----------------------------------------------------------------------------
(***************************************************************************)
(* Who sends a PATCH: the plugin (external), which reports that it started *)
(* and then the result, and any other client.                              *)
(***************************************************************************)

Op(path, value) == [path |-> path, value |-> value]

StartPatch == <<Op("status", "IN_PROGRESS")>>

FinishPatches ==
    {<<Op("status", "SUCCESS"), Op("output", v)>> : v \in Values}
        \union {<<Op("status", "ERROR"), Op("output", v), Op("error_class", v)>> :
                    v \in Values}

PluginStarts(r) ==
    /\ plugin[r] = "queued"
    /\ plugin' = [plugin EXCEPT ![r] = "running"]
    /\ ServePatch(r, StartPatch)
    /\ UNCHANGED mishaps

PluginFinishes(r) ==
    /\ plugin[r] = "running"
    /\ plugin' = [plugin EXCEPT ![r] = "finished"]
    /\ \E ops \in FinishPatches : ServePatch(r, ops)
    /\ UNCHANGED mishaps

\* The plugin did not read the answer and repeats its last update.
PluginRetries(r) ==
    /\ Mishap("retries")
    /\ \/ plugin[r] = "running" /\ ServePatch(r, StartPatch)
       \/ /\ plugin[r] = "finished"
          /\ \E ops \in FinishPatches :
                 /\ PatchedDoc(requests[r], ops) = requests[r]
                 /\ ServePatch(r, ops)
    /\ UNCHANGED plugin

\* The broker did not see the acknowledgement and delivers the message again.
Redelivered(r) ==
    /\ BoundedMishap("redelivers")
    /\ plugin[r] = "finished"
    /\ plugin' = [plugin EXCEPT ![r] = "queued"]
    /\ UNCHANGED <<requests, request_map, handler, call, reply, rpc, gauges,
                   jobs, announced>>

StrayPatch(r) ==
    /\ BoundedMishap("strays")
    /\ \E ops \in StrayPatches : ServePatch(r, ops)
    /\ UNCHANGED plugin

\* QueueAPI.delete has Bartender cancel what the queue holds: it writes the
\* document itself, past RequestAPI (external).
MessageCleared(r) ==
    /\ Mishap("clears")
    /\ plugin[r] = "queued"
    /\ plugin' = [plugin EXCEPT ![r] = "none"]
    /\ requests' = IF Exists(r)
                   THEN [requests EXCEPT ![r].status = "CANCELED"]
                   ELSE requests
    /\ UNCHANGED <<request_map, handler, call, reply, rpc, gauges, jobs,
                   announced>>

\* JobAPI.delete, or the scheduler dropping a job that has no next run.
RemoveJob(j) ==
    /\ Mishap("removals")
    /\ jobs[j].exists
    /\ jobs' = [jobs EXCEPT ![j].exists = FALSE]
    /\ UNCHANGED <<requests, request_map, handler, call, reply, rpc, plugin,
                   gauges, announced>>

-----------------------------------------------------------------------------
(***************************************************************************)
(* The process goes away and comes back.                                   *)
(***************************************************************************)

Live(r) == handler[r] \in {"dispatching", "waiting"}

\* Open connections drop, request_map and the metrics start afresh, and a
\* processRequest still on its way may or may not arrive.
ProcessRestarts(docs) ==
    /\ request_map' = [r \in RequestIds |-> "none"]
    /\ handler' = [r \in RequestIds |-> IF Live(r) THEN "done" ELSE handler[r]]
    /\ reply' = [r \in RequestIds |->
                    IF Live(r) THEN Answer("dropped") ELSE reply[r]]
    /\ \E arriving \in SUBSET {r \in RequestIds : rpc[r] = "sent"} :
           rpc' = [r \in RequestIds |-> IF r \in arriving THEN "sent" ELSE "none"]
    /\ gauges' = InitialCounts(docs)
    /\ UNCHANGED <<call, jobs, announced>>

Restart ==
    /\ BoundedMishap("restarts")
    /\ ProcessRestarts(requests)
    /\ UNCHANGED <<requests, plugin>>

\* It dies after req.save(): no metrics, no job count, no Event, no answer.
\* The plugin has sent its update and may repeat it.
CrashInPatch(r) ==
    /\ BoundedMishap("crashes")
    /\ Exists(r)
    /\ \/ /\ plugin[r] = "queued"
          /\ plugin' = [plugin EXCEPT ![r] = "running"]
          /\ requests' = [requests EXCEPT ![r] = PatchedDoc(@, StartPatch)]
       \/ /\ plugin[r] = "running"
          /\ plugin' = [plugin EXCEPT ![r] = "finished"]
          /\ \E ops \in FinishPatches :
                 /\ ~Rejected(requests[r], ops)
                 /\ requests' = [requests EXCEPT ![r] = PatchedDoc(@, ops)]
    /\ ProcessRestarts(requests')

-----------------------------------------------------------------------------

RequestListNext(r) ==
    \/ \E c \in Calls, j \in JobIds \union {NoJob} :
           Post(r, c, j) \/ PostUnreachable(r, c, j)
    \/ Dispatched(r)
    \/ DispatchRefused(r)
    \/ DispatchLost(r)
    \/ Wake(r)
    \/ Expire(r)

BackendNext(r) ==
    BackendAccepts(r) \/ BackendRefuses(r) \/ MessageCleared(r)

PluginNext(r) ==
    PluginStarts(r) \/ PluginFinishes(r) \/ PluginRetries(r) \/ Redelivered(r)

Next ==
    \/ \E r \in RequestIds :
           \/ RequestListNext(r)
           \/ BackendNext(r)
           \/ PluginNext(r)
           \/ StrayPatch(r)
           \/ CrashInPatch(r)
    \/ \E j \in JobIds : RemoveJob(j)
    \/ Restart

Spec == Init /\ [][Next]_vars

\* The IOLoop runs every callback that is ready and fires every timeout that
\* is due; socket_timeout bounds the Thrift call.
HandlerFairness ==
    \A r \in RequestIds :
        /\ WF_vars(Dispatched(r))
        /\ WF_vars(DispatchRefused(r))
        /\ WF_vars(DispatchLost(r))
        /\ WF_vars(Wake(r))
        /\ WF_vars(Expire(r))

\* Bartender answers and a plugin works off its queue: asked for only where a
\* property says so.
SurroundingFairness ==
    \A r \in RequestIds :
        /\ WF_vars(BackendAccepts(r))
        /\ WF_vars(PluginStarts(r))
        /\ WF_vars(PluginFinishes(r))

\* Nothing is asked of Bartender and the plugins.
ServerFairSpec == Spec /\ HandlerFairness
-----------------------------------------------------------------------------
(***************************************************************************)
(* Correctness.                                                            *)
(***************************************************************************)

\* Types; the gauges are integers that nothing in the code keeps from
\* falling below zero.
TypeOK ==
    /\ requests \in [RequestIds -> Docs \union {Missing}]
    /\ request_map \in [RequestIds -> {"none", "clear", "set"}]
    /\ handler \in [RequestIds -> {"idle", "dispatching", "waiting", "done"}]
    /\ call \in [RequestIds -> Calls]
    /\ reply \in [RequestIds -> Replies]
    /\ rpc \in [RequestIds ->
           {"none", "sent", "accepted", "invalid", "unpublished"}]
    /\ plugin \in [RequestIds -> {"none", "queued", "running", "finished"}]
    /\ gauges \in Gauges
    /\ jobs \in [JobIds -> JobRecords]
    /\ announced \in [RequestIds -> SUBSET Events]
    /\ mishaps \in 0 .. MaxMishaps

\* While the handler of a blocking call lives, its Event is in request_map:
\* a PATCH in the gap between save() and wait() finds it, and event.wait()
\* is never called on None.
WaiterInMap ==
    \A r \in RequestIds :
        Live(r) /\ Blocking(r) => request_map[r] # "none"

\* No lost wake-up: if a PATCH completed the request while its blocking POST
\* was dispatching or waiting, the Event is set, whatever the interleaving.
\* (CANCELED is left out: Bartender cancels past RequestAPI.patch.)
NoLostWakeup ==
    \A r \in RequestIds :
        Live(r) /\ Blocking(r) /\ requests[r].status \in {"SUCCESS", "ERROR"}
            => request_map[r] = "set"

\* What a blocking caller is told is final and stays true: a 201 carries a
\* completed status, and the document keeps it.
BlockingAnswerHolds ==
    \A r \in RequestIds :
        reply[r].code = "201" /\ Blocking(r) =>
            /\ reply[r].body \in COMPLETED_STATUSES
            /\ requests[r].status = reply[r].body

\* A request whose POST Bartender refused has left nothing behind: no
\* document and no message on the queue, and all that was ever announced is
\* that its creation failed, whatever updates and restarts there were.
RefusedLeavesNothing ==
    \A r \in RequestIds :
        reply[r].code \in {"400", "502"} =>
            /\ requests[r] = Missing
            /\ plugin[r] = "none"
            /\ announced[r] = {[name |-> "REQUEST_CREATED", error |-> TRUE]}

\* A document in status CREATED whose POST was answered is on the queue: it
\* will be worked off, as the UI tells whoever looks at it.  (A restart answers
\* nobody, and a POST that could not connect is kept out of the run.)
CreatedIsQueued ==
    \A r \in RequestIds :
        /\ requests[r].status = "CREATED"
        /\ handler[r] # "dispatching" /\ reply[r].code # "dropped"
        => plugin[r] = "queued"

\* The gauges measure what they are named for.  A request is counted as queued
\* when its POST resumes, so a POST still dispatching is owed one; the plugin
\* may have taken the request from the gauge before it was ever added.
GaugesExact ==
    /\ gauges.queued = Cardinality(InStatus(requests, "CREATED"))
           - Cardinality({r \in RequestIds : handler[r] = "dispatching"})
    /\ gauges.in_progress = Cardinality(InStatus(requests, "IN_PROGRESS"))

\* No completion is counted twice, however often it is reported.  (A restart
\* starts the counter afresh, so it may fall behind.)
NoCompletionCountedTwice ==
    gauges.completed <= Cardinality({r \in RequestIds : Completed(r)})

\* The run counts of a job are those of its requests that ended so.
JobTally ==
    \A j \in JobIds : jobs[j].exists =>
        LET ended(status) == {r \in InStatus(requests, status) :
                                 requests[r].job = j}
        IN  /\ jobs[j].success_count = Cardinality(ended("SUCCESS"))
            /\ jobs[j].error_count = Cardinality(ended("ERROR"))

\* The completion events of a request, by their error flag.  RequestPublisher
\* sends FALSE to the REQUEST_SUCCESS webhooks, TRUE to REQUEST_FAILURE.
ToldOutcomes(r) ==
    {e.error : e \in {a \in announced[r] : a.name = "REQUEST_COMPLETED"}}

\* The webhooks hear of every completion.  A success is told as a success
\* only; a failure is told as a failure at least once, and when it is repeated
\* perhaps as a success too, see below; nothing is told of a request that has
\* not completed by a PATCH.
OutcomeAnnounced ==
    \A r \in RequestIds : Exists(r) =>
        CASE requests[r].status = "SUCCESS" -> ToldOutcomes(r) = {FALSE}
          [] requests[r].status = "ERROR" -> TRUE \in ToldOutcomes(r)
          [] OTHER -> ToldOutcomes(r) = {}

\* A failed request is never reported to the REQUEST_SUCCESS webhooks.
FailureNotCalledSuccess ==
    \A r \in RequestIds :
        requests[r].status = "ERROR" => FALSE \notin ToldOutcomes(r)

\* A completed document changes in one way only: it is deleted, together with
\* the answer that says so, because Bartender's answer was lost.
CompletedIsFinal ==
    [][\A r \in RequestIds :
           Completed(r) /\ requests'[r] # requests[r] =>
               /\ requests'[r] = Missing
               /\ reply'[r].code \in {"503", "504"}]_vars

\* If plugins work off their queues, every POST is answered, a blocking one
\* without a timeout too, unless the message it waits for was cleared from the
\* queue: RequestAPI.patch, which alone wakes it, never hears of that.
EveryPostAnswered ==
    SurroundingFairness =>
        \A r \in RequestIds :
            Live(r) ~> \/ reply[r] # Unanswered
                       \/ handler[r] = "waiting" /\ plugin[r] = "none"

\* A POST that does not block for ever is answered even if Bartender and the
\* plugin never do anything again.
BoundedPostAnswered ==
    \A r \in RequestIds :
        Live(r) /\ call[r] # "forever" ~> reply[r] # Unanswered
-----------------------------------------------------------------------------
(***************************************************************************)
(* The promise of RequestContract, read off the documents and the answers. *)
(***************************************************************************)

LifeOf(r) ==
    IF Completed(r) THEN "completed"
    ELSE IF Exists(r) THEN "live"
    ELSE IF handler[r] = "idle" THEN "unborn"
    ELSE "gone"

AnswerTo(r) ==
    IF handler[r] = "idle" THEN "none"
    ELSE CASE reply[r].code = "none" -> "pending"
           [] reply[r].code = "201" ->
                  (IF Blocking(r) THEN "result" ELSE "accepted")
           [] reply[r].code = "408" -> "late"
           [] reply[r].code = "500" -> "error"
           [] reply[r].code = "dropped" -> "dropped"
           [] OTHER -> "refused"

Promise == INSTANCE RequestContract WITH
    life <- [r \in RequestIds |-> LifeOf(r)],
    waits <- [r \in RequestIds |-> Blocking(r)],
    answer <- [r \in RequestIds |-> AnswerTo(r)]

\* Every behaviour of the handlers is one of RequestContract: a request
\* completes once, a blocking caller gets a final result, and a refusal takes
\* the request away with it.
Contract == Promise!Spec

=============================================================================
