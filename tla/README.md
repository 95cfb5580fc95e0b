# TLA+ models of brew-view

brew-view is the REST and websocket front end of Beer-garden. It stores requests,
systems, jobs, users and events in MongoDB, hands requests to the Bartender
backend over Thrift, and receives their results from plugins by HTTP `PATCH`.
This directory holds TLA+ models of its stateful parts, TLC configurations that
check them on small instances, and TLAPS proofs of the properties that matter
most. File references below are relative to `src/brew_view`.

Contents: [1 Inventory](#1-inventory) · [2 Modules](#2-modules) ·
[3 Runs](#3-runs) · [4 Fairness](#4-fairness) · [5 Proofs](#5-proofs) ·
[6 What the models found](#6-what-the-models-found) ·
[7 Not modelled](#7-not-modelled) · [8 Plan](#8-plan)

## 1 Inventory

One process, one Tornado IOLoop. Handlers are coroutines: between two `yield`s a
handler has the process to itself, and at a `yield` any other handler may run.
Two thread pools run besides it: the Thrift pool (`__init__.py:388`, only remote
calls) and APScheduler's pool (`__init__.py:241`, where `run_job` runs).

| Component | State | Operations | Meets | Hard | Correct when |
|---|---|---|---|---|---|
| Request creation, `RequestListAPI.post` (`controllers/request_list_api.py:265-379`) | Mongo `Request`, `brew_view.request_map` (id → Event), gauges | save, dispatch by Thrift, answer; a blocking call waits on its Event | Bartender (Thrift), `RequestAPI.patch` (document, Event), metrics, publishers | completion before the wait; timeout against completion; refusals and lost answers; restarts | a blocking caller gets a final result and is never left asleep; a refusal leaves neither document nor message; a CREATED request will be worked off |
| Request update, `RequestAPI.patch` (`controllers/request_api.py:90-182`) | the same document, job counts | apply the operations, save, metrics, job counts, wake the waiter, publish | plugins, POST, metrics, jobs, publishers | repeated and out-of-order updates; order of operations in one body; crash after the save | all or nothing; a result is not rewritten; a run is counted once |
| Metrics (`metrics.py`) | two gauges, a counter | `initialize_counts`, `request_created`, `request_updated` | both handlers | lost updates, restarts | gauges equal what they count |
| Events and webhooks (`base_handler.py:145`, `publishers.py:87-120`) | none | publish when a handler finishes | every handler | error flag of a repeated update | the webhooks hear what happened |
| Backend connection (`__init__.py:384-412`) | none | one Thrift call per client | Bartender | cannot connect, timeout, error | each outcome leads to the matching answer |
| Scheduled jobs (`controllers/job_list_api.py`, `controllers/job_api.py`, `scheduler.py`) | Mongo `Job` (status, `next_run_time`), the executor's instances | POST, PATCH (pause, resume), DELETE, due jobs, `run_job` | APScheduler, request creation | a run on the pool against the API; partial PATCH; misfires; restarts | a RUNNING job is scheduled; a pause holds; deleted jobs stay deleted; RUNNING jobs run |
| Systems and instances (`controllers/system_list_api.py`, `system_api.py`, `instance_api.py`) | Mongo `System`, `Instance`, `Command`; `system_lock` | POST (create or update), PATCH operation by operation, DELETE, instance start/stop/heartbeat | Bartender, plugins | stale documents across `yield`; only POST takes the lock, and Bartender does not; saves of removed documents; partial application | what is removed is listed no more; limits, identities and released commands kept; a status settles on what the plugin is |
| Queues (`controllers/queue_api.py`, `queue_list_api.py`) | none | list, clear | Bartender | clearing cancels past `RequestAPI` | each instance is listed |
| Roles, users, permissions (`controllers/roles_api.py`, `users_api.py`, `authorization.py`) | Mongo `Role`, `Principal`; cached anonymous principal | create, PATCH, delete; coalesce nested roles | every handler (`check_permission`) | cycles; stale cache; partial bodies | nesting is acyclic; the cache agrees with Mongo |
| Tokens (`controllers/token_api.py`, `base_handler.py:63-94`) | Mongo `RefreshToken` | login, refresh, logout, cookie refresh | users | the wait for the password's verification; a sliding expiry | an expired or deleted token yields nothing |
| Event delivery (`publishers.py`, `controllers/event_api.py`) | work queue, connection, channel; `EventSocket.listeners`, `closing` | publish, `_process`, open, close, shutdown | RabbitMQ, browsers | connection failure inside `_process`; sockets that open and close during shutdown | events are delivered in order; nobody joins a closing server |
| Start and stop (`__init__.py:95-182`, `__main__.py`) | the singletons | `startup`, `shutdown`, `_progressive_backoff`, signal | everything | a signal before startup ends; several signals; publishers that do not drain | the process stops, with its queue drained |
| Admin, commands, logging, misc, specification | none or configuration | read; rescan; reload logging | | | |
| Browser UI (`static/src/js`) | views of the REST API | | | | |

## 2 Modules

| Module | Models |
|---|---|
| `RequestPatch` | one PATCH body as a function: what it refuses, the document after it, which events it names and their error flag |
| `RequestPatchLoop` | the loop of `RequestAPI.patch`, one operation per step, compared with `RequestPatch` |
| `RequestLifecycle` | a request from POST to its last PATCH, with Bartender, plugins, restarts; EXTENDS `RequestPatch` |
| `RequestContract` | the abstract promise to whoever POSTs: `RequestLifecycle` implements it |
| `RequestLifecycleProofs` | theorems about `RequestLifecycle`: types, waiters |
| `RequestContractProofs` | what callers are told, what stays final, the refinement of `RequestContract`; EXTENDS `RequestLifecycleProofs` |
| `RequestCountsProofs` | gauges, counters, job counts and announcements; EXTENDS `RequestContractProofs` |
| `RequestPatchLoopProofs` | the loop agrees with `RequestPatch` for bodies of any length |
| `JobScheduler` | the Job APIs, `BGJobStore`, `run_job`, APScheduler's loop and pool |
| `JobSchedulerProofs` | theorems about `JobScheduler` |
| `SystemCatalog` | systems and instances, with Bartender and plugins around the handlers that wait for it |
| `SystemCatalogProofs` | theorems about `SystemCatalog` |
| `AccessControl` | roles, users, the anonymous principal, logins and tokens |
| `AccessControlProofs` | theorems about `AccessControl` |
| `ServerLifecycle` | startup, signals and shutdowns, websockets, the queue and worker of the RabbitMQ publisher |
| `ServerLifecycleProofs` | theorems about `ServerLifecycle` |
| `MC*` | the values TLC uses for body sets, and the symmetry |

Every definition that models code is listed with its source lines in
`PROJECT.json`. Operators commented "Mutant of X" are X with a plausible bug;
nothing uses them but the mutation runs that show each property can fail.

### RequestPatch and RequestPatchLoop

`RequestAPI.patch` walks over its operations, changes an in-memory document and
saves it once at the end; any refused operation raises before the save. So a PATCH
is all or nothing, and it never yields: `RequestLifecycle` may treat it as one
step. `RequestPatch` gives that step as operators (`Rejected`, `PatchedDoc`,
`Completes`, `EventNames`, `EventError`). `RequestPatchLoop` is the loop itself,
and its run checks that loop and operators agree. Two details carry weight:
`status_before` is the *stored* status, so the guards on `output` and
`error_class` (`request_api.py:121-141`) look at it and not at a status set earlier
in the body; and `event.error` is raised only when `error_class` *changes*.

### RequestLifecycle

| Variable | Code |
|---|---|
| `requests`, `jobs` | the Mongo documents; `Missing` is no document |
| `request_map` | `brew_view.request_map`: no entry, an Event that is clear, or one that is set |
| `handler`, `call`, `reply`, `rpc` | where the POST's coroutine stands, how it was called (not blocking, for ever, with a timeout, with a timeout that is no number), what it answered, its Thrift call |
| `plugin` | the message: queued, running, finished |
| `gauges` | the gauges and the counter, for one set of labels |
| `announced` | the events published about each request |
| `mishaps` | how many of the *bounded* mishaps have happened |

An action is what a handler does between two `yield`s. `Post` runs up to the yield
of `processRequest` (line 306); `Dispatched`, `DispatchRefused` and `DispatchLost`
are the ways it resumes; `Wake` and `Expire` end the wait; the PATCH is `ServePatch`,
sent by the plugin (`PluginStarts`, `PluginFinishes`, `PluginRetries`) or by
another client (`StrayPatch`). `Surroundings` names the misdeeds an instance
allows. Those that could repeat for ever (redelivery, stray PATCHes, restarts,
crashes) are bounded by `MaxMishaps`. `CrashInPatch` is the process dying between
`req.save()` and the rest of the handler.

A scheduled job posts blocking and without a timeout (`scheduler.py:80`); this is
the guard of `AcceptPost`. External, modelled from how the code uses them:
Bartender's `processRequest` and `clearQueue`, the broker's redelivery, the
plugin.

### RequestContract

What is left when documents, waiters, Thrift and plugins are taken away: a request
is asked, completes at most once, and its caller is told exactly one thing: accepted,
a result (only when it has completed), a refusal (which removes the
request in the same step), late, error, or nothing because the server went down.
`RequestLifecycle` maps to it with `LifeOf` and `AnswerTo`; the property is
`Contract`. It holds without unreachable backends, redelivered messages and
stray PATCHes, because each of these breaks it in the code (section 6).

### JobScheduler

| Variable | Code |
|---|---|
| `docs` | the Job documents: whole, a stub (see `SavePatch`), gone; status and `next_run_time` as none, later or due |
| `passed` | the date of a date job, or the end date of an ending one, is over |
| `runs` | the instances of `run_job` the executor holds: queued, creating (in `create_request`), checked (between `get_job` and `reschedule_job`) |
| `patch` | the PATCH the IOLoop is in the middle of |

Job PATCHes do not yield, but each scheduler call inside takes APScheduler's lock
and lets go of it, and the pool runs on other threads. So a PATCH is cut at each
scheduler call, the pool's actions interleave with it, and the IOLoop's own
actions (`PostJob`, `DeleteJob`, `ProcessJobs`) wait until it is over (`IOLoopFree`).
A mongoengine `save()` writes only the fields that changed: `SavePatch` writes the
status, never `next_run_time`, and writes a stub if the document is gone.
`NextFires` says what a trigger may answer: a date trigger its date and after a run
nothing; an interval or cron trigger later, or nothing once an end date is set and
near. `PostJob` saves the status that the body carries (`PostedStatuses`) and stores a next
run that is due now, because `add_job` is given no trigger and does not look at the
status: a job POSTed as PAUSED runs. `Held` is the status a job is about to have, while a
PATCH is at work on it; `InStep` says that a job which holds PAUSED has no next run.

`RequestLifecycle` and `JobScheduler` meet in `create_request`: the former has the
jobs' posts and counts, the latter sees a creation as something that takes time and
may fail. They are not composed.

### SystemCatalog

| Variable | Code |
|---|---|
| `systems`, `instances` | the Mongo documents: commands, limit and list of a system; status of an instance |
| `stubs` | what a save has put back of a system that was removed, without a name |
| `created` | how many systems there have been, which gives each its id |
| `post` | the POST that holds `system_lock`: the body, what `find_unique` returned, whether the list has been read |
| `calls` | handlers that may wait: the document they loaded (`copy`), whether its list has been read (`read`), the operations left |
| `rpc` | their call to Bartender, which goes on when the handler gives up |
| `ioloop` | the handler that runs; one that waits has let go of it |
| `plugin` | what the plugin behind each instance was told, owes a report of, and is |

`SystemListAPI.post` has no yield while it holds `system_lock`, so it keeps the IOLoop
(`Free`); but Bartender is another process and may remove the system in the middle, so that the
POST is cut where it meets Mongo: `PostFinds` (`find_unique`), `PostReads` (the list is
read for `has_instance`), and `PostNew`, `PostAgain` or `PostRefused`.
`SystemAPI.patch` and `InstanceAPI.patch` are taken one
operation at a time, because `reload` and the status operations yield in the middle
and each operation is saved by itself: what comes after works on `copy`, as it was
loaded before the loop. `ReplaceCommands` judges the copy's commands and `AddInstance` writes
the copy's list whole.

Three habits of mongoengine (0.15.3, `requirements.txt`) matter and are modelled by what they do:

* A list of references is read from Mongo when it is first looked at, and what was read is
  kept. `ReadsList` is that read: if an instance of the list is gone, its name is asked
  of a reference that has none, and the handler ends with an error. A copy that was read
  before a wait (`read = "stale"`) is not read again afterwards; it still has the names of
  instances that are gone, and writes them back.
* `save()` writes the fields that changed. `SavesStatus` leaves the status alone at a
  heartbeat, and a status that the handler has read already is no change.
* `save()` of a document that was removed puts back a stub with these fields alone:
  `PutBack` for a system, which no `find_unique` finds and whose list remains, and
  `SavedAs` for an instance, whose status is then "stub" and is not followed further.

Mongo takes a deleted `Instance` out of
the lists that name it (`Unlisted`). Bartender is external: it writes
the status, tells the plugin, answers, and for `removeSystem` deletes what the system
lists then. A plugin reports each thing it was told before it obeys the next.

### AccessControl

| Variable | Code |
|---|---|
| `roles`, `users` | the Mongo documents; lists are bags, because `add` does not ask whether the value is there and `remove` takes one copy |
| `tokens` | a login: waiting for the verification, then its refresh token (age, the permissions frozen in it, the cookie) and whether an access token of it is in force |
| `anonymous` | the permissions of `brew_view.anonymous_principal` |

`Reach` is what a walk through nested roles meets, defined as a least set and not by
recursion, so that it can be proved about; `Endless` says that the walk never
returns. `CopiesBefore` gives the list as the loop of a PATCH has it at an operation; `RoleOpRaises`
says which operation raises. A call is made by anyone `Callers` admits: the anonymous
principal, a valid access token, a cookie; so the permissions that a change gives or
takes decide which changes come next.

### ServerLifecycle

| Variable | Code |
|---|---|
| `loop`, `startup`, `wait_time`, `scheduler`, `listening`, `calls` | the IOLoop, the coroutine `startup` and its backoff, APScheduler, the HTTP server |
| `shutdown` | where the shutdown that each signal started stands |
| `sockets`, `closing` | `EventSocket` handlers and the class's flag |
| `queue`, `worker`, `amqp` | `_work_queue`, the coroutine `_process`, its connection |
| `published`, `delivered` | history: what was queued, what RabbitMQ was given |

A shutdown is cut at its yields: the scheduler's pause, the publishers' join, the
closing of connections. Startup has one yield, the backoff; after it everything is
one step (`StartupFinishes`), whatever a shutdown has stopped meanwhile. Tornado's `stop()` does what it
does once only, so that a server stopped before it listens goes on listening afterwards (`Listening`). `GivesUp` is
what a failed connection does: `_process` has no `except`, so the coroutine ends, or
hangs when pika reports the failure to a callback nobody has registered.

## 3 Runs

Passing runs. Deadlock is not checked (`CHECK_DEADLOCK FALSE`) because every
instance can legitimately come to rest: all requests answered and worked off, all
jobs deleted.

| Run | Instance | Shows |
|---|---|---|
| `patch_loop` | all documents over two values, all bodies of ≤ 3 operations | the loop does what `RequestPatch` says (`SavedAsDefined`, `RejectedAsDefined`, `EventAsDefined`); the output and error class of a completed document survive any order of operations (`CompletedFieldsKept`) |
| `lifecycle_final` | 2 requests; refusals, lost answers, retries, cleared queues, 2 restarts or crashes | `BlockingAnswerHolds`; `RefusedLeavesNothing`: a refused POST leaves no document and no message, and nothing is announced but REQUEST_CREATED with the error flag; `CompletedIsFinal`, `CreatedIsQueued`, and the refinement `Contract` |
| `lifecycle_counts` | 2 requests of 1 job; refusals, retries, job removals, 2 restarts | `GaugesExact`, `NoCompletionCountedTwice`, `JobTally`; `OutcomeAnnounced`: a success is told as a success only, a failure as a failure at least once (a repetition of it may be told as a success, see `retry_misreports`), and nothing before the completion |
| `lifecycle_live` | 2 requests, every mishap, 1 bounded; the fairness of section 4 | `WaiterInMap`, `NoLostWakeup`: a blocking handler never waits on a missing Event nor on a request that a PATCH has completed; `BoundedPostAnswered`: a POST that does not wait for ever is answered whatever plugins do; `EveryPostAnswered`: with fair plugins so is one without a timeout, unless its message is cleared |
| `jobs` | a date job, a resetting interval, an ending job, POSTed as RUNNING or PAUSED; 2 workers; misfires, failing creations, restarts; bodies pause, resume, pause-resume, invalid | `RunningJobIsScheduled`; `PauseHolds`: once a job is in step with its status no run brings a paused one back; `GoneStaysGone`, `RunningJobRuns` |
| `catalog` | a released system, registered by 3 different bodies, 3 instance documents, 2 handlers and a POST at a time, 2 client calls; unreachable Bartender and lost answers | `RemovedStayUnlisted`: an instance that is removed is not listed again; `StatusSettles`, `LimitKeptByPatch`, `ReleasedCommandsFixed`, `IdentityKept` |
| `access` | the 2 roles and 2 users of a fresh database and 1 role more, bodies of 1 to 3 operations, 1 token | `NestingAcyclic`, `NoDanglingRoles`, `GuestGoesStaleUntold`, `DeadTokensStayDead` |
| `server` | 2 signals, 2 websockets, 2 calls at a time, 4 events; Mongo late, connections that drop or fail, slow events | `DeliveredInOrder`, `NoListenerOutlives`, `StopsDrained`, `SignalStops` |

Runs that must find a violation: `retry_misreports`, `pause_undone`, `self_nesting`,
`delete_leaves`; see section 6.

**Bounds.** Two requests are enough for the properties of one request, which the
second can disturb only through the shared gauges, job counts and the restart; one
value is enough where outputs are only overwritten, two where a change must be seen.
Three operations in a body reach every pair of an earlier and a later
operation around a status. `MaxMishaps` 1 or 2 allows a second restart after the
first. Three instance documents are enough for a registration, an addition
and a re-registration to compete for a name; two handlers for one to overtake the
other; two client calls for a PATCH against a DELETE or another PATCH. The bodies of the
`catalog` run read the list before their wait (text, reload, add) and after it (reload, add). Four events let the stopped
event queue behind two others while the connection drops. Two workers for three jobs, each with one instance
at a time, let two runs overlap and still make the pool run out. Symmetry over the requests is used
in safety runs only.

**What a run leaves out is stated here**, because a property would fail with it:
`GaugesExact` without lost answers and cleared queues (the gauges drift until the next
restart), `OutcomeAnnounced` without crashes (the event is lost), and `JobTally` without
lost answers (a finished request may be deleted), crashes (the count of the run is lost)
and redelivery (a reopened request is counted twice); `CreatedIsQueued` without restarts (a POST
that dies before its dispatch leaves its document) and unreachable backends (section
6); `EveryPostAnswered` without cleared queues (nobody wakes a POST that waits for
ever on a canceled request); `RunningJobIsScheduled` without
bodies such as [PAUSED, invalid] and without crashes inside a PATCH (the scheduler is
paused, the status is not saved); ending jobs are left out of the job properties
that a vanishing trigger breaks. `PauseHolds` says nothing of a job that was POSTed as PAUSED
until a PATCH has put it in step, and nothing of resetting jobs (`pause_undone`).
`RemovedStayUnlisted` exempts a PATCH that had read the list before its wait, and `StatusSettles`
speaks of no stub. `ReleasedCommandsFixed` and `IdentityKept` exempt a
PATCH that works on an outdated copy, and `LimitKeptByPatch` a POST, by name: the
properties say that there is no other way. `StopsDrained` exempts a shutdown that
began before startup was done, `SignalStops` one whose join timed out. The `access`
run has no body that nests a role in itself (section 6).

## 4 Fairness

`ServerFairSpec` is the fair specification of `RequestLifecycle`. `HandlerFairness`: weak fairness of each handler step; the IOLoop runs every
callback that is ready, fires timeouts that are due, and `socket_timeout`
(`__init__.py:407`) ends a Thrift call without an answer. `SurroundingFairness`,
is a hypothesis of `EveryPostAnswered` only: Bartender answers, and a plugin takes its message and
finishes. `ServerLifecycle`: the worker goes on when it can and each shutdown takes its
next step; nothing is asked of Mongo, of RabbitMQ beyond an open or a refusal, or of
whoever sends signals. `SystemCatalog` and `AccessControl` have safety properties only. `JobScheduler`'s `Fairness`: a PATCH goes on, time passes, the pool's
runs go on (`create_request` returns) - weak; due jobs are processed and queued
runs get a thread - strong, because PATCHes keep taking the IOLoop and other jobs
keep taking the thread, both queues being first come first served; and restarts
cease at some point, without which no run need ever finish. Nothing is assumed of
clients, refusals, mishaps or misfires.

## 5 Proofs

All theorems hold for every value of the constants under the assumptions
`NoValueAssumption`, `LifecycleAssumption`, `SchedulerAssumption`, `CatalogAssumption`,
`AccessAssumption` and `ServerAssumption`; TLC evaluates each in the runs of its module.
Every invariant and every action property of the passing runs is stated by a theorem.
Where one needs more than the assumptions, it says so as a named hypothesis; each
names something the *code* does not guard against, so that the property would fail
without it (next table), and the run that checks the property satisfies it.

| Hypothesis | Says | Without it |
|---|---|---|
| `DeliveredOnce` | the broker delivers each message once | `status` has no guard (`request_api.py:107`): the second start reopens a completed request |
| `OnlyPluginsPatch` | no other client PATCHes requests | the same, by hand |
| `Reachable` | opening the Thrift connection succeeds | the POST answers 503 and its document stays CREATED, with no message in a queue |
| `AnswersArrive` | no answer of Bartender is lost | the POST deletes a document that is counted already or will be |
| `QueuesKept` | queues are not cleared | Bartender cancels the request without the gauges' knowing |
| `PatchesEnd` | the process does not die within a PATCH | the save is there, its count and its event are not |
| `SoundPatches` | a refused job body is refused at its first operation, no crash within a PATCH | the scheduler is paused, the status not saved |
| `OnlyPluginsReport` | no client PATCHes an instance to running or stopped | the status is what the client said |
| `NoSelfNesting` | no body nests a role in itself | the finding `self_nesting` |

* `RequestLifecycleProofs!TypeCorrect`: `Spec => []TypeOK`, for all surroundings.
  The lemmas before it give the types of the operators (`PatchedDocType`,
  `UpdatedJobsType`, `ServePatchType`, `ProcessRestartsType`, ...).
* `RequestLifecycleProofs!NoWakeupIsLost` (and `WaitersAreKnown`, one half of it): `Spec => [](WaiterInMap /\ NoLostWakeup)`.
  The inductive invariant is `WaiterInv == TypeOK /\ WaiterInMap /\ NoLostWakeup`:
  a PATCH that completes sets the Event *if there is one*, so the Event's being
  there (`WaiterInMap`) is what makes the wake-up inductive. `CompletedBy` is
  the heart: a document is SUCCESS or ERROR after a PATCH only if it was before or the body
  `Completes`. `ServePatchWakes` carries it to the handler, `HandlerEnds` covers
  the steps that take the waiter out.
* `RequestContractProofs`: the invariant is `StoryInv`, the story of one request told
  across its document, its POST, the Thrift call, the message and the answer; no property
  below is inductive without it, as each speaks of two of these and a step changes
  a third. From it follow `BlockingAnswersHold`, `RefusalsLeaveNothing` and
  `CreatedStaysQueued`; `CompletedStaysFinal` is its action property.
* `RequestContractProofs!ContractKept`: `Spec => Contract`, the refinement. One
  lemma for each action says which step of the contract it is on its own
  request (`Asked`, `HasCompleted`, `Answered`, `RefusedAndGone`), and that all others keep their
  place (`Same`); a restart, which answers several callers at once, is a case of its
  own.
* `RequestCountsProofs`: a step moves one request from one status to another, and one
  lemma says what this does to the number of requests in a status. Each
  gauge then moves with its set: `GaugesAreExact`, `CompletionsCountOnce`,
  `JobTallyExact`, `OutcomesAnnounced`. `StoryInv` excludes that a document is
  completed twice.
* `RequestPatchLoopProofs`: `LoopSavesAsDefined`, `LoopRejectsAsDefined`,
  `LoopNamesEventAsDefined`, `LoopKeepsCompletedFields`, for bodies of any length, where the
  run has three operations. `LoopInv` says what the loop has built after the
  operations before the current one: each field holds the value of the last of
  them that set it.
* `JobSchedulerProofs!TypeCorrect`: `Spec => []TypeOK`.
* `JobSchedulerProofs!GoneForGood`: `Spec => GoneStaysGone`. The invariant needed is
  `PatchHolds`: while a PATCH holds the IOLoop its document exists, since only
  IOLoop actions delete and a trigger without an end always has a next run
  (`FiresAgain`); hence `SavePatch` never brings a document back. The rest is that
  `Rescheduled` and `Stored` keep a gone document gone (`StateStep`).
* `JobSchedulerProofs!RunningJobsAreScheduled`: under `SoundPatches` (a body that is refused
  is refused at its first operation, and no crash cuts a PATCH short; the `jobs` run
  satisfies both, and without either the property fails),
  `Spec => []RunningJobIsScheduled`. The property speaks of
  jobs no PATCH is busy with and is not inductive. `StatusInv` speaks of the status a
  job is *about* to have (`Held`): `AgreeInv` says that one about to be RUNNING has a next
  run after each single operation; `LoadedInv`, that nobody else writes the status meanwhile,
  which makes the save safe when nothing has changed; `OpsInv`, that a refusal comes
  before anything was done; `CheckedInv`, that only resetting jobs are rescheduled by
  the pool. Lemmas `OperationStep` (one operation of a PATCH) and `NextRunStep` (one
  step of APScheduler or its pool) do the work.
* `JobSchedulerProofs!PausesHold`: under `SoundPatches`, `Spec => PauseHolds`, from the same
  invariant, with one case for each action.
* `AccessControlProofs!TypeCorrect`: `Spec => []TypeOK`, for all bodies.
* `AccessControlProofs!NestingStaysSound`: `NoSelfNesting => (Spec =>
  [](NestingAcyclic /\ NoDanglingRoles))`. Acyclicity is stated as: among any set of roles one nests
  none of the set. `ReachLeast` and `ReachClosed` say what `Reach` is;
  `NestingMore` is the heart: adding new roles below one that none of them
  reaches keeps nesting acyclic, because a set in which everyone nests someone would
  lead from a new role back to the old one; `NestingLess`, that taking away does. A
  PATCH may add several at once: `PatchedFrom` says that what its list holds
  afterwards was there before or named by an operation that did not raise.
  `NoSelfNesting` is what the code fails to check.
  `NoReferenceDangles` states its second half by itself.
* `AccessControlProofs!DeadTokensNeverUsed`: `Spec => DeadTokensStayDead`. Needs
  `YoungLogins`: a login under way has no age, so that the step that issues its
  token makes no old one young. `TokenMoves` lists what any step may do to a token.
* `AccessControlProofs!GuestStaysCurrent`: under `NoSelfNesting`, `Spec =>
  GuestGoesStaleUntold`. A role that is created while the principal is kept as it is
  has no part in what a guest may do: `CoalescedSame` says that the walk depends on
  nothing outside a set closed under nesting, and sound nesting that the existing
  roles are one.
* `SystemCatalogProofs!TypeCorrect`: `Spec => []TypeOK`, by `Shapes`, which adds the
  form of what waiting handlers carry.
* `SystemCatalogProofs!PatchKeepsLimit`: `Spec => LimitKeptByPatch`. A PATCH judges the
  limit of its copy; `IdsIssued` (an id is given once) shows that the copy of a document
  still there has that document's limit.
* `SystemCatalogProofs!ReleasedCommandsStay` and `IdentitiesStay`: a case for every step
  that writes a system. `PostCopy` says that the copy a POST holds still has the commands and the
  list of the document, as far as that has not been removed: nobody but Bartender and Mongo writes
  meanwhile.
* `SystemCatalogProofs!RemovedInstancesStayUnlisted`: `Spec => RemovedStayUnlisted`, the hardest.
  Who names an instance is its home: a system, a stub, the copy of a PATCH or of a POST (`Held`).
  No instance has homes in two systems or under two names (`OneHome`), and one with a home has or had
  a document (`HeldBorn`), so that a new one has none yet. `ReadInv` says that what a PATCH has read
  since it last waited is there while its system is: only Bartender could have taken it away,
  and Bartender takes what one system lists, which no other does (`RemovedAlone`).
* `SystemCatalogProofs!StatusesSettle`: under `OnlyPluginsReport`, `Spec =>
  []StatusSettles`. `SettledInv` says that the status is what the plugin is
  unless something is on its way to it or from it; `ReportInv`, that a report under way is
  of what the plugin is, and knows the status saved unless more is on its way;
  `UnbornInv`, that nothing is on its way to an instance not yet created. All three speak of
  whole documents: what a save has put back of a removed one is not followed.

* `ServerLifecycleProofs!TypeCorrect`: `Spec => []TypeOK`, for any number of signals,
  websockets, calls and events.
* `ServerLifecycleProofs!EventsStayInOrder`: `Spec => []DeliveredInOrder`. The inductive
  invariant is `InOrder`: what was published is what was delivered, then the event in the
  worker's hands, then the queue. After the worker died over an event only the first
  part of that is left, and since nothing is delivered any more it is enough.
* `ServerLifecycleProofs!ClosedToListeners`: `Spec => []NoListenerOutlives`, inductive as
  it stands.
* `ServerLifecycleProofs!LoopStopsDrained`: `Spec => []StopsDrained`. `DrainInv` says what a
  shutdown knows where it stands (`JoinKnows`): one that waits for the queue has put the stopped
  event there; one that has waited finds, by `InOrder`, everything delivered unless the
  worker died. It also needs that no shutdown gets past the join before startup is
  done without saying so, or the worker could still appear behind it, and that the
  loop is stopped only by a shutdown that got to its end.

Only model-checked: the liveness properties `BoundedPostAnswered`, `EveryPostAnswered`,
`RunningJobRuns` and `SignalStops` (fairness and ENABLED are beyond the prover), and the four
violations of section 6, which are about one behaviour each.

The proofs corrected a property once: `ReleasedCommandsFixed` used to exempt only a PATCH
whose copy had no commands. That is not all. A first PATCH, read before there were
commands, replaces those that a registration has saved meanwhile; a second PATCH, read
in between, repeats the commands of its own copy, which is allowed, and so puts the
former ones back. The property now exempts an outdated PATCH whose copy has other commands than
the system, and the `catalog` run has the two bodies (reload, then commands) with which TLC
reaches this.

## 6 What the models found

* `retry_misreports` - an ERROR update sent twice changes nothing the second time,
  `event.error` stays unset (`controllers/request_api.py:132`) and the
  REQUEST_SUCCESS webhooks are called for a failed request.
* `pause_undone` - `run_job` looks the job up and reschedules it in two steps
  (`scheduler.py:83-91`); a pause between them is undone although the comment
  promises care.
* `self_nesting` - `ensure_no_cycles` (`controllers/roles_api.py:260`) compares the
  role with those below the new one, never with the new one itself: a role can be
  nested in itself, and whoever has it is a walk without end for
  `coalesce_permissions`.
* `delete_leaves` - `SystemAPI.delete` promises to delete the system "regardless of
  whether the Bartender operation succeeds" (`controllers/system_api.py:66-68`), and
  leaves the deleting to Bartender.

Seen while modelling, without a run:

* the Thrift connection opens when `thrift_context()` is entered
  (`controllers/request_list_api.py:304`), outside the `try`: if it fails the
  caller gets 503 and the document stays CREATED for good;
* `status` is not guarded (`controllers/request_api.py:107`): a message delivered twice
  reopens a completed request and replaces its output;
* `add_job` without a trigger (`controllers/job_list_api.py:82`) makes the first run due
  now; a date job runs when posted and is used up;
* a refused blocking POST leaves its Event in `request_map`; a lost answer leaves a
  gauge raised; a partial job PATCH leaves scheduler and status apart;
* a signal during startup: its shutdown sees no publishers, startup finishes
  behind it, listens again and starts the scheduler, and the queue is not drained;
* a join that times out ends its shutdown before `io_loop.stop`
  (`__init__.py:159`); since a failed connection ends or hangs the worker, a server without
  RabbitMQ does not stop on SIGTERM;
* a refused or lost POST publishes REQUEST_CREATED, with the error flag
  (`request_list_api.py:265`, `base_handler.py:145-158`, `227`), for a request that does not exist;
* a job POSTed with status PAUSED is scheduled all the same and runs
  (`job_list_api.py:77-97`);
* a body [text, reload, add] whose instance is deleted during the wait writes the list that it
  had read, with the deleted instance; every later registration of the system then fails on it
  (`system_api.py:204-219`, `system_list_api.py:263-272`);
* a heartbeat, a report or a PATCH of a system that was removed during its wait puts back
  a stub of the document (`instance_api.py:148`, `170`, `system_api.py:167`, `219`);
* a server stopped before startup listens cannot be stopped afterwards: Tornado's `stop()`
  does what it does once only;
* an instance added while a PATCH waits for `reload` is lost when that PATCH then adds
  another (`controllers/system_api.py:217`);
* a cookie whose token is gone raises in `_get_user_from_cookie`
  (`base_handler.py:74`): every call with it is answered 404;
* deleting a role, or changing the anonymous user, leaves the cached guest as it was
  (`authorization.py:138`).

## 7 Not modelled

Parents of requests; reading handlers and the query builder; the name, password and
theme of a user's PATCH; `basic_auth`; `MongoPublisher`, `HttpPublisher` and
`RequestPublisher`, which neither wait nor keep anything; events lost in TCP buffers when a
connection drops; Admin, which keeps no state; the configuration
(`specification.py`, data only); the browser UI. In `JobScheduler`: a failing
`add_job` (the document is deleted again), `_get_jobs` deleting a document it cannot
restore, a crash between `document.save()` and `add_job`. In `SystemCatalog`: PATCH and
DELETE of a system's stub, by whoever still has its id; the name and status of a stub; Mongo's unique
index on name and version, which lets in one nameless document only; the `Command` documents,
which `upsert_commands` rewrites; and instances started or stopped by nobody who asked. In `ServerLifecycle`: a startup that raises, as when a document
cannot be loaded, which ends with the traceback in the log and the loop running.

## 8 Plan

Done, in this order: `RequestPatch`, `RequestPatchLoop`, `RequestLifecycle`,
`RequestContract`, `RequestLifecycleProofs`, `JobScheduler`, `JobSchedulerProofs`,
`AccessControl`, `AccessControlProofs`, `SystemCatalog`, `ServerLifecycle`,
`ServerLifecycleProofs`, `RequestContractProofs`, `RequestCountsProofs`,
`RequestPatchLoopProofs`, `SystemCatalogProofs`.

Next, most important first:

1. Request parents in `RequestLifecycle`; a failing `add_job` and crashes between two
   saves in `JobScheduler`; `JobScheduler` composed with `RequestLifecycle` through
   `create_request`.
2. The query builder of `RequestListAPI.get` as a function, against a reference
   definition of filtering, ordering and paging.
