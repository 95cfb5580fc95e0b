---------------------------- MODULE JobScheduler ----------------------------
(***************************************************************************)
(* The scheduled jobs of brew-view: JobListAPI.post, JobAPI.patch and      *)
(* JobAPI.delete, the job store BGJobStore, and run_job.                   *)
(*                                                                         *)
(* The APIs and APScheduler's processing of due jobs run on the IOLoop, one*)
(* at a time.  run_job runs on a thread of the executor's pool, and takes  *)
(* the scheduler's lock for get_job and again for reschedule_job: the pool *)
(* steps between any two scheduler calls of a PATCH, and the IOLoop between*)
(* the two calls of run_job.  All that is persistent is the Job document,  *)
(* whose next_run_time the store writes and whose status the API writes.   *)
(*                                                                         *)
(* A time is "later" than now, "due", or "none".                           *)
(***************************************************************************)
EXTENDS Naturals, Sequences, FiniteSetsExt

CONSTANTS
    Jobs,           \* the Job documents there may come to be
    DateJobs,       \* those with a date trigger; the others repeat
    ResettingJobs,  \* interval triggers with reschedule_on_finish
    EndingJobs,     \* interval and cron triggers with an end date
    PostedStatuses, \* the statuses that bodies of a POST carry
    Workers,        \* max_workers of the executor
    MaxInstances,   \* max_instances of each job
    PatchBodies,    \* the operations PATCHes send, see JobOps
    Surroundings    \* what may go wrong, see JobMishaps

\* An operation sets the status, or is one that JobAPI.patch refuses.
JobOps == {"PAUSED", "RUNNING", "invalid"}

\* misfires: a run starts after its grace time   restarts: brew-view restarts
\* fails: run_job's create_request raises        crashes: it dies in a PATCH
JobMishaps == {"misfires", "fails", "restarts", "crashes"}

ASSUME SchedulerAssumption ==
    /\ "none" \notin Jobs
    /\ PostedStatuses \subseteq {"RUNNING", "PAUSED"}
    /\ DateJobs \union ResettingJobs \union EndingJobs \subseteq Jobs
    /\ DateJobs \intersect (ResettingJobs \union EndingJobs) = {}
    /\ Workers \in Nat \ {0}
    /\ MaxInstances \in [Jobs -> Nat \ {0}]
    /\ PatchBodies \subseteq Seq(JobOps)
    /\ Surroundings \subseteq JobMishaps

VARIABLES
    docs,       \* Mongo: the Job documents
    passed,     \* the date, or end date, of a job has passed
    runs,       \* the instances of run_job that the executor holds
    patch       \* the PATCH the IOLoop is busy with, if any

vars == <<docs, passed, runs, patch>>

-----------------------------------------------------------------------------

Times == {"none", "later", "due"}
Statuses == {"RUNNING", "PAUSED"}

\* A stub has an id and a status and nothing else, see SavePatch.
JobDocs == [state : {"unborn", "whole", "stub", "gone"},
            status : Statuses, next_run : Times]

Unborn == [state |-> "unborn", status |-> "RUNNING", next_run |-> "none"]
Gone == [Unborn EXCEPT !.state = "gone"]

Instances(j) == 1 .. MaxInstances[j]

\* queued: submitted, no thread yet     creating: in easy_client.create_request
\* checked: get_job has said that the job is to be rescheduled
Phases == {"free", "queued", "creating", "checked"}

\* The job, the operations left, its status as loaded and as set since.
Patches == [job : Jobs \union {"none"}, ops : Seq(JobOps),
            loaded : Statuses, status : Statuses]

NoPatch == [job |-> "none", ops |-> <<>>, loaded |-> "RUNNING",
            status |-> "RUNNING"]

Init ==
    /\ docs = [j \in Jobs |-> Unborn]
    /\ passed = [j \in Jobs |-> FALSE]
    /\ runs = [j \in Jobs |-> [i \in Instances(j) |-> "free"]]
    /\ patch = NoPatch

IOLoopFree == patch = NoPatch

\* What get_next_fire_time of a job's trigger may say, before its first run
\* (and after a reset) or after a run.
NextFires(j, ran) ==
    IF j \in DateJobs
    THEN IF ran THEN {"none"} ELSE {IF passed[j] THEN "due" ELSE "later"}
    ELSE (IF j \in EndingJobs /\ passed[j] THEN {} ELSE {"later"})
         \union (IF j \in EndingJobs THEN {"none"} ELSE {})

-----------------------------------------------------------------------------
(***************************************************************************)
(* JobListAPI.post and JobAPI.delete.                                      *)
(***************************************************************************)

\* The document is saved as it was sent, and add_job called without a trigger,
\* which is what APScheduler takes for a date trigger that is due now.  Nobody
\* asks for the status: a job POSTed as PAUSED runs.
PostJob(j, status) ==
    /\ IOLoopFree
    /\ docs[j].state = "unborn"
    /\ docs' = [docs EXCEPT ![j] =
           [state |-> "whole", status |-> status, next_run |-> "due"]]
    /\ UNCHANGED <<passed, runs, patch>>

DeleteJob(j) ==
    /\ IOLoopFree
    /\ docs[j].state \in {"whole", "stub"}
    /\ docs' = [docs EXCEPT ![j] = Gone]
    /\ UNCHANGED <<passed, runs, patch>>

-----------------------------------------------------------------------------
(***************************************************************************)
(* JobAPI.patch, from one scheduler call to the next.                      *)
(***************************************************************************)

BeginPatch(j, ops) ==
    /\ IOLoopFree
    /\ docs[j].state = "whole"
    /\ patch' = [job |-> j, ops |-> ops, loaded |-> docs[j].status,
                 status |-> docs[j].status]
    /\ UNCHANGED <<docs, passed, runs>>

\* The operation has been applied: its status waits for the save.
NextOp(status) ==
    patch' = [patch EXCEPT !.ops = Tail(@), !.status = status]

\* modify_job with no next run.
PauseOp ==
    /\ patch.ops # <<>> /\ Head(patch.ops) = "PAUSED"
    /\ docs[patch.job].state = "whole"
    /\ docs' = [docs EXCEPT ![patch.job].next_run = "none"]
    /\ NextOp("PAUSED")
    /\ UNCHANGED <<passed, runs>>

\* Mutant of ResumeOp: any status but PAUSED is taken for RUNNING, and saved.
AnyStatusResumeOp ==
    /\ patch.ops # <<>> /\ Head(patch.ops) # "PAUSED"
    /\ docs[patch.job].state = "whole"
    /\ \E next \in NextFires(patch.job, FALSE) :
           docs' = [docs EXCEPT ![patch.job] =
                       IF next = "none" THEN Gone
                       ELSE [@ EXCEPT !.next_run = next]]
    /\ NextOp(Head(patch.ops))
    /\ UNCHANGED <<passed, runs>>

\* Mutant of ResumeOp: the scheduler is not told.
SilentResumeOp ==
    /\ patch.ops # <<>> /\ Head(patch.ops) = "RUNNING"
    /\ docs[patch.job].state = "whole"
    /\ NextOp("RUNNING")
    /\ UNCHANGED <<docs, passed, runs>>

\* resume_job removes a job that has no next run.
ResumeOp ==
    /\ patch.ops # <<>> /\ Head(patch.ops) = "RUNNING"
    /\ docs[patch.job].state = "whole"
    /\ \E next \in NextFires(patch.job, FALSE) :
           docs' = [docs EXCEPT ![patch.job] =
                       IF next = "none" THEN Gone
                       ELSE [@ EXCEPT !.next_run = next]]
    /\ NextOp("RUNNING")
    /\ UNCHANGED <<passed, runs>>

\* An unknown operation, or a job an earlier operation removed: the answer is
\* an error, what the scheduler did stays done, the status is not saved.
RefuseOp ==
    /\ patch.ops # <<>>
    /\ Head(patch.ops) = "invalid" \/ docs[patch.job].state # "whole"
    /\ patch' = NoPatch
    /\ UNCHANGED <<docs, passed, runs>>

\* Mutant of SavePatch: it writes the whole document it loaded.
WholeSavePatch ==
    /\ ~IOLoopFree
    /\ patch.ops = <<>>
    /\ docs' = [docs EXCEPT ![patch.job] =
           [state |-> "whole", status |-> patch.status,
            next_run |-> IF patch.loaded = "PAUSED" THEN "none" ELSE @.next_run]]
    /\ patch' = NoPatch
    /\ UNCHANGED <<passed, runs>>

\* job.save() writes the status, into a stub if there is no document any more.
Saved(doc, status) ==
    [doc EXCEPT !.status = status,
                !.state = IF doc.state = "gone" THEN "stub" ELSE doc.state]

\* It writes nothing if the status has not changed.
SavePatch ==
    /\ ~IOLoopFree
    /\ patch.ops = <<>>
    /\ docs' = IF patch.status = patch.loaded THEN docs
               ELSE [docs EXCEPT ![patch.job] = Saved(@, patch.status)]
    /\ patch' = NoPatch
    /\ UNCHANGED <<passed, runs>>

-----------------------------------------------------------------------------
(***************************************************************************)
(* APScheduler's processing of the due jobs (external), on BGJobStore.     *)
(***************************************************************************)

Due == {j \in Jobs : docs[j].next_run = "due"}

\* A job that has max_instances runs already misses this one.
Submitted(j) ==
    LET free == {i \in Instances(j) : runs[j][i] = "free"}
    IN  IF free = {} THEN runs[j] ELSE [runs[j] EXCEPT ![Min(free)] = "queued"]

\* BGJobStore.update_job, or remove_job for a job without a next run.
Stored(doc, next) ==
    IF next = "none" THEN Gone ELSE [doc EXCEPT !.next_run = next]

ProcessJobs ==
    /\ IOLoopFree
    /\ Due # {}
    /\ \E next \in [Due -> Times] :
           /\ \A j \in Due : next[j] \in NextFires(j, TRUE)
           /\ docs' = [j \in Jobs |->
                  IF j \in Due THEN Stored(docs[j], next[j]) ELSE docs[j]]
    /\ runs' = [j \in Jobs |->
                   IF j \in Due THEN Submitted(j) ELSE runs[j]]
    /\ UNCHANGED <<passed, patch>>

-----------------------------------------------------------------------------
(***************************************************************************)
(* The executor's threads (external) and run_job.                          *)
(***************************************************************************)

Busy ==
    UNION {{<<j, i>> : i \in {k \in Instances(j) :
                                 runs[j][k] \in {"creating", "checked"}}} :
               j \in Jobs}

StartRun(j, i) ==
    /\ runs[j][i] = "queued"
    /\ Cardinality(Busy) < Workers
    /\ runs' = [runs EXCEPT ![j][i] = "creating"]
    /\ UNCHANGED <<docs, passed, patch>>

\* The thread is later than misfire_grace_time and skips the run.
MissRun(j, i) ==
    /\ "misfires" \in Surroundings
    /\ runs[j][i] = "queued"
    /\ Cardinality(Busy) < Workers
    /\ runs' = [runs EXCEPT ![j][i] = "free"]
    /\ UNCHANGED <<docs, passed, patch>>

\* Mutant of ToReschedule: the trigger is not asked for reschedule_on_finish.
AnyToReschedule(j) ==
    docs[j].state = "whole" /\ docs[j].next_run # "none"

\* What run_job asks of the job that get_job gives it.
ToReschedule(j) ==
    /\ docs[j].state = "whole"
    /\ docs[j].next_run # "none"
    /\ j \in ResettingJobs

\* create_request(blocking=True) has returned; get_job.
CheckJob(j, i) ==
    /\ runs[j][i] = "creating"
    /\ runs' = [runs EXCEPT ![j][i] =
                   IF ToReschedule(j) THEN "checked" ELSE "free"]
    /\ UNCHANGED <<docs, passed, patch>>

CreateFails(j, i) ==
    /\ "fails" \in Surroundings
    /\ runs[j][i] = "creating"
    /\ runs' = [runs EXCEPT ![j][i] = "free"]
    /\ UNCHANGED <<docs, passed, patch>>

\* Mutant of Rescheduled: the document is written without being looked up.
BlindRescheduled(doc, next) ==
    [doc EXCEPT !.state = "whole", !.next_run = next]

\* modify_job looks the job up, raises if it is gone, and asks nothing else.
Rescheduled(doc, next) ==
    IF doc.state = "whole" THEN [doc EXCEPT !.next_run = next] ELSE doc

RescheduleJob(j, i) ==
    /\ runs[j][i] = "checked"
    /\ \E next \in NextFires(j, FALSE) :
           docs' = [docs EXCEPT ![j] = Rescheduled(@, next)]
    /\ runs' = [runs EXCEPT ![j][i] = "free"]
    /\ UNCHANGED <<passed, patch>>

-----------------------------------------------------------------------------
(***************************************************************************)
(* Time, and the process going away and coming back.                       *)
(***************************************************************************)

DatePasses(j) ==
    /\ ~passed[j]
    /\ j \in DateJobs \union EndingJobs
    /\ passed' = [passed EXCEPT ![j] = TRUE]
    /\ UNCHANGED <<docs, runs, patch>>

ComesDue(j) ==
    /\ docs[j].next_run = "later"
    /\ j \in DateJobs => passed[j]
    /\ docs' = [docs EXCEPT ![j].next_run = "due"]
    /\ UNCHANGED <<passed, runs, patch>>

\* What the executor holds is lost, and so is the rest of a PATCH.
Restart ==
    /\ \/ "restarts" \in Surroundings /\ IOLoopFree
       \/ "crashes" \in Surroundings /\ ~IOLoopFree
    /\ runs' = [j \in Jobs |-> [i \in Instances(j) |-> "free"]]
    /\ patch' = NoPatch
    /\ UNCHANGED <<docs, passed>>

-----------------------------------------------------------------------------

PatchNext ==
    \/ \E j \in Jobs, ops \in PatchBodies : BeginPatch(j, ops)
    \/ PauseOp
    \/ ResumeOp
    \/ RefuseOp
    \/ SavePatch

RunNext(j, i) ==
    \/ StartRun(j, i)
    \/ MissRun(j, i)
    \/ CheckJob(j, i)
    \/ CreateFails(j, i)
    \/ RescheduleJob(j, i)

Next ==
    \/ \E j \in Jobs, status \in PostedStatuses : PostJob(j, status)
    \/ \E j \in Jobs : DeleteJob(j)
    \/ PatchNext
    \/ ProcessJobs
    \/ \E j \in Jobs : \E i \in Instances(j) : RunNext(j, i)
    \/ \E j \in Jobs : DatePasses(j) \/ ComesDue(j)
    \/ Restart

Spec == Init /\ [][Next]_vars

\* The IOLoop runs its callbacks in turn, the pool its runs; a run does not
\* miss its grace time for ever, time passes, requests are answered, and the
\* process is not restarted for ever.
Fairness ==
    /\ WF_vars(PauseOp \/ ResumeOp \/ RefuseOp \/ SavePatch)
    /\ SF_vars(ProcessJobs)
    /\ \A j \in Jobs :
           /\ WF_vars(ComesDue(j))
           /\ SF_vars(\E i \in Instances(j) : StartRun(j, i))
           /\ \A i \in Instances(j) :
                  WF_vars(CheckJob(j, i) \/ RescheduleJob(j, i))
    /\ <>[][~Restart]_vars

FairSpec == Spec /\ Fairness

-----------------------------------------------------------------------------
(***************************************************************************)
(* Correctness.                                                            *)
(***************************************************************************)

TypeOK ==
    /\ docs \in [Jobs -> JobDocs]
    /\ passed \in [Jobs -> BOOLEAN]
    /\ runs = [j \in Jobs |-> runs[j]]
    /\ \A j \in Jobs : runs[j] \in [Instances(j) -> Phases]
    /\ patch \in Patches

\* Between PATCHes, the document of the job says that it has this status.
Says(j, status) ==
    docs[j].state = "whole" /\ docs[j].status = status /\ patch.job # j

\* A job that calls itself RUNNING and has no end has a next run: none falls
\* asleep unnoticed.
RunningJobIsScheduled ==
    \A j \in Jobs \ EndingJobs :
        Says(j, "RUNNING") => docs[j].next_run # "none"

\* The status of a job: what the PATCH under way has made of it so far, or
\* what its document says.
Held(j) == IF patch.job = j THEN patch.status ELSE docs[j].status

\* A job that is PAUSED sleeps.  One that was POSTed as PAUSED does not.
InStep(j) == Held(j) = "PAUSED" => docs[j].next_run = "none"

\* A pause holds: a job that is in step with its status, as every job is from
\* its first PATCH on, stays so for as long as it exists, whatever APScheduler
\* and the pool do between the operations of a PATCH and its save.  (The jobs
\* that run_job reschedules are left out, see PausedJobSleeps.)
PauseHolds ==
    [][\A j \in Jobs \ ResettingJobs :
           docs[j].state = "whole" /\ docs'[j].state = "whole" /\ InStep(j)
               => InStep(j)']_vars

\* run_job promises care because "the job could have been removed or paused":
\* a job that calls itself PAUSED has no next run, whatever its trigger.  (Jobs
\* that are POSTed as PAUSED are kept out of the run.)
PausedJobSleeps ==
    \A j \in Jobs : Says(j, "PAUSED") => docs[j].next_run = "none"

\* A job without an end that is deleted, or has had its last run, never comes
\* back, however late the runs it has left in the pool finish.
GoneStaysGone ==
    [][\A j \in Jobs \ EndingJobs :
           docs[j].state = "gone" => docs'[j].state = "gone"]_vars

\* A repeating job that stays RUNNING is run again and again.
RunningJobRuns ==
    \A j \in Jobs \ (DateJobs \union EndingJobs) :
        Says(j, "RUNNING") ~>
            ~Says(j, "RUNNING") \/ \E i \in Instances(j) : runs[j][i] = "creating"

=============================================================================
