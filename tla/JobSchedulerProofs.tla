------------------------- MODULE JobSchedulerProofs -------------------------
(***************************************************************************)
(* Theorems about JobScheduler, for every set of jobs, every kind of       *)
(* trigger, every number of workers and of instances.                      *)
(***************************************************************************)
EXTENDS JobScheduler, TLAPS

(***************************************************************************)
(* Types.                                                                  *)
(***************************************************************************)

\* When a trigger may fire next is one of Times.
LEMMA NextFiresType ==
    ASSUME NEW j, NEW ran \in BOOLEAN
    PROVE  NextFires(j, ran) \subseteq Times
BY DEF NextFires, Times

\* A job that is gone has a document, in state gone.
LEMMA GoneType == Gone \in JobDocs /\ Gone.state = "gone"
BY DEF Gone, Unborn, JobDocs, Times, Statuses

\* A worker without a PATCH is a worker.
LEMMA NoPatchType == NoPatch \in Patches
BY DEF NoPatch, Patches, Statuses

\* A job document with another next run is a job document.
LEMMA NextRunType ==
    ASSUME NEW d \in JobDocs, NEW t \in Times
    PROVE  [d EXCEPT !.next_run = t] \in JobDocs
BY DEF JobDocs

\* What the store writes for a job is a job document.
LEMMA StoredType ==
    ASSUME NEW d \in JobDocs, NEW t \in Times
    PROVE  Stored(d, t) \in JobDocs /\ Rescheduled(d, t) \in JobDocs
BY NextRunType, GoneType DEF Stored, Rescheduled

\* What PauseOp and ResumeOp leave to be saved.
LEMMA NextOpType ==
    ASSUME patch \in Patches, patch.ops # <<>>, NEW s \in Statuses, NextOp(s)
    PROVE  patch' \in Patches
<1>1. patch.ops \in Seq(JobOps)
  BY DEF Patches
<1>2. Tail(patch.ops) \in Seq(JobOps)
  BY <1>1
<1>3. patch' = [patch EXCEPT !.ops = Tail(patch.ops), !.status = s]
  BY DEF NextOp
<1>4. QED
  BY <1>2, <1>3 DEF Patches

\* What a save leaves of a job is a job document.
LEMMA SavedType ==
    ASSUME NEW d \in JobDocs, NEW s \in Statuses
    PROVE  Saved(d, s) \in JobDocs
<1>1. PICK state \in {"unborn", "whole", "stub", "gone"} :
        Saved(d, s) = [d EXCEPT !.status = s, !.state = state]
  BY DEF Saved, JobDocs
<1>2. QED
  BY <1>1 DEF JobDocs

\* A submission takes a free place or changes nothing.
LEMMA SubmittedType ==
    ASSUME NEW j \in Jobs, runs[j] \in [Instances(j) -> Phases]
    PROVE  Submitted(j) \in [Instances(j) -> Phases]
BY DEF Submitted, Phases

\* What JobListAPI.post and JobAPI.delete do to a job.
Listed(j) == (\E status \in PostedStatuses : PostJob(j, status)) \/ DeleteJob(j)

\* Every variable keeps its type.
THEOREM TypeCorrect == Spec => []TypeOK
<1>1. Init => TypeOK
  BY NoPatchType DEF Init, TypeOK, Unborn, JobDocs, Times, Statuses, Phases
<1>2. TypeOK /\ [Next]_vars => TypeOK'
  <2> SUFFICES ASSUME TypeOK, [Next]_vars
               PROVE  TypeOK'
    OBVIOUS
  <2>1. CASE UNCHANGED vars
    BY <2>1 DEF TypeOK, vars
  <2>2. ASSUME NEW j \in Jobs, Listed(j)
        PROVE  TypeOK'
    <3>1. PICK doc \in JobDocs : docs' = [docs EXCEPT ![j] = doc]
      BY <2>2, GoneType, SchedulerAssumption
         DEF Listed, PostJob, DeleteJob, JobDocs, Times, Statuses
    <3>2. UNCHANGED <<passed, runs, patch>>
      BY <2>2 DEF Listed, PostJob, DeleteJob
    <3>3. QED
      BY <3>1, <3>2 DEF TypeOK
  <2>3. CASE PatchNext
    <3>1. ASSUME NEW j \in Jobs, NEW ops \in PatchBodies, BeginPatch(j, ops)
          PROVE  TypeOK'
      BY <3>1, SchedulerAssumption DEF BeginPatch, TypeOK, JobDocs, Patches
    <3>2. CASE PauseOp
      <4>1. patch' \in Patches
        BY <3>2, NextOpType DEF PauseOp, TypeOK, Statuses
      <4>2. docs' \in [Jobs -> JobDocs]
        <5>1. docs' = [docs EXCEPT ![patch.job] =
                         [docs[patch.job] EXCEPT !.next_run = "none"]]
          BY <3>2 DEF PauseOp
        <5>2. patch.job \in Jobs =>
                [docs[patch.job] EXCEPT !.next_run = "none"] \in JobDocs
          BY NextRunType DEF TypeOK, Times
        <5>3. QED
          BY <5>1, <5>2 DEF TypeOK
      <4>3. QED
        BY <3>2, <4>1, <4>2 DEF PauseOp, TypeOK
    <3>3. CASE ResumeOp
      <4>1. patch' \in Patches
        BY <3>3, NextOpType DEF ResumeOp, TypeOK, Statuses
      <4>2. docs' \in [Jobs -> JobDocs]
        <5>1. PICK t \in Times :
                docs' = [docs EXCEPT ![patch.job] =
                            IF t = "none" THEN Gone
                            ELSE [docs[patch.job] EXCEPT !.next_run = t]]
          BY <3>3, NextFiresType DEF ResumeOp
        <5>2. patch.job \in Jobs =>
                [docs[patch.job] EXCEPT !.next_run = t] \in JobDocs
          BY NextRunType DEF TypeOK
        <5>3. QED
          BY <5>1, <5>2, GoneType DEF TypeOK
      <4>3. QED
        BY <3>3, <4>1, <4>2 DEF ResumeOp, TypeOK
    <3>4. CASE RefuseOp
      BY <3>4, NoPatchType DEF RefuseOp, TypeOK
    <3>5. CASE SavePatch
      <4>1. patch.job \in Jobs => Saved(docs[patch.job], patch.status) \in JobDocs
        BY SavedType DEF TypeOK, Patches
      <4>2. QED
        BY <3>5, <4>1, NoPatchType DEF SavePatch, TypeOK
    <3>6. QED
      BY <2>3, <3>1, <3>2, <3>3, <3>4, <3>5 DEF PatchNext
  <2>4. CASE ProcessJobs
    <3>1. docs' \in [Jobs -> JobDocs]
      <4>1. PICK next \in [Due -> Times] :
              docs' = [j \in Jobs |->
                  IF j \in Due THEN Stored(docs[j], next[j]) ELSE docs[j]]
        BY <2>4 DEF ProcessJobs
      <4>2. ASSUME NEW j \in Jobs
            PROVE  docs'[j] \in JobDocs
        BY <4>1, StoredType DEF TypeOK
      <4>3. QED
        BY <4>1, <4>2
    <3>2. runs' = [j \in Jobs |-> runs'[j]]
      BY <2>4 DEF ProcessJobs
    <3>3. \A j \in Jobs : runs'[j] \in [Instances(j) -> Phases]
      BY <2>4, SubmittedType DEF ProcessJobs, TypeOK
    <3>4. QED
      BY <2>4, <3>1, <3>2, <3>3 DEF ProcessJobs, TypeOK
  <2>5. ASSUME NEW j \in Jobs, NEW i \in Instances(j), RunNext(j, i)
        PROVE  TypeOK'
    <3>1. PICK phase \in Phases : runs' = [runs EXCEPT ![j][i] = phase]
      BY <2>5
         DEF RunNext, StartRun, MissRun, CheckJob, CreateFails, RescheduleJob,
             Phases
    <3>2. runs' = [k \in Jobs |-> runs'[k]]
      BY <3>1 DEF TypeOK
    <3>3. \A k \in Jobs : runs'[k] \in [Instances(k) -> Phases]
      BY <3>1 DEF TypeOK
    <3>4. docs' \in [Jobs -> JobDocs]
      <4>1. CASE RescheduleJob(j, i)
        <5>1. PICK t \in Times : docs' = [docs EXCEPT ![j] = Rescheduled(@, t)]
          BY <4>1, NextFiresType DEF RescheduleJob
        <5>2. QED
          BY <5>1, StoredType DEF TypeOK
      <4>2. CASE docs' = docs
        BY <4>2 DEF TypeOK
      <4>3. QED
        BY <2>5, <4>1, <4>2 DEF RunNext, StartRun, MissRun, CheckJob, CreateFails
    <3>5. UNCHANGED <<passed, patch>>
      BY <2>5
         DEF RunNext, StartRun, MissRun, CheckJob, CreateFails, RescheduleJob
    <3>6. QED
      BY <3>2, <3>3, <3>4, <3>5 DEF TypeOK
  <2>6. ASSUME NEW j \in Jobs, DatePasses(j) \/ ComesDue(j)
        PROVE  TypeOK'
    <3>1. CASE DatePasses(j)
      BY <3>1 DEF DatePasses, TypeOK
    <3>2. CASE ComesDue(j)
      BY <3>2, NextRunType DEF ComesDue, TypeOK, Times
    <3>3. QED
      BY <2>6, <3>1, <3>2
  <2>7. CASE Restart
    BY <2>7, NoPatchType DEF Restart, TypeOK, Phases
  <2>8. QED
    BY <2>1, <2>2, <2>3, <2>4, <2>5, <2>6, <2>7 DEF Next, Listed
<1>3. QED
  BY <1>1, <1>2, PTL DEF Spec

(***************************************************************************)
(* A job that is gone stays gone.                                          *)
(***************************************************************************)

\* A PATCH that holds the IOLoop keeps the document it loaded: nobody else
\* deletes meanwhile, and resume_job finds a next run.
PatchHolds ==
    patch.job \in Jobs \ EndingJobs => docs[patch.job].state = "whole"

\* A trigger that has no end has a next run, before the first run and after a
\* reset.
LEMMA FiresAgain ==
    ASSUME NEW j \in Jobs \ EndingJobs
    PROVE  "none" \notin NextFires(j, FALSE)
BY DEF NextFires

\* What each step may do to the state of a document.
LEMMA StateStep ==
    ASSUME TypeOK, PatchHolds, [Next]_vars
    PROVE  /\ PatchHolds'
           /\ \A j \in Jobs \ EndingJobs :
                  docs[j].state = "gone" => docs'[j].state = "gone"
<1> USE SchedulerAssumption
<1> DEFINE Kept == \A j \in Jobs \ EndingJobs :
                      docs[j].state = "gone" => docs'[j].state = "gone"
<1>1. CASE UNCHANGED <<docs, patch>>
  BY <1>1 DEF PatchHolds
<1>2. ASSUME NEW k \in Jobs, Listed(k)
      PROVE  PatchHolds' /\ Kept
  <2>1. patch' = NoPatch
    BY <1>2 DEF Listed, PostJob, DeleteJob, IOLoopFree
  <2>2. Kept
    BY <1>2, GoneType DEF Listed, PostJob, DeleteJob, TypeOK
  <2>3. QED
    BY <2>1, <2>2 DEF PatchHolds, NoPatch
<1>3. ASSUME NEW k \in Jobs, NEW ops \in PatchBodies, BeginPatch(k, ops)
      PROVE  PatchHolds' /\ Kept
  BY <1>3 DEF BeginPatch, PatchHolds
<1>4. CASE PauseOp
  <2>1. /\ docs[patch.job].state = "whole"
        /\ docs' = [docs EXCEPT ![patch.job] =
                        [docs[patch.job] EXCEPT !.next_run = "none"]]
        /\ patch'.job = patch.job
    BY <1>4 DEF PauseOp, NextOp, TypeOK, Patches
  <2>2. patch.job \in Jobs => docs'[patch.job].state = "whole"
    BY <2>1 DEF TypeOK, JobDocs
  <2>3. \A j \in Jobs : j # patch.job => docs'[j] = docs[j]
    BY <2>1 DEF TypeOK
  <2>4. QED
    BY <2>1, <2>2, <2>3 DEF PatchHolds
<1>5. CASE ResumeOp
  <2>1. PICK next \in NextFires(patch.job, FALSE) :
            docs' = [docs EXCEPT ![patch.job] =
                        IF next = "none" THEN Gone
                        ELSE [docs[patch.job] EXCEPT !.next_run = next]]
    BY <1>5 DEF ResumeOp
  <2>2. docs[patch.job].state = "whole" /\ patch'.job = patch.job
    BY <1>5 DEF ResumeOp, NextOp, TypeOK, Patches
  <2>3. patch.job \in Jobs \ EndingJobs => docs'[patch.job].state = "whole"
    BY <2>1, <2>2, FiresAgain DEF TypeOK, JobDocs
  <2>4. \A j \in Jobs : j # patch.job => docs'[j] = docs[j]
    BY <2>1 DEF TypeOK
  <2>5. QED
    BY <2>2, <2>3, <2>4 DEF PatchHolds
<1>6. CASE RefuseOp
  BY <1>6 DEF RefuseOp, PatchHolds, NoPatch
<1>7. CASE SavePatch
  <2>1. \A j \in Jobs : j # patch.job => docs'[j] = docs[j]
    BY <1>7 DEF SavePatch, TypeOK
  <2>2. patch' = NoPatch
    BY <1>7 DEF SavePatch
  <2>3. QED
    BY <2>1, <2>2 DEF PatchHolds, NoPatch
<1>8. CASE ProcessJobs
  <2>1. patch' = NoPatch
    BY <1>8 DEF ProcessJobs, IOLoopFree
  <2>2. PICK next \in [Due -> Times] :
            docs' = [j \in Jobs |->
                IF j \in Due THEN Stored(docs[j], next[j]) ELSE docs[j]]
    BY <1>8 DEF ProcessJobs
  <2>3. \A j \in Jobs, t \in Times :
            docs[j].state = "gone" => Stored(docs[j], t).state = "gone"
    BY GoneType DEF Stored, TypeOK, JobDocs
  <2>4. QED
    BY <2>1, <2>2, <2>3 DEF PatchHolds, NoPatch
<1>9. ASSUME NEW k \in Jobs, NEW i \in Instances(k), RescheduleJob(k, i)
      PROVE  PatchHolds' /\ Kept
  <2>1. PICK next : docs' = [docs EXCEPT ![k] = Rescheduled(docs[k], next)]
    BY <1>9 DEF RescheduleJob
  <2>2. Rescheduled(docs[k], next).state = docs[k].state
    BY DEF Rescheduled, TypeOK, JobDocs
  <2>3. \A j \in Jobs : docs'[j].state = docs[j].state
    BY <2>1, <2>2 DEF TypeOK
  <2>4. patch' = patch
    BY <1>9 DEF RescheduleJob
  <2>5. QED
    BY <2>3, <2>4 DEF PatchHolds
<1>10. ASSUME NEW k \in Jobs, ComesDue(k)
       PROVE  PatchHolds' /\ Kept
  <2>1. docs' = [docs EXCEPT ![k] = [docs[k] EXCEPT !.next_run = "due"]]
    BY <1>10 DEF ComesDue
  <2>2. \A j \in Jobs : docs'[j].state = docs[j].state
    BY <2>1 DEF TypeOK, JobDocs
  <2>3. QED
    BY <1>10, <2>2 DEF PatchHolds, ComesDue
<1>11. CASE Restart
  BY <1>11 DEF Restart, PatchHolds, NoPatch
<1>12. QED
  BY <1>1, <1>2, <1>3, <1>4, <1>5, <1>6, <1>7, <1>8, <1>9, <1>10, <1>11
     DEF Next, Listed, PatchNext, RunNext, StartRun, MissRun, CheckJob, CreateFails,
         DatePasses, vars

\* A job without an end that is deleted, or has had its last run, never comes
\* back, whatever is still queued or running in the pool and whatever PATCHes
\* are sent about it.
THEOREM GoneForGood == Spec => GoneStaysGone
<1>1. Init => PatchHolds
  BY SchedulerAssumption DEF Init, NoPatch, PatchHolds
<1>2. TypeOK /\ PatchHolds /\ [Next]_vars => PatchHolds'
  BY StateStep
<1>3. TypeOK /\ PatchHolds /\ [Next]_vars =>
          [\A j \in Jobs \ EndingJobs :
              docs[j].state = "gone" => docs'[j].state = "gone"]_vars
  BY StateStep
<1>4. QED
  BY <1>1, <1>2, <1>3, TypeCorrect, PTL DEF Spec, GoneStaysGone

(***************************************************************************)
(* The status of a job tells what the scheduler holds.                     *)
(***************************************************************************)

\* What the code needs for it: a body that is refused is refused at its first
\* operation, and no PATCH is cut short by a crash.
SoundPatches ==
    /\ \A ops \in PatchBodies : \A n \in DOMAIN ops : ops[n] = "invalid" => n = 1
    /\ "crashes" \notin Surroundings

Agrees(j, doc, status) ==
    doc.state = "whole" /\ j \notin EndingJobs /\ status = "RUNNING" =>
        doc.next_run # "none"

\* The scheduler follows each operation at once, the document when the PATCH
\* is over: until then the status to be saved is the one that is true.
AgreeInv == \A j \in Jobs : Agrees(j, docs[j], Held(j))

\* Nobody else writes the status of the job a PATCH is about.
LoadedInv ==
    patch.job \in Jobs =>
        (docs[patch.job].state = "whole" => docs[patch.job].status = patch.loaded)

\* Operations are about a job; one that will be refused is the next one, and
\* nothing is done yet.
OpsInv ==
    /\ patch.job \notin Jobs => patch.ops = <<>>
    /\ \A n \in DOMAIN patch.ops :
           patch.ops[n] = "invalid" => n = 1 /\ patch.status = patch.loaded

\* Only jobs that are reset when they finish get as far as that.
CheckedInv ==
    \A j \in Jobs : \A i \in Instances(j) :
        runs[j][i] = "checked" => j \in ResettingJobs

StatusInv == TypeOK /\ AgreeInv /\ LoadedInv /\ OpsInv /\ CheckedInv

\* At the start documents and schedule agree.
LEMMA StatusInit == Init => AgreeInv /\ LoadedInv /\ OpsInv /\ CheckedInv
BY SchedulerAssumption
   DEF Init, NoPatch, Unborn, AgreeInv, Agrees, LoadedInv, OpsInv, CheckedInv

\* A step that leaves documents and PATCH alone.
LEMMA PoolStep ==
    ASSUME StatusInv, UNCHANGED <<docs, patch>>
    PROVE  AgreeInv' /\ LoadedInv' /\ OpsInv'
BY DEF StatusInv, AgreeInv, Agrees, Held, LoadedInv, OpsInv

\* A step of APScheduler or of its pool: it gives a job a next run, or none,
\* and removes it only when no PATCH is on.
LEMMA NextRunStep ==
    ASSUME StatusInv, patch' = patch,
           DOMAIN docs' = Jobs,
           \A j \in Jobs : \/ docs'[j] = docs[j]
                           \/ docs'[j].state # "whole"
                           \/ /\ docs[j].state = "whole"
                              /\ docs'[j].status = docs[j].status
                              /\ Agrees(j, docs'[j], Held(j))
    PROVE  AgreeInv' /\ LoadedInv' /\ OpsInv'
<1>1. ASSUME NEW j \in Jobs
      PROVE  Agrees(j, docs'[j], Held(j)')
  BY <1>1 DEF StatusInv, AgreeInv, Agrees, Held
<1>2. LoadedInv'
  BY DEF StatusInv, LoadedInv
<1>3. OpsInv'
  BY DEF StatusInv, OpsInv
<1>4. QED
  BY <1>1, <1>2, <1>3 DEF AgreeInv, Agrees, Held

\* An operation of a PATCH that the scheduler has carried out.
LEMMA OperationStep ==
    ASSUME StatusInv, patch.ops # <<>>, NEW s \in Statuses, NextOp(s),
           patch.job \in Jobs,
           \A j \in Jobs : j # patch.job => docs'[j] = docs[j],
           docs'[patch.job].state = "whole" =>
               /\ docs[patch.job].state = "whole"
               /\ docs'[patch.job].status = docs[patch.job].status,
           Agrees(patch.job, docs'[patch.job], s)
    PROVE  AgreeInv' /\ LoadedInv' /\ OpsInv'
<1>1. /\ patch'.job = patch.job
      /\ patch'.loaded = patch.loaded
      /\ patch'.status = s
      /\ patch'.ops = Tail(patch.ops)
  BY DEF NextOp, StatusInv, TypeOK, Patches
<1>2. ASSUME NEW j \in Jobs
      PROVE  Agrees(j, docs'[j], Held(j)')
  <2>1. CASE j = patch.job
    BY <1>1, <2>1 DEF Held
  <2>2. CASE j # patch.job
    BY <1>1, <2>2 DEF StatusInv, AgreeInv, Held
  <2>3. QED
    BY <2>1, <2>2
<1>3. LoadedInv'
  BY <1>1 DEF StatusInv, LoadedInv
<1>4. OpsInv'
  <2>1. patch.ops \in Seq(JobOps)
    BY DEF StatusInv, TypeOK, Patches
  <2>2. ASSUME NEW n \in DOMAIN Tail(patch.ops)
        PROVE  /\ n + 1 \in DOMAIN patch.ops
               /\ Tail(patch.ops)[n] = patch.ops[n + 1]
               /\ n + 1 # 1
    BY <2>1
  <2>3. QED
    BY <1>1, <2>2 DEF StatusInv, OpsInv
<1>5. QED
  BY <1>2, <1>3, <1>4 DEF AgreeInv, Agrees, Held

\* Every step keeps documents and schedule in agreement.
LEMMA StatusStep ==
    ASSUME SoundPatches, StatusInv, PatchHolds, [Next]_vars
    PROVE  AgreeInv' /\ LoadedInv' /\ OpsInv' /\ CheckedInv'
<1> DEFINE Kept == AgreeInv' /\ LoadedInv' /\ OpsInv'
<1>1. CheckedInv'
  <2>1. CASE UNCHANGED runs
    BY <2>1 DEF StatusInv, CheckedInv
  <2>2. CASE ProcessJobs
    <3>1. ASSUME NEW j \in Jobs, NEW i \in Instances(j)
          PROVE  runs'[j][i] = "checked" => runs[j][i] = "checked"
      BY <2>2 DEF ProcessJobs, Submitted, StatusInv, TypeOK
    <3>2. QED
      BY <3>1 DEF StatusInv, CheckedInv
  <2>3. ASSUME NEW k \in Jobs, NEW h \in Instances(k), RunNext(k, h)
        PROVE  CheckedInv'
    <3>1. PICK phase \in Phases :
              /\ runs' = [runs EXCEPT ![k][h] = phase]
              /\ phase = "checked" => k \in ResettingJobs
      <4>1. CASE CheckJob(k, h)
        BY <4>1 DEF CheckJob, ToReschedule, Phases
      <4>2. CASE ~CheckJob(k, h)
        BY <2>3, <4>2 DEF RunNext, StartRun, MissRun, CreateFails,
                          RescheduleJob, Phases
      <4>3. QED
        BY <4>1, <4>2
    <3>2. ASSUME NEW j \in Jobs, NEW i \in Instances(j)
          PROVE  runs'[j][i] = "checked" => j \in ResettingJobs
      BY <3>1 DEF StatusInv, TypeOK, CheckedInv
    <3>3. QED
      BY <3>2 DEF CheckedInv
  <2>4. CASE Restart
    BY <2>4 DEF Restart, CheckedInv
  <2>5. QED
    BY <2>1, <2>2, <2>3, <2>4
       DEF Next, PatchNext, PostJob, DeleteJob, BeginPatch, PauseOp, ResumeOp,
           RefuseOp, SavePatch, DatePasses, ComesDue, vars
<1> SUFFICES Kept
  BY <1>1
<1>2. ASSUME NEW k \in Jobs, Listed(k)
      PROVE  Kept
  <2>1. patch = NoPatch /\ patch' = NoPatch /\ NoPatch.job \notin Jobs
    BY <1>2, SchedulerAssumption DEF Listed, PostJob, DeleteJob, IOLoopFree, NoPatch
  <2>2. ASSUME NEW j \in Jobs
        PROVE  Agrees(j, docs'[j], docs'[j].status)
    BY <1>2, <2>1, GoneType
       DEF Listed, PostJob, DeleteJob, StatusInv, TypeOK, AgreeInv, Agrees, Held
  <2>3. OpsInv'
    BY <2>1 DEF OpsInv, NoPatch
  <2>4. QED
    BY <2>1, <2>2, <2>3 DEF AgreeInv, Agrees, Held, LoadedInv
<1>3. ASSUME NEW k \in Jobs, NEW ops \in PatchBodies, BeginPatch(k, ops)
      PROVE  Kept
  <2>1. /\ patch.job \notin Jobs
        /\ docs' = docs
        /\ patch' = [job |-> k, ops |-> ops, loaded |-> docs[k].status,
                     status |-> docs[k].status]
    BY <1>3, SchedulerAssumption DEF BeginPatch, IOLoopFree, NoPatch
  <2>2. ASSUME NEW j \in Jobs
        PROVE  Agrees(j, docs'[j], Held(j)')
    BY <2>1 DEF StatusInv, AgreeInv, Held
  <2>3. LoadedInv'
    BY <2>1 DEF LoadedInv
  <2>4. OpsInv'
    BY <2>1 DEF OpsInv, SoundPatches
  <2>5. QED
    BY <2>2, <2>3, <2>4 DEF AgreeInv, Agrees, Held
<1>4. CASE PauseOp
  <2>1. /\ patch.ops # <<>>
        /\ docs[patch.job].state = "whole"
        /\ docs' = [docs EXCEPT ![patch.job] =
                        [docs[patch.job] EXCEPT !.next_run = "none"]]
        /\ NextOp("PAUSED")
    BY <1>4 DEF PauseOp
  <2>2. patch.job \in Jobs
    BY <2>1 DEF StatusInv, OpsInv
  <2>3. /\ docs'[patch.job].status = docs[patch.job].status
        /\ docs'[patch.job].next_run = "none"
    BY <2>1, <2>2 DEF StatusInv, TypeOK, JobDocs
  <2>4. \A j \in Jobs : j # patch.job => docs'[j] = docs[j]
    BY <2>1 DEF StatusInv, TypeOK
  <2>5. Agrees(patch.job, docs'[patch.job], "PAUSED")
    BY <2>3 DEF Agrees
  <2>6. QED
    BY <2>1, <2>2, <2>3, <2>4, <2>5, OperationStep DEF Statuses
<1>5. CASE ResumeOp
  <2>1. PICK next \in NextFires(patch.job, FALSE) :
            docs' = [docs EXCEPT ![patch.job] =
                        IF next = "none" THEN Gone
                        ELSE [docs[patch.job] EXCEPT !.next_run = next]]
    BY <1>5 DEF ResumeOp
  <2>2. /\ patch.ops # <<>>
        /\ docs[patch.job].state = "whole"
        /\ NextOp("RUNNING")
    BY <1>5 DEF ResumeOp
  <2>3. patch.job \in Jobs
    BY <2>2 DEF StatusInv, OpsInv
  <2>4. docs'[patch.job].state = "whole" =>
            /\ docs'[patch.job].status = docs[patch.job].status
            /\ docs'[patch.job].next_run # "none"
    BY <2>1, <2>3, GoneType DEF StatusInv, TypeOK, JobDocs
  <2>5. \A j \in Jobs : j # patch.job => docs'[j] = docs[j]
    BY <2>1 DEF StatusInv, TypeOK
  <2>6. Agrees(patch.job, docs'[patch.job], "RUNNING")
    BY <2>4 DEF Agrees
  <2>7. QED
    BY <2>2, <2>3, <2>4, <2>5, <2>6, OperationStep DEF Statuses
<1>6. CASE RefuseOp
  <2>1. docs' = docs /\ patch' = NoPatch /\ NoPatch.job \notin Jobs
    BY <1>6, SchedulerAssumption DEF RefuseOp, NoPatch
  <2>2. patch.job \in Jobs /\ docs[patch.job].state = "whole" =>
            docs[patch.job].status = patch.status
    <3>1. ASSUME patch.job \in Jobs, docs[patch.job].state = "whole"
          PROVE  patch.status = patch.loaded
      <4>1. patch.ops \in Seq(JobOps) /\ patch.ops # <<>>
        BY <1>6 DEF RefuseOp, StatusInv, TypeOK, Patches
      <4>2. 1 \in DOMAIN patch.ops /\ patch.ops[1] = "invalid"
        BY <1>6, <3>1, <4>1 DEF RefuseOp
      <4>3. QED
        BY <4>2 DEF StatusInv, OpsInv
    <3>2. QED
      BY <3>1 DEF StatusInv, LoadedInv
  <2>3. ASSUME NEW j \in Jobs
        PROVE  Agrees(j, docs[j], docs[j].status)
    BY <2>2 DEF StatusInv, AgreeInv, Held, Agrees
  <2>4. OpsInv'
    BY <2>1 DEF OpsInv, NoPatch
  <2>5. QED
    BY <2>1, <2>3, <2>4 DEF AgreeInv, Agrees, Held, LoadedInv
<1>7. CASE SavePatch
  <2>1. patch' = NoPatch /\ NoPatch.job \notin Jobs
    BY <1>7, SchedulerAssumption DEF SavePatch, NoPatch
  <2>2. ASSUME NEW j \in Jobs
        PROVE  Agrees(j, docs'[j], docs'[j].status)
    <3>1. CASE j # patch.job
      BY <1>7, <3>1 DEF SavePatch, StatusInv, TypeOK, AgreeInv, Agrees, Held
    <3>2. CASE j = patch.job /\ patch.status = patch.loaded
      BY <1>7, <3>2
         DEF SavePatch, StatusInv, AgreeInv, Agrees, Held, LoadedInv
    <3>3. CASE j = patch.job /\ patch.status # patch.loaded
      <4>1. docs'[j] = Saved(docs[j], patch.status)
        BY <1>7, <3>3 DEF SavePatch, StatusInv, TypeOK
      <4>2. /\ docs'[j].status = patch.status
            /\ docs'[j].next_run = docs[j].next_run
            /\ docs'[j].state = "whole" => docs[j].state = "whole"
        BY <4>1 DEF Saved, StatusInv, TypeOK, JobDocs
      <4>3. Agrees(j, docs[j], patch.status)
        BY <3>3 DEF StatusInv, AgreeInv, Held
      <4>4. QED
        BY <4>2, <4>3 DEF Agrees
    <3>4. QED
      BY <3>1, <3>2, <3>3
  <2>3. OpsInv'
    BY <2>1 DEF OpsInv, NoPatch
  <2>4. QED
    BY <2>1, <2>2, <2>3 DEF AgreeInv, Agrees, Held, LoadedInv
<1>8. CASE ProcessJobs
  <2>1. PICK next \in [Due -> Times] :
            /\ \A j \in Due : next[j] \in NextFires(j, TRUE)
            /\ docs' = [j \in Jobs |->
                   IF j \in Due THEN Stored(docs[j], next[j]) ELSE docs[j]]
    BY <1>8 DEF ProcessJobs
  <2>2. ASSUME NEW j \in Due, docs'[j].state = "whole"
        PROVE  /\ docs[j].state = "whole"
               /\ docs'[j].status = docs[j].status
               /\ Agrees(j, docs'[j], Held(j))
    <3>1. j \in Jobs /\ docs[j].next_run = "due"
      BY DEF Due
    <3>2. next[j] # "none" /\ docs'[j] = [docs[j] EXCEPT !.next_run = next[j]]
      BY <2>1, <2>2, <3>1, GoneType DEF Stored
    <3>3. /\ docs[j].state = "whole"
          /\ docs'[j].status = docs[j].status
          /\ docs'[j].next_run # "none"
      BY <2>2, <3>1, <3>2 DEF StatusInv, TypeOK, JobDocs
    <3>4. Agrees(j, docs[j], Held(j))
      BY <3>1 DEF StatusInv, AgreeInv
    <3>5. QED
      BY <3>1, <3>3, <3>4 DEF Agrees
  <2>3. patch' = patch /\ DOMAIN docs' = Jobs
    BY <1>8, <2>1 DEF ProcessJobs
  <2>4. \A j \in Jobs : j \notin Due => docs'[j] = docs[j]
    BY <2>1
  <2>5. QED
    BY <2>2, <2>3, <2>4, NextRunStep
<1>9. ASSUME NEW k \in Jobs, NEW i \in Instances(k), RescheduleJob(k, i)
      PROVE  Kept
  <2>1. PICK next \in NextFires(k, FALSE) :
            docs' = [docs EXCEPT ![k] = Rescheduled(docs[k], next)]
    BY <1>9 DEF RescheduleJob
  <2>2. k \in ResettingJobs
    BY <1>9 DEF RescheduleJob, StatusInv, CheckedInv
  <2>3. docs[k].state = "whole" =>
            /\ docs'[k].state = "whole"
            /\ docs'[k].status = docs[k].status
            /\ docs'[k].next_run = next
    BY <2>1 DEF Rescheduled, StatusInv, TypeOK, JobDocs
  <2>4. k \notin EndingJobs => next # "none"
    BY <2>1, FiresAgain
  <2>5. docs[k].state = "whole" => Agrees(k, docs'[k], Held(k))
    BY <2>2, <2>3, <2>4 DEF Agrees
  <2>6. docs[k].state # "whole" => docs'[k] = docs[k]
    BY <2>1 DEF Rescheduled, StatusInv, TypeOK
  <2>7. \A j \in Jobs : j # k => docs'[j] = docs[j]
    BY <2>1 DEF StatusInv, TypeOK
  <2>8. patch' = patch /\ DOMAIN docs' = Jobs
    BY <1>9, <2>1 DEF RescheduleJob, StatusInv, TypeOK
  <2>9. QED
    BY <2>3, <2>5, <2>6, <2>7, <2>8, NextRunStep
<1>10. ASSUME NEW k \in Jobs, ComesDue(k)
       PROVE  Kept
  <2>1. /\ docs[k].next_run = "later"
        /\ docs' = [docs EXCEPT ![k] = [docs[k] EXCEPT !.next_run = "due"]]
    BY <1>10 DEF ComesDue
  <2>2. /\ docs'[k].state = docs[k].state
        /\ docs'[k].status = docs[k].status
        /\ docs'[k].next_run = "due"
    BY <2>1 DEF StatusInv, TypeOK, JobDocs
  <2>3. Agrees(k, docs'[k], Held(k))
    BY <2>1, <2>2 DEF StatusInv, AgreeInv, Agrees
  <2>4. \A j \in Jobs : j # k => docs'[j] = docs[j]
    BY <2>1 DEF StatusInv, TypeOK
  <2>5. patch' = patch /\ DOMAIN docs' = Jobs
    BY <1>10, <2>1 DEF ComesDue, StatusInv, TypeOK
  <2>6. docs'[k].state = "whole" => docs[k].state = "whole"
    BY <2>2
  <2>7. QED
    BY <2>2, <2>3, <2>4, <2>5, <2>6, NextRunStep
<1>11. CASE Restart
  BY <1>11, PoolStep DEF Restart, SoundPatches, IOLoopFree
<1>12. CASE UNCHANGED <<docs, patch>>
  BY <1>12, PoolStep
<1>13. QED
  BY <1>1, <1>2, <1>3, <1>4, <1>5, <1>6, <1>7, <1>8, <1>9, <1>10, <1>11, <1>12
     DEF Next, Listed, PatchNext, RunNext, StartRun, MissRun, CheckJob, CreateFails,
         DatePasses, vars

\* Both, with the types and what PATCHes rely on.
LEMMA StatusHolds ==
    ASSUME SoundPatches
    PROVE  Spec => [](StatusInv /\ PatchHolds)
<1>1. Init => AgreeInv /\ LoadedInv /\ OpsInv /\ CheckedInv /\ PatchHolds
  BY StatusInit, SchedulerAssumption DEF Init, NoPatch, PatchHolds
<1>2. TypeOK /\ PatchHolds /\ AgreeInv /\ LoadedInv /\ OpsInv /\ CheckedInv
          /\ [Next]_vars
      => PatchHolds' /\ AgreeInv' /\ LoadedInv' /\ OpsInv' /\ CheckedInv'
  BY StateStep, StatusStep DEF StatusInv
<1>3. QED
  BY <1>1, <1>2, TypeCorrect, PTL DEF Spec, StatusInv

\* Between PATCHes, a job without an end that says RUNNING has a next run,
\* whatever the pool and the scheduler do between the operations of a PATCH
\* (RunningJobIsScheduled).
THEOREM RunningJobsAreScheduled ==
    ASSUME SoundPatches
    PROVE  Spec => []RunningJobIsScheduled
<1>1. StatusInv => RunningJobIsScheduled
  BY DEF StatusInv, AgreeInv, Agrees, Held, Says, RunningJobIsScheduled
<1>2. QED
  BY <1>1, StatusHolds, PTL

(***************************************************************************)
(* A pause holds.                                                          *)
(***************************************************************************)

\* A step after which the job has the status it had and no new next run.
LEMMA SameStatusStep ==
    ASSUME NEW j, InStep(j), Held(j)' = Held(j),
           docs'[j].next_run = docs[j].next_run
    PROVE  InStep(j)'
BY DEF InStep

\* What one step does to a job that run_job does not reschedule.
LEMMA PauseStep ==
    ASSUME SoundPatches, StatusInv, [Next]_vars,
           NEW j \in Jobs \ ResettingJobs,
           docs[j].state = "whole", docs'[j].state = "whole", InStep(j)
    PROVE  InStep(j)'
<1>1. CASE UNCHANGED <<docs, patch>>
  BY <1>1 DEF InStep, Held
<1>2. ASSUME NEW k \in Jobs, Listed(k)
      PROVE  InStep(j)'
  <2>1. docs'[j] = docs[j] /\ patch' = patch
    <3>1. k # j
      BY <1>2, GoneType DEF Listed, PostJob, DeleteJob, StatusInv, TypeOK
    <3>2. QED
      BY <1>2, <3>1 DEF Listed, PostJob, DeleteJob, StatusInv, TypeOK
  <2>2. QED
    BY <2>1, SameStatusStep DEF Held
<1>3. ASSUME NEW k \in Jobs, NEW ops \in PatchBodies, BeginPatch(k, ops)
      PROVE  InStep(j)'
  <2>1. /\ patch.job # j /\ docs' = docs
        /\ patch'.job = j => patch'.status = docs[j].status
    BY <1>3, SchedulerAssumption DEF BeginPatch, IOLoopFree, NoPatch
  <2>2. QED
    BY <2>1, SameStatusStep DEF Held
<1>4. CASE PauseOp
  <2>1. /\ docs' = [docs EXCEPT ![patch.job] =
                        [docs[patch.job] EXCEPT !.next_run = "none"]]
        /\ patch'.job = patch.job
    BY <1>4 DEF PauseOp, NextOp, StatusInv, TypeOK, Patches
  <2>2. CASE patch.job = j
    BY <2>1, <2>2 DEF InStep, StatusInv, TypeOK, JobDocs
  <2>3. CASE patch.job # j
    BY <2>1, <2>3, SameStatusStep DEF Held, StatusInv, TypeOK
  <2>4. QED
    BY <2>2, <2>3
<1>5. CASE ResumeOp
  <2>1. PICK next :
            docs' = [docs EXCEPT ![patch.job] =
                        IF next = "none" THEN Gone
                        ELSE [docs[patch.job] EXCEPT !.next_run = next]]
    BY <1>5 DEF ResumeOp
  <2>2. patch'.job = patch.job /\ patch'.status = "RUNNING"
    BY <1>5 DEF ResumeOp, NextOp, StatusInv, TypeOK, Patches
  <2>3. CASE patch.job = j
    BY <2>2, <2>3 DEF InStep, Held
  <2>4. CASE patch.job # j
    BY <2>1, <2>2, <2>4, SameStatusStep DEF Held, StatusInv, TypeOK
  <2>5. QED
    BY <2>3, <2>4
<1>6. CASE RefuseOp
  <2>1. docs' = docs /\ patch' = NoPatch /\ NoPatch.job \notin Jobs
    BY <1>6, SchedulerAssumption DEF RefuseOp, NoPatch
  <2>2. patch.job = j => docs[j].status = patch.status
    <3>1. ASSUME patch.job = j
          PROVE  patch.status = patch.loaded
      <4>1. patch.ops \in Seq(JobOps) /\ patch.ops # <<>>
        BY <1>6 DEF RefuseOp, StatusInv, TypeOK, Patches
      <4>2. 1 \in DOMAIN patch.ops /\ patch.ops[1] = "invalid"
        BY <1>6, <3>1, <4>1 DEF RefuseOp
      <4>3. QED
        BY <4>2 DEF StatusInv, OpsInv
    <3>2. QED
      BY <3>1 DEF StatusInv, LoadedInv
  <2>3. Held(j)' = Held(j)
    BY <2>1, <2>2 DEF Held
  <2>4. QED
    BY <2>1, <2>3, SameStatusStep
<1>7. CASE SavePatch
  <2>1. patch' = NoPatch /\ NoPatch.job \notin Jobs
    BY <1>7, SchedulerAssumption DEF SavePatch, NoPatch
  <2>2. CASE j # patch.job
    <3>1. docs'[j] = docs[j]
      BY <1>7, <2>2 DEF SavePatch, StatusInv, TypeOK
    <3>2. QED
      BY <2>1, <2>2, <3>1, SameStatusStep DEF Held
  <2>3. CASE j = patch.job /\ patch.status = patch.loaded
    <3>1. docs' = docs
      BY <1>7, <2>3 DEF SavePatch
    <3>2. docs[j].status = patch.status
      BY <2>3 DEF StatusInv, LoadedInv
    <3>3. QED
      BY <2>1, <2>3, <3>1, <3>2, SameStatusStep DEF Held
  <2>4. CASE j = patch.job /\ patch.status # patch.loaded
    <3>1. docs'[j] = Saved(docs[j], patch.status)
      BY <1>7, <2>4 DEF SavePatch, StatusInv, TypeOK
    <3>2. docs'[j].status = patch.status /\ docs'[j].next_run = docs[j].next_run
      BY <3>1 DEF Saved, StatusInv, TypeOK, JobDocs
    <3>3. QED
      BY <2>1, <2>4, <3>2, SameStatusStep DEF Held
  <2>5. QED
    BY <2>2, <2>3, <2>4
<1>8. CASE ProcessJobs
  <2>1. PICK next \in [Due -> Times] :
            docs' = [k \in Jobs |->
                   IF k \in Due THEN Stored(docs[k], next[k]) ELSE docs[k]]
    BY <1>8 DEF ProcessJobs
  <2>2. patch' = patch
    BY <1>8 DEF ProcessJobs
  <2>3. CASE j \in Due
    <3>1. docs[j].next_run = "due"
      BY <2>3 DEF Due
    <3>2. docs'[j] = [docs[j] EXCEPT !.next_run = next[j]]
      BY <2>1, <2>3, GoneType DEF Stored
    <3>3. docs'[j].status = docs[j].status
      BY <3>2 DEF StatusInv, TypeOK, JobDocs
    <3>4. QED
      BY <2>2, <3>1, <3>3 DEF InStep, Held
  <2>4. CASE j \notin Due
    <3>1. docs'[j] = docs[j]
      BY <2>1, <2>4
    <3>2. QED
      BY <2>2, <3>1, SameStatusStep DEF Held
  <2>5. QED
    BY <2>3, <2>4
<1>9. ASSUME NEW k \in Jobs, NEW i \in Instances(k), RescheduleJob(k, i)
      PROVE  InStep(j)'
  <2>1. k \in ResettingJobs
    BY <1>9 DEF RescheduleJob, StatusInv, CheckedInv
  <2>2. PICK next : docs' = [docs EXCEPT ![k] = Rescheduled(docs[k], next)]
    BY <1>9 DEF RescheduleJob
  <2>3. docs'[j] = docs[j] /\ patch' = patch
    BY <1>9, <2>1, <2>2 DEF RescheduleJob, StatusInv, TypeOK
  <2>4. QED
    BY <2>3, SameStatusStep DEF Held
<1>10. ASSUME NEW k \in Jobs, ComesDue(k)
       PROVE  InStep(j)'
  <2>1. /\ docs[k].next_run = "later"
        /\ docs' = [docs EXCEPT ![k] = [docs[k] EXCEPT !.next_run = "due"]]
        /\ patch' = patch
    BY <1>10 DEF ComesDue
  <2>2. docs'[j].status = docs[j].status
    BY <2>1 DEF StatusInv, TypeOK, JobDocs
  <2>3. k # j => docs'[j] = docs[j]
    BY <2>1 DEF StatusInv, TypeOK
  <2>4. QED
    BY <2>1, <2>2, <2>3 DEF InStep, Held
<1>11. CASE Restart
  BY <1>11, <1>1 DEF Restart, SoundPatches, IOLoopFree
<1>12. QED
  BY <1>1, <1>2, <1>3, <1>4, <1>5, <1>6, <1>7, <1>8, <1>9, <1>10, <1>11
     DEF Next, Listed, PatchNext, RunNext, StartRun, MissRun, CheckJob, CreateFails,
         DatePasses, vars

\* A job that run_job does not reschedule and that is in step with its status
\* stays so for as long as it exists: once it is paused it has no next run until
\* a PATCH resumes it, whatever runs are left in the pool (PauseHolds).
THEOREM PausesHold ==
    ASSUME SoundPatches
    PROVE  Spec => PauseHolds
<1>1. StatusInv /\ [Next]_vars =>
          [\A j \in Jobs \ ResettingJobs :
               docs[j].state = "whole" /\ docs'[j].state = "whole" /\ InStep(j)
                   => InStep(j)']_vars
  BY PauseStep
<1>2. QED
  BY <1>1, StatusHolds, PTL DEF Spec, PauseHolds

=============================================================================
