------------------------- MODULE RequestCountsProofs -------------------------
(***************************************************************************)
(* That the gauges, the run counts of jobs and the webhooks tell what      *)
(* became of the requests: for every set of requests, jobs and values, and *)
(* each under the assumptions on the surroundings that it needs.           *)
(***************************************************************************)
EXTENDS RequestContractProofs

\* A document deleted for a lost answer keeps its place in every count.
AnswersArrive == "rpc_loss" \notin Surroundings

\* Bartender cancels past RequestAPI, which counts.
QueuesKept == "clears" \notin Surroundings

\* A PATCH that dies after its save counts and tells nothing.
PatchesEnd == "crashes" \notin Surroundings

-----------------------------------------------------------------------------
(***************************************************************************)
(* Counting.                                                               *)
(***************************************************************************)

\* Two sets of requests that differ at most in one request.
LEMMA CountChange ==
    ASSUME NEW S \in SUBSET RequestIds, NEW T \in SUBSET RequestIds,
           NEW r \in RequestIds,
           \A q \in RequestIds : q # r => (q \in S <=> q \in T)
    PROVE  /\ Cardinality(S) \in Nat
           /\ Cardinality(T) = Cardinality(S) - (IF r \in S THEN 1 ELSE 0)
                                              + (IF r \in T THEN 1 ELSE 0)
<1>1. IsFiniteSet(S) /\ IsFiniteSet(T)
  BY FS_Subset, LifecycleAssumption
<1>2. Cardinality(S) \in Nat /\ Cardinality(T) \in Nat
  BY <1>1, FS_CardinalityType
<1>3. S \ {r} = T \ {r}
  OBVIOUS
<1>4. Cardinality(S \ {r}) = IF r \in S THEN Cardinality(S) - 1 ELSE Cardinality(S)
  BY <1>1, FS_RemoveElement
<1>5. Cardinality(T \ {r}) = IF r \in T THEN Cardinality(T) - 1 ELSE Cardinality(T)
  BY <1>1, FS_RemoveElement
<1>6. Cardinality(S \ {r}) = Cardinality(T \ {r})
  BY <1>3, Zenon
<1>7. QED
  BY <1>2, <1>4, <1>5, <1>6

\* The documents in a status, when one document changes.
LEMMA StatusCount ==
    ASSUME NEW r \in RequestIds, NEW status,
           \A q \in RequestIds : q # r => requests'[q] = requests[q]
    PROVE  /\ Cardinality(InStatus(requests, status)) \in Nat
           /\ Cardinality(InStatus(requests', status)) =
                  Cardinality(InStatus(requests, status))
                      - (IF requests[r].status = status THEN 1 ELSE 0)
                      + (IF requests'[r].status = status THEN 1 ELSE 0)
<1> DEFINE S == InStatus(requests, status)
           T == InStatus(requests', status)
<1>1. S \in SUBSET RequestIds /\ T \in SUBSET RequestIds
  BY DEF InStatus
<1>2. \A q \in RequestIds : q # r => (q \in S <=> q \in T)
  BY DEF InStatus
<1>3. (r \in S <=> requests[r].status = status) /\ (r \in T <=> requests'[r].status = status)
  BY DEF InStatus
<1>4. /\ Cardinality(S) \in Nat
      /\ Cardinality(T) = Cardinality(S) - (IF r \in S THEN 1 ELSE 0)
                                         + (IF r \in T THEN 1 ELSE 0)
  <2> HIDE DEF S, T
  <2>1. QED
    BY <1>1, <1>2, CountChange
<1>5. QED
  BY <1>3, <1>4

-----------------------------------------------------------------------------
(***************************************************************************)
(* What each action does to a document, to the gauges and to the jobs.     *)
(***************************************************************************)

Dispatching(r) == handler[r] = "dispatching"

\* The status of a document before and after a step, and its place among the
\* POSTs that are dispatching.
Moves(r, before, after) == requests[r].status = before /\ requests'[r].status = after

\* A POST that has not reached Bartender may end here with its document saved.
Born(r) ==
    /\ Moves(r, "none", "CREATED")
    /\ ~Dispatching(r) /\ (Dispatching(r)' \/ ~Reachable)
    /\ UNCHANGED <<gauges, jobs>>

\* The POST resumes and counts the request as queued.
Counted(r) ==
    /\ Dispatching(r) /\ ~Dispatching(r)'
    /\ gauges' = [gauges EXCEPT !.queued = @ + 1]
    /\ UNCHANGED <<requests, jobs>>

\* Only a request whose answer was lost may have gone on from CREATED.
Withdrawn(r) ==
    /\ Dispatching(r) /\ ~Dispatching(r)'
    /\ requests'[r] = Missing
    /\ requests[r].status = "CREATED" \/ ~AnswersArrive
    /\ UNCHANGED <<gauges, jobs>>

Cleared(r) ==
    /\ Moves(r, "CREATED", "CANCELED") /\ Dispatching(r)' = Dispatching(r)
    /\ UNCHANGED <<gauges, jobs>>
    /\ ~QueuesKept

\* An update of the plugin that the request had not seen before.
Progressed(r) ==
    /\ \/ Moves(r, "CREATED", "IN_PROGRESS")
       \/ Moves(r, "IN_PROGRESS", "SUCCESS")
       \/ Moves(r, "IN_PROGRESS", "ERROR")
    /\ requests'[r].job = requests[r].job
    /\ Dispatching(r)' = Dispatching(r)
    /\ gauges' = UpdatedGauges(requests[r].status, requests'[r].status)
    /\ jobs' = UpdatedJobs(requests[r].job, requests[r].status, requests'[r].status)

Still(r) ==
    /\ requests'[r] = requests[r] /\ Dispatching(r)' = Dispatching(r)
    /\ UNCHANGED <<gauges, jobs>>

Effect(r) ==
    Born(r) \/ Counted(r) \/ Withdrawn(r) \/ Cleared(r) \/ Progressed(r) \/ Still(r)

\* The handler of the POST.
LEMMA PostEffect ==
    ASSUME TypeOK, NEW r \in RequestIds, Story(r), RequestListNext(r)
    PROVE  Effect(r)
<1>1. ASSUME NEW c, NEW j, Post(r, c, j) \/ PostUnreachable(r, c, j)
      PROVE  Born(r)
  <2>1. AcceptPost(r, c, j) /\ UNCHANGED <<gauges, jobs>>
    BY <1>1 DEF Post, PostUnreachable
  <2>2. handler[r] = "idle" /\ requests[r] = Missing /\ requests'[r] = NewDoc(j)
    BY <2>1 DEF AcceptPost, Story, NotPosted, TypeOK
  <2>3. NewDoc(j).status = "CREATED" /\ Missing.status = "none"
    BY DEF NewDoc, Missing
  <2>4. handler'[r] = "dispatching" \/ ~Reachable
    BY <1>1 DEF Post, PostUnreachable, Mishap, Reachable, TypeOK
  <2>5. QED
    BY <2>1, <2>2, <2>3, <2>4 DEF Born, Moves, Dispatching
<1>2. CASE Dispatched(r)
  <2>1. handler'[r] \in {"waiting", "done"}
    BY <1>2 DEF Dispatched, FinishReloaded, Finish, TypeOK
  <2>2. QED
    BY <1>2, <2>1 DEF Dispatched, Effect, Counted, Dispatching
<1>3. CASE DispatchRefused(r) \/ DispatchLost(r)
  <2>1. \E code : Withdraw(r, code)
    BY <1>3 DEF DispatchRefused, DispatchLost
  <2>2. /\ handler[r] = "dispatching" /\ handler'[r] = "done" /\ requests'[r] = Missing
        /\ UNCHANGED <<gauges, jobs>>
    BY <2>1 DEF Withdraw, TypeOK
  <2>3. requests[r].status = "CREATED" \/ ~AnswersArrive
    BY <1>3 DEF DispatchRefused, DispatchLost, Mishap, AnswersArrive, Story, BartenderStage
  <2>4. QED
    BY <2>2, <2>3 DEF Effect, Withdrawn, Dispatching
<1>4. CASE Wake(r) \/ Expire(r)
  <2>1. handler[r] = "waiting" /\ handler'[r] = "done" /\ UNCHANGED <<requests, gauges, jobs>>
    BY <1>4 DEF Wake, Expire, FinishReloaded, Finish, TypeOK
  <2>2. QED
    BY <2>1 DEF Effect, Still, Dispatching
<1>5. QED
  BY <1>1, <1>2, <1>3, <1>4 DEF RequestListNext, Effect

\* Bartender, before and behind the handler's back.
LEMMA BackendEffect ==
    ASSUME TypeOK, NEW r \in RequestIds, Story(r), BackendNext(r)
    PROVE  Effect(r)
<1>1. UNCHANGED <<handler, gauges, jobs>>
  BY DEF BackendNext, BackendAccepts, BackendRefuses, MessageCleared
<1>2. CASE UNCHANGED requests
  BY <1>1, <1>2 DEF Effect, Still, Dispatching
<1>3. CASE MessageCleared(r) /\ Exists(r)
  <2>1. requests[r].status = "CREATED" /\ requests[r] \in Docs
    BY <1>3, ExistingDoc DEF MessageCleared, Story, PluginStage
  <2>2. requests' = [requests EXCEPT ![r] = [requests[r] EXCEPT !.status = "CANCELED"]]
    BY <1>3 DEF MessageCleared
  <2>3. requests'[r].status = "CANCELED"
    BY <2>1, <2>2 DEF TypeOK, Docs
  <2>4. ~QueuesKept
    BY <1>3 DEF MessageCleared, Mishap, QueuesKept
  <2>5. QED
    BY <1>1, <2>1, <2>3, <2>4 DEF Effect, Cleared, Moves, Dispatching
<1>4. QED
  BY <1>2, <1>3 DEF BackendNext, BackendAccepts, BackendRefuses, MessageCleared

\* The document that an update of the plugin leaves.
LEMMA UpdatedDoc ==
    ASSUME NEW doc \in Docs, NEW ops
    PROVE  PatchedDoc(doc, ops).job = doc.job
BY DEF PatchedDoc, Docs

\* The plugin: a repeated update changes and counts nothing.
LEMMA PluginEffect ==
    ASSUME TypeOK, NEW r \in RequestIds, Story(r),
           PluginStarts(r) \/ PluginFinishes(r) \/ PluginRetries(r)
    PROVE  Effect(r)
<1>1. UNCHANGED handler
  BY DEF PluginStarts, PluginFinishes, PluginRetries, ServePatch
<1>2. CASE UNCHANGED <<requests, gauges, jobs>>
  BY <1>1, <1>2 DEF Effect, Still, Dispatching
<1>3. ASSUME Exists(r), NEW ops, ApplyPatch(r, ops),
             \/ /\ ops = StartPatch /\ plugin[r] \in {"queued", "running"}
             \/ /\ ops \in FinishPatches
                /\ plugin[r] = "running" \/ PatchedDoc(requests[r], ops) = requests[r]
      PROVE  Effect(r)
  <2>1. requests[r] \in Docs
    BY <1>3, ExistingDoc
  <2>2. /\ requests'[r] = PatchedDoc(requests[r], ops)
        /\ gauges' = UpdatedGauges(requests[r].status, requests'[r].status)
        /\ jobs' = UpdatedJobs(requests[r].job, requests[r].status, requests'[r].status)
    BY <1>3 DEF ApplyPatch, TypeOK
  <2>3. requests'[r].job = requests[r].job
    BY <2>1, <2>2, UpdatedDoc
  <2>4. CASE requests'[r] = requests[r]
    BY <1>1, <2>2, <2>4 DEF UpdatedGauges, UpdatedJobs, Effect, Still, Dispatching
  <2>5. CASE requests'[r] # requests[r]
    <3>1. CASE ops = StartPatch
      <4>1. PatchedDoc(requests[r], ops) = [requests[r] EXCEPT !.status = "IN_PROGRESS"]
        BY <2>1, <3>1, StartPatchResult
      <4>2. requests'[r].status = "IN_PROGRESS"
        BY <2>1, <2>2, <4>1 DEF Docs
      <4>3. requests[r].status = "IN_PROGRESS" => requests'[r] = requests[r]
        BY <2>1, <2>2, <4>1 DEF Docs
      <4>4. requests[r].status \in {"CREATED", "IN_PROGRESS"}
        BY <1>3, <2>2, <2>5 DEF Story, PluginStage
      <4>5. QED
        BY <1>1, <2>2, <2>3, <2>5, <4>2, <4>3, <4>4
           DEF Effect, Progressed, Moves, Dispatching
    <3>2. CASE ops \in FinishPatches /\ plugin[r] = "running"
      <4>1. requests[r].status = "IN_PROGRESS"
        BY <1>3, <3>2 DEF Story, PluginStage
      <4>2. requests'[r].status \in {"SUCCESS", "ERROR"}
        BY <2>1, <2>2, <3>2, FinishedStatus
      <4>3. QED
        BY <1>1, <2>2, <2>3, <4>1, <4>2 DEF Effect, Progressed, Moves, Dispatching
    <3>3. QED
      BY <1>3, <2>2, <2>5, <3>1, <3>2
  <2>6. QED
    BY <2>4, <2>5
<1>4. QED
  BY <1>2, <1>3 DEF PluginStarts, PluginFinishes, PluginRetries, ServePatch

\* Together.
LEMMA ActionEffect ==
    ASSUME TypeOK, StoryInv, NEW r \in RequestIds, ActionOf(r)
    PROVE  /\ Effect(r)
           /\ \A q \in RequestIds : q # r =>
                  requests'[q] = requests[q] /\ Dispatching(q)' = Dispatching(q)
<1>1. Story(r)
  BY DEF StoryInv
<1>2. Effect(r)
  BY <1>1, PostEffect, BackendEffect, PluginEffect DEF ActionOf
<1>3. \A q \in RequestIds : q # r => Untouched(q)
  BY OthersUntouched
<1>4. QED
  BY <1>2, <1>3 DEF Untouched, Dispatching

\* After a restart, with or without a crash, the gauges are counted afresh.
LEMMA RestartEffect ==
    ASSUME TypeOK, Restart \/ \E r \in RequestIds : CrashInPatch(r)
    PROVE  /\ gauges' = InitialCounts(requests')
           /\ \A q \in RequestIds : ~Dispatching(q)'
           /\ UNCHANGED jobs
<1>1. ProcessRestarts(requests')
  BY DEF Restart, CrashInPatch
<1>2. \A q \in RequestIds : handler'[q] # "dispatching"
  BY <1>1 DEF ProcessRestarts, Live
<1>3. QED
  BY <1>1, <1>2 DEF ProcessRestarts, Dispatching

-----------------------------------------------------------------------------
(***************************************************************************)
(* The gauges.                                                             *)
(***************************************************************************)

\* The requests whose POST is dispatching.
DispatchingSet == {r \in RequestIds : handler[r] = "dispatching"}

\* One POST more or less is dispatching.
LEMMA DispatchingCount ==
    ASSUME NEW r \in RequestIds,
           \A q \in RequestIds : q # r => Dispatching(q)' = Dispatching(q)
    PROVE  /\ Cardinality(DispatchingSet) \in Nat
           /\ Cardinality(DispatchingSet') =
                  Cardinality(DispatchingSet) - (IF Dispatching(r) THEN 1 ELSE 0)
                                              + (IF Dispatching(r)' THEN 1 ELSE 0)
<1> DEFINE S == DispatchingSet
           T == DispatchingSet'
<1>1. S \in SUBSET RequestIds /\ T \in SUBSET RequestIds
  BY DEF DispatchingSet
<1>2. \A q \in RequestIds : q # r => (q \in S <=> q \in T)
  BY DEF DispatchingSet, Dispatching
<1>3. (r \in S <=> Dispatching(r)) /\ (r \in T <=> Dispatching(r)')
  BY DEF DispatchingSet, Dispatching
<1>4. /\ Cardinality(S) \in Nat
      /\ Cardinality(T) = Cardinality(S) - (IF r \in S THEN 1 ELSE 0)
                                         + (IF r \in T THEN 1 ELSE 0)
  <2> HIDE DEF S, T
  <2>1. QED
    BY <1>1, <1>2, CountChange
<1>5. QED
  BY <1>3, <1>4

\* The gauges follow an action on one request.
LEMMA GaugesFollow ==
    ASSUME AnswersArrive, QueuesKept, Reachable, TypeOK, StoryInv, GaugesExact,
           NEW r \in RequestIds, ActionOf(r)
    PROVE  GaugesExact'
<1> DEFINE queued == Cardinality(InStatus(requests, "CREATED"))
           running == Cardinality(InStatus(requests, "IN_PROGRESS"))
           posts == Cardinality(DispatchingSet)
           before == requests[r].status
           after == requests'[r].status
<1>1. /\ Effect(r)
      /\ \A q \in RequestIds : q # r =>
             requests'[q] = requests[q] /\ Dispatching(q)' = Dispatching(q)
  BY ActionEffect
<1>2. /\ queued \in Nat
      /\ queued' = queued - (IF before = "CREATED" THEN 1 ELSE 0)
                          + (IF after = "CREATED" THEN 1 ELSE 0)
  BY <1>1, StatusCount
<1>3. /\ running \in Nat
      /\ running' = running - (IF before = "IN_PROGRESS" THEN 1 ELSE 0)
                            + (IF after = "IN_PROGRESS" THEN 1 ELSE 0)
  BY <1>1, StatusCount
<1>4. /\ posts \in Nat
      /\ posts' = posts - (IF Dispatching(r) THEN 1 ELSE 0)
                        + (IF Dispatching(r)' THEN 1 ELSE 0)
  BY <1>1, DispatchingCount
<1>5. /\ gauges.queued = queued - posts /\ gauges.in_progress = running
      /\ gauges \in Gauges
  BY DEF GaugesExact, DispatchingSet, TypeOK
<1> HIDE DEF queued, running, posts
<1>6. gauges'.queued = queued' - posts' /\ gauges'.in_progress = running'
  <2>1. CASE Born(r)
    BY <2>1, <1>2, <1>3, <1>4, <1>5 DEF Born, Moves
  <2>2. CASE Counted(r)
    BY <2>2, <1>2, <1>3, <1>4, <1>5 DEF Counted, Gauges
  <2>3. CASE Withdrawn(r)
    BY <2>3, <1>2, <1>3, <1>4, <1>5 DEF Withdrawn, Missing
  <2>4. CASE Progressed(r)
    BY <2>4, <1>2, <1>3, <1>4, <1>5
       DEF Progressed, Moves, UpdatedGauges, COMPLETED_STATUSES, Gauges
  <2>5. CASE Still(r)
    BY <2>5, <1>2, <1>3, <1>4, <1>5 DEF Still
  <2>6. QED
    BY <1>1, <2>1, <2>2, <2>3, <2>4, <2>5 DEF Effect, Cleared
<1>7. QED
  BY <1>6 DEF GaugesExact, DispatchingSet, queued, running, posts

\* The gauges show how many requests are queued and in progress, whatever
\* Bartender refuses, plugins repeat and restarts and crashes cut short
\* (GaugesExact).
THEOREM GaugesAreExact ==
    ASSUME DeliveredOnce, OnlyPluginsPatch, Reachable, AnswersArrive, QueuesKept
    PROVE  Spec => []GaugesExact
<1>1. Init => GaugesExact
  <2> SUFFICES ASSUME Init PROVE GaugesExact
    OBVIOUS
  <2>1. /\ InStatus(requests, "CREATED") = {} /\ InStatus(requests, "IN_PROGRESS") = {}
        /\ \A q \in RequestIds : ~Dispatching(q)
    BY DEF Init, InStatus, Missing, Dispatching
  <2>2. /\ Cardinality(InStatus(requests, "CREATED")) = 0
        /\ Cardinality(InStatus(requests, "IN_PROGRESS")) = 0
    BY <2>1, FS_EmptySet
  <2>3. gauges.queued = 0 /\ gauges.in_progress = 0
    BY DEF Init
  <2>4. Cardinality({r \in RequestIds : handler[r] = "dispatching"}) = 0
    <3>1. {r \in RequestIds : handler[r] = "dispatching"} = {}
      BY <2>1 DEF Dispatching
    <3>2. QED
      BY <3>1, FS_EmptySet
  <2>5. QED
    BY <2>2, <2>3, <2>4 DEF GaugesExact
<1>2. TypeOK /\ StoryInv /\ GaugesExact /\ [Next]_vars => GaugesExact'
  <2> SUFFICES ASSUME TypeOK, StoryInv, GaugesExact, [Next]_vars
               PROVE  GaugesExact'
    OBVIOUS
  <2>1. CASE Restart \/ \E r \in RequestIds : CrashInPatch(r)
    <3>1. gauges' = InitialCounts(requests') /\ \A q \in RequestIds : ~Dispatching(q)'
      BY <2>1, RestartEffect
    <3>2. {r \in RequestIds : handler'[r] = "dispatching"} = {}
      BY <3>1 DEF Dispatching
    <3>3. Cardinality(InStatus(requests', "CREATED")) \in Nat
      BY FS_Subset, FS_CardinalityType, LifecycleAssumption DEF InStatus
    <3>4. Cardinality({r \in RequestIds : handler'[r] = "dispatching"}) = 0
      BY <3>2, FS_EmptySet
    <3>5. /\ gauges'.queued = Cardinality(InStatus(requests', "CREATED"))
          /\ gauges'.in_progress = Cardinality(InStatus(requests', "IN_PROGRESS"))
      BY <3>1 DEF InitialCounts
    <3>6. QED
      BY <3>3, <3>4, <3>5 DEF GaugesExact
  <2>2. CASE Unnoticed
    BY <2>2, UnnoticedKeeps DEF GaugesExact, InStatus
  <2>3. QED
    BY <2>1, <2>2, StepKinds, GaugesFollow
<1>3. QED
  BY <1>1, <1>2, StoryHolds, TypeCorrect, PTL DEF Spec

-----------------------------------------------------------------------------
(***************************************************************************)
(* The completions and the runs of jobs.                                   *)
(***************************************************************************)

\* The completed requests, when one document changes.
LEMMA CompletedCount ==
    ASSUME NEW r \in RequestIds,
           \A q \in RequestIds : q # r => requests'[q] = requests[q]
    PROVE  /\ Cardinality({q \in RequestIds : Completed(q)}) \in Nat
           /\ Cardinality({q \in RequestIds : Completed(q)}') =
                  Cardinality({q \in RequestIds : Completed(q)})
                      - (IF Completed(r) THEN 1 ELSE 0) + (IF Completed(r)' THEN 1 ELSE 0)
<1> DEFINE S == {q \in RequestIds : Completed(q)}
           T == S'
<1>1. S \in SUBSET RequestIds /\ T \in SUBSET RequestIds
  OBVIOUS
<1>2. \A q \in RequestIds : q # r => (q \in S <=> q \in T)
  BY DEF Completed
<1>3. (r \in S <=> Completed(r)) /\ (r \in T <=> Completed(r)')
  OBVIOUS
<1>4. /\ Cardinality(S) \in Nat
      /\ Cardinality(T) = Cardinality(S) - (IF r \in S THEN 1 ELSE 0)
                                         + (IF r \in T THEN 1 ELSE 0)
  <2> HIDE DEF S, T
  <2>1. QED
    BY <1>1, <1>2, CountChange
<1>5. QED
  BY <1>3, <1>4

\* However often a result is reported or a message comes late: the counter of
\* completions never runs ahead of the documents (NoCompletionCountedTwice).
THEOREM CompletionsCountOnce ==
    ASSUME DeliveredOnce, OnlyPluginsPatch, AnswersArrive
    PROVE  Spec => []NoCompletionCountedTwice
<1> DEFINE completed == Cardinality({r \in RequestIds : Completed(r)})
<1>1. completed \in Nat
  BY FS_Subset, FS_CardinalityType, LifecycleAssumption
<1>2. Init => NoCompletionCountedTwice
  BY <1>1 DEF Init, NoCompletionCountedTwice
<1>3. TypeOK /\ StoryInv /\ NoCompletionCountedTwice /\ [Next]_vars => NoCompletionCountedTwice'
  <2> SUFFICES ASSUME TypeOK, StoryInv, gauges.completed <= completed, [Next]_vars
               PROVE  gauges'.completed <= completed'
    BY DEF NoCompletionCountedTwice
  <2>1. CASE Restart \/ \E r \in RequestIds : CrashInPatch(r)
    <3>1. gauges'.completed = 0
      BY <2>1, RestartEffect DEF InitialCounts
    <3>2. completed' \in Nat
      BY FS_Subset, FS_CardinalityType, LifecycleAssumption
    <3>3. QED
      BY <3>1, <3>2
  <2>2. CASE Unnoticed
    BY <2>2, UnnoticedKeeps DEF Completed
  <2>3. ASSUME NEW r \in RequestIds, ActionOf(r)
        PROVE  gauges'.completed <= completed'
    <3>1. /\ Effect(r)
          /\ \A q \in RequestIds : q # r => requests'[q] = requests[q]
      BY <2>3, ActionEffect
    <3>2. completed' = completed - (IF Completed(r) THEN 1 ELSE 0)
                                 + (IF Completed(r)' THEN 1 ELSE 0)
      BY <3>1, CompletedCount
    <3>3. gauges \in Gauges
      BY DEF TypeOK
    <3> HIDE DEF completed
    <3>4. CASE Born(r) \/ Withdrawn(r) \/ Cleared(r) \/ Still(r)
      <4>1. UNCHANGED gauges /\ (Completed(r) => Completed(r)')
        BY <3>4 DEF Born, Withdrawn, Cleared, Still, Moves, Completed, COMPLETED_STATUSES,
                    AnswersArrive
      <4>2. QED
        BY <1>1, <3>2, <3>3, <4>1 DEF Gauges
    <3>5. CASE Counted(r)
      <4>1. gauges'.completed = gauges.completed /\ Completed(r)' = Completed(r)
        BY <3>3, <3>5 DEF Counted, Gauges, Completed
      <4>2. QED
        BY <1>1, <3>2, <3>3, <4>1 DEF Gauges
    <3>6. CASE Progressed(r)
      <4>1. /\ ~Completed(r)
            /\ gauges'.completed = gauges.completed + (IF Completed(r)' THEN 1 ELSE 0)
        BY <3>6 DEF Progressed, Moves, UpdatedGauges, Completed, COMPLETED_STATUSES
      <4>2. QED
        BY <1>1, <3>2, <3>3, <4>1 DEF Gauges
    <3>7. QED
      BY <3>1, <3>4, <3>5, <3>6 DEF Effect
  <2>4. QED
    BY <2>1, <2>2, <2>3, StepKinds
<1>4. QED
  BY <1>2, <1>3, StoryHolds, TypeCorrect, PTL DEF Spec

\* The requests of a job that ended in a status.
Ended(j, status) == {r \in InStatus(requests, status) : requests[r].job = j}

\* They change with one document.
LEMMA EndedCount ==
    ASSUME NEW j, NEW status, NEW r \in RequestIds,
           \A q \in RequestIds : q # r => requests'[q] = requests[q]
    PROVE  /\ Cardinality(Ended(j, status)) \in Nat
           /\ Cardinality(Ended(j, status)') =
                  Cardinality(Ended(j, status)) - (IF r \in Ended(j, status) THEN 1 ELSE 0)
                                                + (IF r \in Ended(j, status)' THEN 1 ELSE 0)
<1> DEFINE S == Ended(j, status)
           T == Ended(j, status)'
<1>1. S \in SUBSET RequestIds /\ T \in SUBSET RequestIds
  BY DEF Ended, InStatus
<1>2. \A q \in RequestIds : q # r => (q \in S <=> q \in T)
  BY DEF Ended, InStatus
<1> HIDE DEF S, T
<1>3. QED
  BY <1>1, <1>2, CountChange DEF S, T

\* What an update adds to the counts of a job.
LEMMA JobGains ==
    ASSUME TypeOK, NEW j \in JobIds, NEW job, NEW before, NEW after,
           jobs' = UpdatedJobs(job, before, after), job # NoJob => job \in JobIds
    PROVE  /\ jobs'[j].exists = jobs[j].exists
           /\ jobs[j].exists =>
                  /\ jobs'[j].success_count = jobs[j].success_count
                         + (IF job = j /\ before # after /\ after = "SUCCESS" THEN 1 ELSE 0)
                  /\ jobs'[j].error_count = jobs[j].error_count
                         + (IF job = j /\ before # after /\ after = "ERROR" THEN 1 ELSE 0)
<1>1. jobs[j] \in JobRecords /\ j # NoJob
  BY LifecycleAssumption DEF TypeOK
<1>2. CASE job # j \/ before = after \/ ~jobs[j].exists
  <2>1. jobs'[j] = jobs[j]
    BY <1>2 DEF UpdatedJobs
  <2>2. QED
    BY <1>1, <1>2, <2>1 DEF JobRecords
<1>3. CASE job = j /\ before # after /\ jobs[j].exists
  <2>1. jobs'[j] = [jobs[j] EXCEPT !.success_count = @ + (IF after = "SUCCESS" THEN 1 ELSE 0),
                                   !.error_count = @ + (IF after = "ERROR" THEN 1 ELSE 0)]
    BY <1>1, <1>3 DEF UpdatedJobs
  <2>2. QED
    BY <1>1, <1>3, <2>1 DEF JobRecords
<1>4. QED
  BY <1>2, <1>3

\* A job that is there counts as many runs of either outcome as there are
\* requests of it that ended so (JobTally).
THEOREM JobTallyExact ==
    ASSUME DeliveredOnce, OnlyPluginsPatch, AnswersArrive, PatchesEnd
    PROVE  Spec => []JobTally
<1> DEFINE Tally(j) == jobs[j].exists =>
               /\ jobs[j].success_count = Cardinality(Ended(j, "SUCCESS"))
               /\ jobs[j].error_count = Cardinality(Ended(j, "ERROR"))
<1>1. JobTally <=> \A j \in JobIds : Tally(j)
  BY DEF JobTally, Ended
<1>2. Init => JobTally
  <2> SUFFICES ASSUME Init, NEW j \in JobIds
               PROVE  /\ jobs[j].success_count = Cardinality(Ended(j, "SUCCESS"))
                      /\ jobs[j].error_count = Cardinality(Ended(j, "ERROR"))
    BY <1>1
  <2>1. Ended(j, "SUCCESS") = {} /\ Ended(j, "ERROR") = {}
    BY DEF Init, Ended, InStatus, Missing
  <2>2. jobs[j].success_count = 0 /\ jobs[j].error_count = 0
    BY DEF Init
  <2>3. QED
    BY <2>1, <2>2, FS_EmptySet
<1>3. TypeOK /\ StoryInv /\ JobTally /\ [Next]_vars => JobTally'
  <2> SUFFICES ASSUME TypeOK, StoryInv, \A k \in JobIds : Tally(k), [Next]_vars,
                      NEW j \in JobIds
               PROVE  Tally(j)'
    BY DEF JobTally, Ended
  <2>1. CASE Restart
    <3>1. UNCHANGED jobs
      BY <2>1, RestartEffect
    <3>2. QED
      BY <2>1, <3>1 DEF Restart, Ended, InStatus
  <2>2. ASSUME NEW r \in RequestIds, CrashInPatch(r)
        PROVE  FALSE
    BY <2>2 DEF CrashInPatch, BoundedMishap, PatchesEnd
  <2>3. CASE Unnoticed
    <3>1. UNCHANGED requests
      BY <2>3, UnnoticedKeeps
    <3>2. jobs'[j] = jobs[j] \/ ~jobs'[j].exists
      BY <2>3 DEF Unnoticed, RemoveJob, vars, TypeOK, JobRecords
    <3>3. QED
      BY <3>1, <3>2 DEF Ended, InStatus
  <2>4. ASSUME NEW r \in RequestIds, ActionOf(r)
        PROVE  Tally(j)'
    <3>1. /\ Effect(r)
          /\ \A q \in RequestIds : q # r => requests'[q] = requests[q]
      BY <2>4, ActionEffect
    <3>2. \A status \in {"SUCCESS", "ERROR"} :
              /\ Cardinality(Ended(j, status)) \in Nat
              /\ Cardinality(Ended(j, status)') =
                     Cardinality(Ended(j, status))
                         - (IF r \in Ended(j, status) THEN 1 ELSE 0)
                         + (IF r \in Ended(j, status)' THEN 1 ELSE 0)
      BY <3>1, EndedCount
    <3>3. \A status \in {"SUCCESS", "ERROR"} :
              /\ r \in Ended(j, status) <=> requests[r].status = status /\ requests[r].job = j
              /\ r \in Ended(j, status)' <=> requests'[r].status = status /\ requests'[r].job = j
      BY DEF Ended, InStatus
    <3>4. CASE Born(r) \/ Counted(r) \/ Withdrawn(r) \/ Cleared(r) \/ Still(r)
      <4>1. /\ UNCHANGED jobs
            /\ \A status \in {"SUCCESS", "ERROR"} :
                   r \in Ended(j, status) <=> r \in Ended(j, status)'
        BY <3>3, <3>4 DEF Born, Counted, Withdrawn, Cleared, Still, Moves, AnswersArrive, Missing
      <4>2. QED
        BY <3>2, <4>1
    <3>5. CASE Progressed(r)
      <4>1. requests[r].job # NoJob => requests[r].job \in JobIds
        BY <3>5 DEF Progressed, TypeOK, Docs, Missing
      <4>2. /\ jobs'[j].exists = jobs[j].exists
            /\ jobs[j].exists =>
                 /\ jobs'[j].success_count = jobs[j].success_count
                        + (IF r \in Ended(j, "SUCCESS")' THEN 1 ELSE 0)
                 /\ jobs'[j].error_count = jobs[j].error_count
                        + (IF r \in Ended(j, "ERROR")' THEN 1 ELSE 0)
        <5> DEFINE job == requests[r].job
                   before == requests[r].status
                   after == requests'[r].status
        <5>1. jobs' = UpdatedJobs(job, before, after) /\ before # after
          BY <3>5 DEF Progressed, Moves
        <5>2. \A status \in {"SUCCESS", "ERROR"} :
                  r \in Ended(j, status)' <=> after = status /\ job = j
          BY <3>3, <3>5 DEF Progressed
        <5> HIDE DEF job, before, after
        <5>3. /\ jobs'[j].exists = jobs[j].exists
              /\ jobs[j].exists =>
                  /\ jobs'[j].success_count = jobs[j].success_count
                         + (IF job = j /\ before # after /\ after = "SUCCESS" THEN 1 ELSE 0)
                  /\ jobs'[j].error_count = jobs[j].error_count
                         + (IF job = j /\ before # after /\ after = "ERROR" THEN 1 ELSE 0)
          BY <4>1, <5>1, JobGains DEF job
        <5>4. QED
          BY <5>1, <5>2, <5>3
      <4>3. r \notin Ended(j, "SUCCESS") /\ r \notin Ended(j, "ERROR")
        BY <3>3, <3>5 DEF Progressed, Moves
      <4>4. /\ Cardinality(Ended(j, "SUCCESS")') =
                   Cardinality(Ended(j, "SUCCESS")) + (IF r \in Ended(j, "SUCCESS")' THEN 1 ELSE 0)
            /\ Cardinality(Ended(j, "ERROR")') =
                   Cardinality(Ended(j, "ERROR")) + (IF r \in Ended(j, "ERROR")' THEN 1 ELSE 0)
        BY <3>2, <4>3
      <4>5. Tally(j)
        OBVIOUS
      <4>6. QED
        BY <4>2, <4>4, <4>5
    <3>6. QED
      BY <3>1, <3>4, <3>5 DEF Effect
  <2>5. QED
    BY <2>1, <2>2, <2>3, <2>4, StepKinds
<1>4. QED
  BY <1>2, <1>3, StoryHolds, TypeCorrect, PTL DEF Spec

-----------------------------------------------------------------------------
(***************************************************************************)
(* What the webhooks are told.                                             *)
(***************************************************************************)

\* The report of a start says so, and no error.
LEMMA StartTells == EventNames(StartPatch) = {"REQUEST_STARTED"}
<1>1. DOMAIN StartPatch = {1} /\ StartPatch[1] = [path |-> "status", value |-> "IN_PROGRESS"]
  BY DEF StartPatch, Op
<1>2. QED
  BY <1>1 DEF EventNames, NamedBy

\* A result is reported as a completion, and as a failure if it brings an error
\* class to a request that had none.
LEMMA FinishTells ==
    ASSUME NEW doc \in Docs, NEW ops \in FinishPatches
    PROVE  /\ EventNames(ops) = {"REQUEST_COMPLETED"}
           /\ PatchedDoc(doc, ops).status = "SUCCESS" => EventError(doc, ops) = FALSE
           /\ PatchedDoc(doc, ops).status = "ERROR" /\ doc.error_class = NoValue =>
                  EventError(doc, ops) = TRUE
<1>1. PICK v \in Values :
          \/ ops = <<Op("status", "SUCCESS"), Op("output", v)>>
          \/ ops = <<Op("status", "ERROR"), Op("output", v), Op("error_class", v)>>
  BY DEF FinishPatches
<1>2. PatchedDoc(doc, ops).status = FinalValue(doc, ops, "status")
  BY DEF PatchedDoc, Docs
<1>3. CASE ops = <<Op("status", "SUCCESS"), Op("output", v)>>
  <2>1. /\ DOMAIN ops = {1, 2}
        /\ ops[1] = [path |-> "status", value |-> "SUCCESS"]
        /\ ops[2] = [path |-> "output", value |-> v]
    BY <1>3 DEF Op
  <2>2. LastWritten(ops, "status") = {"SUCCESS"}
    BY <2>1 DEF LastWritten
  <2>3. PatchedDoc(doc, ops).status = "SUCCESS"
    BY <1>2, <2>2, FinalValueIs
  <2>4. EventNames(ops) = {"REQUEST_COMPLETED"}
    BY <2>1 DEF EventNames, NamedBy, COMPLETED_STATUSES
  <2>5. EventError(doc, ops) = FALSE
    BY <2>1 DEF EventError
  <2>6. QED
    BY <2>3, <2>4, <2>5
<1>4. CASE ops = <<Op("status", "ERROR"), Op("output", v), Op("error_class", v)>>
  <2>1. /\ DOMAIN ops = {1, 2, 3}
        /\ ops[1] = [path |-> "status", value |-> "ERROR"]
        /\ ops[2] = [path |-> "output", value |-> v]
        /\ ops[3] = [path |-> "error_class", value |-> v]
    BY <1>4 DEF Op
  <2>2. LastWritten(ops, "status") = {"ERROR"}
    BY <2>1 DEF LastWritten
  <2>3. PatchedDoc(doc, ops).status = "ERROR"
    BY <1>2, <2>2, FinalValueIs
  <2>4. EventNames(ops) = {"REQUEST_COMPLETED"}
    BY <2>1 DEF EventNames, NamedBy, COMPLETED_STATUSES
  <2>5. doc.error_class = NoValue => EventError(doc, ops) = TRUE
    BY <2>1, NoValueAssumption DEF EventError
  <2>6. QED
    BY <2>3, <2>4, <2>5
<1>5. QED
  BY <1>1, <1>3, <1>4

\* Only completion events tell an outcome.
LEMMA ToldMore ==
    ASSUME NEW r, NEW new, NEW name, NEW error,
           announced'[r] = announced[r] \union new,
           \E e \in new : TRUE,
           \A e \in new : e.name = name /\ e.error = error
    PROVE  ToldOutcomes(r)' =
               ToldOutcomes(r) \union (IF name = "REQUEST_COMPLETED" THEN {error} ELSE {})
<1>1. \A x : x \in ToldOutcomes(r)' <=>
                 \E a \in announced'[r] : a.name = "REQUEST_COMPLETED" /\ a.error = x
  BY DEF ToldOutcomes
<1>2. \A x : x \in ToldOutcomes(r) <=>
                 \E a \in announced[r] : a.name = "REQUEST_COMPLETED" /\ a.error = x
  BY DEF ToldOutcomes
<1>3. \A x : x \in ToldOutcomes(r)' <=>
                 x \in ToldOutcomes(r) \/ (name = "REQUEST_COMPLETED" /\ x = error)
  BY <1>1, <1>2
<1>4. QED
  BY <1>3

\* A PATCH announces one event at most.
LEMMA NewEvent ==
    ASSUME NEW name, NEW error
    PROVE  /\ \E e \in [name : {name}, error : {error}] : TRUE
           /\ \A e \in [name : {name}, error : {error}] : e.name = name /\ e.error = error
<1>1. [name |-> name, error |-> error] \in [name : {name}, error : {error}]
  OBVIOUS
<1>2. QED
  BY <1>1

\* OutcomeAnnounced for one request; before its result it has no error class,
\* so that the first one it is given counts as new.
Outcome(r) ==
    Exists(r) =>
        /\ requests[r].status = "SUCCESS" => ToldOutcomes(r) = {FALSE}
        /\ requests[r].status = "ERROR" => TRUE \in ToldOutcomes(r)
        /\ requests[r].status \notin {"SUCCESS", "ERROR"} =>
               ToldOutcomes(r) = {} /\ requests[r].error_class = NoValue

\* A step that is not about a request tells nothing of it.
LEMMA OutcomeUntouched ==
    ASSUME NEW r, Outcome(r), requests'[r] = requests[r], announced'[r] = announced[r]
    PROVE  Outcome(r)'
BY DEF Outcome, Exists, ToldOutcomes

\* The handler of the POST tells of no outcome.
LEMMA PostOutcome ==
    ASSUME TypeOK, NEW r \in RequestIds, Story(r), Outcome(r), RequestListNext(r)
    PROVE  Outcome(r)'
<1>1. ASSUME NEW c, NEW j, Post(r, c, j) \/ PostUnreachable(r, c, j)
      PROVE  Outcome(r)'
  <2>1. AcceptPost(r, c, j) /\ announced'[r] \subseteq FailedCreation
    BY <1>1, PostAnnounces DEF Post, PostUnreachable
  <2>2. requests'[r] = NewDoc(j)
    BY <2>1 DEF AcceptPost, TypeOK
  <2>3. NewDoc(j).status = "CREATED" /\ NewDoc(j).error_class = NoValue
    BY DEF NewDoc, Missing
  <2>4. ToldOutcomes(r)' = {}
    BY <2>1 DEF ToldOutcomes, FailedCreation
  <2>5. QED
    BY <2>2, <2>3, <2>4 DEF Outcome
<1>2. CASE Dispatched(r)
  <2>1. announced' = [announced EXCEPT ![r] = announced[r] \union
                         {[name |-> "REQUEST_CREATED", error |-> FALSE]}]
    BY <1>2 DEF Dispatched, Announce
  <2>2. announced'[r] = announced[r] \union {[name |-> "REQUEST_CREATED", error |-> FALSE]}
    BY <2>1 DEF TypeOK
  <2>3. ToldOutcomes(r)' = ToldOutcomes(r)
    <3> DEFINE new == {[name |-> "REQUEST_CREATED", error |-> FALSE]}
    <3>1. announced'[r] = announced[r] \union new
      BY <2>2
    <3>2. /\ \E e \in new : TRUE
          /\ \A e \in new : e.name = "REQUEST_CREATED" /\ e.error = FALSE
      OBVIOUS
    <3> HIDE DEF new
    <3>3. ToldOutcomes(r)' = ToldOutcomes(r) \union
              (IF "REQUEST_CREATED" = "REQUEST_COMPLETED" THEN {FALSE} ELSE {})
      BY <3>1, <3>2, ToldMore
    <3>4. QED
      BY <3>3
  <2>4. UNCHANGED requests
    BY <1>2 DEF Dispatched
  <2>5. QED
    BY <2>3, <2>4 DEF Outcome, Exists
<1>3. CASE DispatchRefused(r) \/ DispatchLost(r)
  <2>1. requests'[r] = Missing
    BY <1>3 DEF DispatchRefused, DispatchLost, Withdraw, TypeOK
  <2>2. QED
    BY <2>1 DEF Outcome, Exists, Missing
<1>4. CASE Wake(r) \/ Expire(r)
  BY <1>4, OutcomeUntouched DEF Wake, Expire
<1>5. QED
  BY <1>1, <1>2, <1>3, <1>4 DEF RequestListNext

\* Bartender cancels what has not begun.
LEMMA BackendOutcome ==
    ASSUME TypeOK, NEW r \in RequestIds, Story(r), Outcome(r), BackendNext(r)
    PROVE  Outcome(r)'
<1>1. UNCHANGED announced
  BY DEF BackendNext, BackendAccepts, BackendRefuses, MessageCleared
<1>2. CASE UNCHANGED requests
  BY <1>1, <1>2, OutcomeUntouched
<1>3. CASE MessageCleared(r) /\ Exists(r)
  <2>1. requests[r].status = "CREATED" /\ requests[r] \in Docs
    BY <1>3, ExistingDoc DEF MessageCleared, Story, PluginStage
  <2>2. requests' = [requests EXCEPT ![r] = [requests[r] EXCEPT !.status = "CANCELED"]]
    BY <1>3 DEF MessageCleared
  <2>3. requests'[r].status = "CANCELED" /\ requests'[r].error_class = requests[r].error_class
    BY <2>1, <2>2 DEF TypeOK, Docs
  <2>4. ToldOutcomes(r)' = ToldOutcomes(r)
    BY <1>1 DEF ToldOutcomes
  <2>5. QED
    BY <1>3, <2>1, <2>3, <2>4 DEF Outcome
<1>4. QED
  BY <1>2, <1>3 DEF BackendNext, BackendAccepts, BackendRefuses, MessageCleared

\* The plugin's result is told as what it is; told again it may be told twice.
LEMMA PluginOutcome ==
    ASSUME TypeOK, NEW r \in RequestIds, Story(r), Outcome(r),
           PluginStarts(r) \/ PluginFinishes(r) \/ PluginRetries(r)
    PROVE  Outcome(r)'
<1>1. CASE UNCHANGED <<requests, announced>>
  BY <1>1, OutcomeUntouched
<1>2. ASSUME Exists(r), plugin[r] \in {"queued", "running"}, ApplyPatch(r, StartPatch)
      PROVE  Outcome(r)'
  <2>1. requests[r] \in Docs /\ requests[r].status \in {"CREATED", "IN_PROGRESS"}
    BY <1>2, ExistingDoc DEF Story, PluginStage
  <2>2. requests'[r] = [requests[r] EXCEPT !.status = "IN_PROGRESS"]
    BY <1>2, <2>1, StartPatchResult DEF ApplyPatch, TypeOK
  <2>3. requests'[r].status = "IN_PROGRESS" /\ requests'[r].error_class = requests[r].error_class
    BY <2>1, <2>2 DEF Docs
  <2>4. announced'[r] = announced[r] \union
            [name : {"REQUEST_STARTED"}, error : {EventError(requests[r], StartPatch)}]
    <3>1. announced' = [announced EXCEPT ![r] = announced[r] \union
              [name : {"REQUEST_STARTED"}, error : {EventError(requests[r], StartPatch)}]]
      BY <1>2, StartTells DEF ApplyPatch
    <3>2. QED
      BY <3>1 DEF TypeOK
  <2>5. ToldOutcomes(r)' = ToldOutcomes(r)
    <3> DEFINE error == EventError(requests[r], StartPatch)
               new == [name : {"REQUEST_STARTED"}, error : {error}]
    <3>1. announced'[r] = announced[r] \union new
      BY <2>4
    <3>2. /\ \E e \in new : TRUE
          /\ \A e \in new : e.name = "REQUEST_STARTED" /\ e.error = error
      BY NewEvent
    <3> HIDE DEF new
    <3>3. ToldOutcomes(r)' = ToldOutcomes(r) \union
              (IF "REQUEST_STARTED" = "REQUEST_COMPLETED" THEN {error} ELSE {})
      BY <3>1, <3>2, ToldMore
    <3>4. QED
      BY <3>3
  <2>6. QED
    BY <1>2, <2>1, <2>3, <2>5 DEF Outcome
<1>3. ASSUME Exists(r), NEW ops \in FinishPatches, ApplyPatch(r, ops),
             plugin[r] = "running" \/ PatchedDoc(requests[r], ops) = requests[r]
      PROVE  Outcome(r)'
  <2>1. requests[r] \in Docs
    BY <1>3, ExistingDoc
  <2>2. requests'[r] = PatchedDoc(requests[r], ops)
    BY <1>3 DEF ApplyPatch, TypeOK
  <2>3. announced'[r] = announced[r] \union
            [name : {"REQUEST_COMPLETED"}, error : {EventError(requests[r], ops)}]
    <3>1. announced' = [announced EXCEPT ![r] = announced[r] \union
              [name : {"REQUEST_COMPLETED"}, error : {EventError(requests[r], ops)}]]
      BY <1>3, <2>1, FinishTells DEF ApplyPatch
    <3>2. QED
      BY <3>1 DEF TypeOK
  <2>4. ToldOutcomes(r)' = ToldOutcomes(r) \union {EventError(requests[r], ops)}
    <3> DEFINE error == EventError(requests[r], ops)
               new == [name : {"REQUEST_COMPLETED"}, error : {error}]
    <3>1. announced'[r] = announced[r] \union new
      BY <2>3
    <3>2. /\ \E e \in new : TRUE
          /\ \A e \in new : e.name = "REQUEST_COMPLETED" /\ e.error = error
      BY NewEvent
    <3> HIDE DEF new
    <3>3. ToldOutcomes(r)' = ToldOutcomes(r) \union
              (IF "REQUEST_COMPLETED" = "REQUEST_COMPLETED" THEN {error} ELSE {})
      BY <3>1, <3>2, ToldMore
    <3>4. QED
      BY <3>3
  <2>5. requests'[r].status \in {"SUCCESS", "ERROR"}
    BY <2>1, <2>2, FinishedStatus
  <2>6. CASE plugin[r] = "running"
    <3>1. requests[r].status = "IN_PROGRESS"
      BY <1>3, <2>6 DEF Story, PluginStage
    <3>2. ToldOutcomes(r) = {} /\ requests[r].error_class = NoValue
      BY <1>3, <3>1 DEF Outcome
    <3>3. EventError(requests[r], ops) = (requests'[r].status = "ERROR")
      BY <2>1, <2>2, <2>5, <3>2, FinishTells
    <3>4. QED
      BY <2>4, <2>5, <3>2, <3>3 DEF Outcome
  <2>7. CASE requests'[r] = requests[r]
    <3>1. requests'[r].status = "SUCCESS" => EventError(requests[r], ops) = FALSE
      BY <2>1, <2>2, FinishTells
    <3>2. QED
      BY <1>3, <2>4, <2>5, <2>7, <3>1 DEF Outcome
  <2>8. QED
    BY <1>3, <2>2, <2>6, <2>7
<1>4. QED
  BY <1>1, <1>2, <1>3 DEF PluginStarts, PluginFinishes, PluginRetries, ServePatch

\* The webhooks hear of every completion: of a success as a success only, of a
\* failure as a failure at least once (a repetition may be told as a success),
\* and of nothing before the completion (OutcomeAnnounced).
THEOREM OutcomesAnnounced ==
    ASSUME DeliveredOnce, OnlyPluginsPatch, PatchesEnd
    PROVE  Spec => []OutcomeAnnounced
<1> DEFINE Outcomes == \A r \in RequestIds : Outcome(r)
<1>1. Outcomes => OutcomeAnnounced
  BY DEF Outcome, OutcomeAnnounced
<1>2. Init => Outcomes
  BY DEF Init, Outcome, Exists, Missing
<1>3. TypeOK /\ StoryInv /\ Outcomes /\ [Next]_vars => Outcomes'
  <2> SUFFICES ASSUME TypeOK, StoryInv, Outcomes, [Next]_vars, NEW q \in RequestIds
               PROVE  Outcome(q)'
    OBVIOUS
  <2>1. CASE requests'[q] = requests[q] /\ announced'[q] = announced[q]
    BY <2>1, OutcomeUntouched
  <2>2. ASSUME NEW r \in RequestIds, ActionOf(r)
        PROVE  Outcome(q)'
    <3>1. CASE q # r
      BY <2>1, <2>2, <3>1, OthersUntouched DEF Untouched
    <3>2. CASE q = r
      BY <2>2, <3>2, PostOutcome, BackendOutcome, PluginOutcome DEF ActionOf, StoryInv
    <3>3. QED
      BY <3>1, <3>2
  <2>3. ASSUME NEW r \in RequestIds, CrashInPatch(r)
        PROVE  FALSE
    BY <2>3 DEF CrashInPatch, BoundedMishap, PatchesEnd
  <2>4. CASE Restart
    BY <2>1, <2>4 DEF Restart, ProcessRestarts
  <2>5. CASE Unnoticed
    BY <2>1, <2>5, UnnoticedKeeps
  <2>6. QED
    BY <2>2, <2>3, <2>4, <2>5, StepKinds
<1>4. QED
  BY <1>1, <1>2, <1>3, StoryHolds, TypeCorrect, PTL DEF Spec

=============================================================================
