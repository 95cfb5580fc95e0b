----------------------- MODULE RequestLifecycleProofs -----------------------
(***************************************************************************)
(* Proofs about RequestLifecycle, for every set of requests, jobs, values, *)
(* stray patches and surroundings.                                         *)
(***************************************************************************)
EXTENDS RequestLifecycle, FiniteSetTheorems, TLAPS

-----------------------------------------------------------------------------
(***************************************************************************)
(* Facts about a PATCH.                                                    *)
(***************************************************************************)

\* A field holds what it held, or the value of an operation on it.
LEMMA FinalValueOrigin ==
    ASSUME NEW doc, NEW ops, NEW field
    PROVE  \/ FinalValue(doc, ops, field) = doc[field]
           \/ \E i \in DOMAIN ops :
                  /\ ops[i].path = field
                  /\ FinalValue(doc, ops, field) = ops[i].value
<1>1. CASE LastWritten(ops, field) = {}
  BY <1>1 DEF FinalValue
<1>2. CASE LastWritten(ops, field) # {}
  <2>1. FinalValue(doc, ops, field) \in LastWritten(ops, field)
    BY <1>2 DEF FinalValue
  <2>2. QED
    BY <2>1 DEF LastWritten
<1>3. QED
  BY <1>1, <1>2

\* A PATCH keeps documents documents.
LEMMA PatchedDocType ==
    ASSUME NEW doc \in Docs, NEW ops \in Seq(PatchOps)
    PROVE  PatchedDoc(doc, ops) \in Docs
<1>1. \A i \in DOMAIN ops : ops[i] \in PatchOps
  OBVIOUS
<1>2. FinalValue(doc, ops, "status") \in STATUS_LIST
  BY <1>1, FinalValueOrigin DEF PatchOps, GuardedFields, Docs
<1>3. FinalValue(doc, ops, "output") \in Values \union {NoValue}
  BY <1>1, FinalValueOrigin DEF PatchOps, GuardedFields, Docs
<1>4. FinalValue(doc, ops, "error_class") \in Values \union {NoValue}
  BY <1>1, FinalValueOrigin DEF PatchOps, GuardedFields, Docs
<1>5. QED
  BY <1>2, <1>3, <1>4 DEF PatchedDoc, Docs

\* A PATCH that ends in a completed status found the request completed or names
\* a completed status, in which case the handler looks for a waiter.
LEMMA CompletedBy ==
    ASSUME NEW doc \in Docs, NEW ops \in Seq(PatchOps),
           PatchedDoc(doc, ops).status \in COMPLETED_STATUSES
    PROVE  PatchedDoc(doc, ops).status = doc.status \/ Completes(ops)
<1>1. PatchedDoc(doc, ops).status = FinalValue(doc, ops, "status")
  BY DEF PatchedDoc, Docs
<1>2. QED
  BY <1>1, FinalValueOrigin DEF Completes

\* A body announces a start or a completion, and nothing else.
LEMMA EventNamesType ==
    ASSUME NEW ops
    PROVE  EventNames(ops) \subseteq {"REQUEST_STARTED", "REQUEST_COMPLETED"}
BY DEF EventNames, NamedBy

\* What plugins send is well formed.
LEMMA PluginPatchesType ==
    /\ StartPatch \in Seq(PatchOps)
    /\ FinishPatches \subseteq Seq(PatchOps)
<1>1. /\ Op("status", "IN_PROGRESS") \in PatchOps
      /\ Op("status", "SUCCESS") \in PatchOps
      /\ Op("status", "ERROR") \in PatchOps
  BY DEF Op, PatchOps, STATUS_LIST
<1>2. \A v \in Values : /\ Op("output", v) \in PatchOps
                        /\ Op("error_class", v) \in PatchOps
  BY DEF Op, PatchOps, GuardedFields
<1>3. StartPatch \in Seq(PatchOps)
  BY <1>1 DEF StartPatch
<1>4. FinishPatches \subseteq Seq(PatchOps)
  <2> SUFFICES ASSUME NEW ops \in FinishPatches
               PROVE  ops \in Seq(PatchOps)
    OBVIOUS
  <2>1. PICK v \in Values :
            \/ ops = <<Op("status", "SUCCESS"), Op("output", v)>>
            \/ ops = <<Op("status", "ERROR"), Op("output", v),
                       Op("error_class", v)>>
    BY DEF FinishPatches
  <2>2. Op("output", v) \in PatchOps /\ Op("error_class", v) \in PatchOps
    BY <1>2
  <2>3. CASE ops = <<Op("status", "SUCCESS"), Op("output", v)>>
    BY <2>2, <2>3, <1>1
  <2>4. CASE ops = <<Op("status", "ERROR"), Op("output", v),
                     Op("error_class", v)>>
    BY <2>2, <2>4, <1>1
  <2>5. QED
    BY <2>1, <2>3, <2>4
<1>5. QED
  BY <1>3, <1>4

-----------------------------------------------------------------------------
(***************************************************************************)
(* Types.                                                                  *)
(***************************************************************************)

\* What is found of a request that is not there is no document.
LEMMA MissingIsNoDoc == Missing \notin Docs
BY DEF Missing, Docs, STATUS_LIST

\* A document that exists is a document.
LEMMA ExistingDoc ==
    ASSUME TypeOK, NEW r \in RequestIds, Exists(r)
    PROVE  requests[r] \in Docs
BY DEF TypeOK, Exists, Missing

\* The status of a request, there or not, is a status or none.
LEMMA DocStatusType ==
    ASSUME TypeOK, NEW r \in RequestIds
    PROVE  requests[r].status \in STATUS_LIST \union {"none"}
BY DEF TypeOK, Docs, Missing

\* An answer with a status code is a reply.
LEMMA AnswerType ==
    ASSUME NEW code \in Codes
    PROVE  Answer(code) \in Replies
BY DEF Answer, Replies

\* A handler that finishes leaves its request with a reply.
LEMMA FinishType ==
    ASSUME TypeOK, NEW r \in RequestIds, NEW answer, Finish(r, answer),
           answer \in Replies
    PROVE  /\ handler' \in [RequestIds ->
                  {"idle", "dispatching", "waiting", "done"}]
           /\ reply' \in [RequestIds -> Replies]
           /\ request_map' \in [RequestIds -> {"none", "clear", "set"}]
BY DEF Finish, TypeOK

\* What the gauges start from are counts.
LEMMA InitialCountsType ==
    ASSUME NEW docs
    PROVE  InitialCounts(docs) \in Gauges
<1>1. ASSUME NEW status
      PROVE  Cardinality(InStatus(docs, status)) \in Nat
  <2>1. InStatus(docs, status) \subseteq RequestIds
    BY DEF InStatus
  <2>2. IsFiniteSet(InStatus(docs, status))
    BY <2>1, FS_Subset, LifecycleAssumption
  <2>3. QED
    BY <2>2, FS_CardinalityType
<1>2. QED
  BY <1>1 DEF InitialCounts, Gauges

\* Counting an outcome of a job leaves the jobs in form.
LEMMA UpdatedJobsType ==
    ASSUME TypeOK, NEW job, NEW before, NEW after
    PROVE  UpdatedJobs(job, before, after) \in [JobIds -> JobRecords]
<1> DEFINE Counted(j) ==
        [jobs[j] EXCEPT
            !.success_count = @ + (IF after = "SUCCESS" THEN 1 ELSE 0),
            !.error_count = @ + (IF after = "ERROR" THEN 1 ELSE 0)]
<1>1. ASSUME NEW j \in JobIds
      PROVE  jobs[j] \in JobRecords /\ Counted(j) \in JobRecords
  <2>1. jobs[j] \in JobRecords
    BY DEF TypeOK
  <2>2. jobs[j].success_count + (IF after = "SUCCESS" THEN 1 ELSE 0) \in Nat
    BY <2>1 DEF JobRecords
  <2>3. jobs[j].error_count + (IF after = "ERROR" THEN 1 ELSE 0) \in Nat
    BY <2>1 DEF JobRecords
  <2>4. QED
    BY <2>1, <2>2, <2>3 DEF JobRecords
<1>2. UpdatedJobs(job, before, after) =
          IF job = NoJob \/ before = after
          THEN jobs
          ELSE [j \in JobIds |-> IF j # job \/ ~jobs[j].exists
                                 THEN jobs[j] ELSE Counted(j)]
  BY DEF UpdatedJobs
<1>3. jobs \in [JobIds -> JobRecords]
  BY DEF TypeOK
<1> HIDE DEF Counted
<1>4. QED
  BY <1>1, <1>2, <1>3

\* Serving a PATCH keeps the types of everything it touches.
LEMMA ServePatchType ==
    ASSUME TypeOK, NEW r \in RequestIds, NEW ops \in Seq(PatchOps),
           ServePatch(r, ops), mishaps' \in 0 .. MaxMishaps,
           plugin' \in [RequestIds ->
                           {"none", "queued", "running", "finished"}]
    PROVE  TypeOK'
<1>1. CASE ApplyPatch(r, ops) /\ Exists(r)
  <2> DEFINE req == PatchedDoc(requests[r], ops)
  <2>1. requests[r] \in Docs /\ req \in Docs
    BY <1>1, ExistingDoc, PatchedDocType
  <2>2. requests' \in [RequestIds -> Docs \union {Missing}]
    BY <1>1, <2>1 DEF ApplyPatch, TypeOK
  <2>3. gauges' \in Gauges
    BY <1>1 DEF ApplyPatch, UpdatedGauges, Gauges, TypeOK
  <2>4. jobs' \in [JobIds -> JobRecords]
    BY <1>1, UpdatedJobsType DEF ApplyPatch
  <2>5. request_map' \in [RequestIds -> {"none", "clear", "set"}]
    BY <1>1 DEF ApplyPatch, TypeOK
  <2>6. announced' \in [RequestIds -> SUBSET Events]
    <3>1. EventError(requests[r], ops) \in BOOLEAN
      BY DEF EventError
    <3>2. [name : EventNames(ops), error : {EventError(requests[r], ops)}]
              \subseteq Events
      BY <3>1, EventNamesType DEF Events
    <3>3. QED
      BY <1>1, <3>2 DEF ApplyPatch, TypeOK
  <2>7. UNCHANGED <<handler, call, reply, rpc>>
    BY DEF ServePatch
  <2>8. QED
    BY <2>2, <2>3, <2>4, <2>5, <2>6, <2>7 DEF TypeOK
<1>2. CASE UNCHANGED <<requests, gauges, jobs, request_map, announced>>
  BY <1>2 DEF ServePatch, TypeOK
<1>3. QED
  BY <1>1, <1>2 DEF ServePatch

\* So does a restart, whatever the documents are by then.
LEMMA ProcessRestartsType ==
    ASSUME TypeOK, NEW docs, ProcessRestarts(docs),
           mishaps' \in 0 .. MaxMishaps,
           requests' \in [RequestIds -> Docs \union {Missing}],
           plugin' \in [RequestIds ->
                           {"none", "queued", "running", "finished"}]
    PROVE  TypeOK'
<1>1. gauges' \in Gauges
  BY InitialCountsType DEF ProcessRestarts
<1>2. rpc' \in [RequestIds ->
          {"none", "sent", "accepted", "invalid", "unpublished"}]
  BY DEF ProcessRestarts
<1>3. reply' \in [RequestIds -> Replies]
  BY AnswerType DEF ProcessRestarts, TypeOK, Codes
<1>4. QED
  BY <1>1, <1>2, <1>3 DEF ProcessRestarts, TypeOK

\* Counting a mishap keeps their number within its bound.
LEMMA BoundedMishapType ==
    ASSUME TypeOK, NEW kind, BoundedMishap(kind)
    PROVE  mishaps' \in 0 .. MaxMishaps
BY LifecycleAssumption DEF TypeOK, BoundedMishap

\* Every variable keeps to its type.
THEOREM TypeCorrect == Spec => []TypeOK
<1>1. Init => TypeOK
  BY LifecycleAssumption
     DEF Init, TypeOK, Missing, Unanswered, Answer, Replies, Codes, Calls,
         Gauges, JobRecords
<1>2. TypeOK /\ [Next]_vars => TypeOK'
  <2> SUFFICES ASSUME TypeOK, [Next]_vars
               PROVE  TypeOK'
    OBVIOUS
  <2>1. CASE UNCHANGED vars
    BY <2>1 DEF vars, TypeOK
  <2>0. ASSUME NEW r \in RequestIds, NEW error \in BOOLEAN,
               Announce(r, "REQUEST_CREATED", error)
        PROVE  announced' \in [RequestIds -> SUBSET Events]
    <3>1. announced' = [announced EXCEPT ![r] = @ \union
                           {[name |-> "REQUEST_CREATED", error |-> error]}]
      BY <2>0 DEF Announce
    <3>2. [name |-> "REQUEST_CREATED", error |-> error] \in Events
      BY DEF Events
    <3>3. QED
      BY <3>1, <3>2 DEF TypeOK
  <2>2. ASSUME NEW r \in RequestIds, NEW c \in Calls,
               NEW j \in JobIds \union {NoJob},
               Post(r, c, j) \/ PostUnreachable(r, c, j)
        PROVE  TypeOK'
    <3>1. NewDoc(j) \in Docs
      BY DEF NewDoc, Missing, Docs, STATUS_LIST
    <3>2. /\ requests' \in [RequestIds -> Docs \union {Missing}]
          /\ call' \in [RequestIds -> Calls]
          /\ request_map' \in [RequestIds -> {"none", "clear", "set"}]
      <4>1. AcceptPost(r, c, j)
        BY <2>2 DEF Post, PostUnreachable
      <4>2. QED
        BY <4>1, <3>1 DEF AcceptPost, TypeOK
    <3>3. CASE Post(r, c, j)
      BY <3>2, <3>3 DEF Post, TypeOK
    <3>4. CASE PostUnreachable(r, c, j)
      <4>1. announced' \in [RequestIds -> SUBSET Events]
        BY <2>0, <3>4 DEF PostUnreachable
      <4>2. QED
        BY <3>2, <3>4, <4>1, AnswerType DEF PostUnreachable, Mishap, Codes, TypeOK
    <3>5. QED
      BY <2>2, <3>3, <3>4
  <2>3. ASSUME NEW r \in RequestIds, Dispatched(r)
        PROVE  TypeOK'
    <3>1. /\ announced' \in [RequestIds -> SUBSET Events]
          /\ gauges' \in Gauges
      <4>1. gauges' = [gauges EXCEPT !.queued = @ + 1]
        BY <2>3 DEF Dispatched
      <4>2. announced' \in [RequestIds -> SUBSET Events]
        BY <2>0, <2>3 DEF Dispatched
      <4>3. gauges' \in Gauges
        BY <4>1 DEF TypeOK, Gauges
      <4>4. QED
        BY <4>2, <4>3
    <3>2. /\ reply' \in [RequestIds -> Replies]
          /\ request_map' \in [RequestIds -> {"none", "clear", "set"}]
          /\ handler' \in [RequestIds ->
                 {"idle", "dispatching", "waiting", "done"}]
      <4>1. \/ \E answer : Finish(r, answer)
                  /\ answer \in Replies
            \/ /\ handler' = [handler EXCEPT ![r] = "waiting"]
               /\ UNCHANGED <<reply, request_map>>
        BY <2>3, DocStatusType, AnswerType
           DEF Dispatched, FinishReloaded, Replies, Codes, STATUS_LIST
      <4>2. QED
        BY <4>1, FinishType DEF TypeOK
    <3>3. /\ rpc' = [rpc EXCEPT ![r] = "none"]
          /\ UNCHANGED <<requests, call, plugin, jobs, mishaps>>
      BY <2>3 DEF Dispatched
    <3>4. QED
      BY <3>1, <3>2, <3>3 DEF TypeOK
  <2>4. ASSUME NEW r \in RequestIds, DispatchRefused(r) \/ DispatchLost(r)
        PROVE  TypeOK'
    <3>1. PICK code \in Codes : Withdraw(r, code)
      BY <2>4 DEF DispatchRefused, DispatchLost, Codes
    <3>2. UNCHANGED mishaps
      BY <2>4 DEF DispatchRefused, DispatchLost, Mishap
    <3>3. announced' \in [RequestIds -> SUBSET Events]
      BY <2>0, <3>1 DEF Withdraw
    <3>4. QED
      BY <3>1, <3>2, <3>3, AnswerType DEF Withdraw, TypeOK
  <2>5. ASSUME NEW r \in RequestIds, Wake(r) \/ Expire(r)
        PROVE  TypeOK'
    <3>1. PICK answer \in Replies :
              Finish(r, answer)
      BY <2>5, DocStatusType, AnswerType 
         DEF Wake, Expire, FinishReloaded, Replies, Codes
    <3>2. UNCHANGED <<requests, call, rpc, plugin, gauges, jobs, announced,
                      mishaps>>
      BY <2>5 DEF Wake, Expire
    <3>3. QED
      BY <3>1, <3>2, FinishType DEF TypeOK
  <2>6. ASSUME NEW r \in RequestIds, BackendAccepts(r) \/ BackendRefuses(r)
        PROVE  TypeOK'
    <3>1. PICK outcome \in {"accepted", "invalid", "unpublished"} :
              BackendAnswers(r, outcome)
      BY <2>6 DEF BackendAccepts, BackendRefuses
    <3>2. rpc' \in [RequestIds ->
              {"none", "sent", "accepted", "invalid", "unpublished"}]
      BY <3>1 DEF BackendAnswers, TypeOK
    <3>3. /\ plugin' = plugin \/ plugin' = [plugin EXCEPT ![r] = "queued"]
          /\ UNCHANGED <<requests, request_map, handler, call, reply, gauges,
                         jobs, announced, mishaps>>
      BY <2>6 DEF BackendAccepts, BackendRefuses, Mishap
    <3>4. plugin' \in [RequestIds -> {"none", "queued", "running", "finished"}]
      BY <3>3 DEF TypeOK
    <3>5. QED
      BY <3>2, <3>3, <3>4 DEF TypeOK
  <2>7. ASSUME NEW r \in RequestIds, MessageCleared(r)
        PROVE  TypeOK'
    <3>1. requests' \in [RequestIds -> Docs \union {Missing}]
      <4>1. CASE Exists(r)
        <5>1. [requests[r] EXCEPT !.status = "CANCELED"] \in Docs
          BY <4>1, ExistingDoc DEF Docs, STATUS_LIST
        <5>2. QED
          BY <2>7, <4>1, <5>1 DEF MessageCleared, TypeOK
      <4>2. CASE ~Exists(r)
        BY <2>7, <4>2 DEF MessageCleared, TypeOK
      <4>3. QED
        BY <4>1, <4>2
    <3>2. QED
      BY <2>7, <3>1 DEF MessageCleared, Mishap, TypeOK
  <2>8. ASSUME NEW r \in RequestIds, PluginNext(r)
        PROVE  TypeOK'
    <3>1. CASE PluginStarts(r)
      BY <3>1, ServePatchType, PluginPatchesType DEF PluginStarts, TypeOK
    <3>2. CASE PluginFinishes(r)
      BY <3>2, ServePatchType, PluginPatchesType DEF PluginFinishes, TypeOK
    <3>3. CASE PluginRetries(r)
      BY <3>3, ServePatchType, PluginPatchesType
         DEF PluginRetries, Mishap, TypeOK
    <3>4. CASE Redelivered(r)
      BY <3>4, BoundedMishapType DEF Redelivered, TypeOK
    <3>5. QED
      BY <2>8, <3>1, <3>2, <3>3, <3>4 DEF PluginNext
  <2>9. ASSUME NEW r \in RequestIds, StrayPatch(r)
        PROVE  TypeOK'
    <3>1. PICK ops \in StrayPatches : ServePatch(r, ops)
      BY <2>9 DEF StrayPatch
    <3>2. ops \in Seq(PatchOps)
      BY <3>1, LifecycleAssumption
    <3>3. mishaps' \in 0 .. MaxMishaps /\ plugin' = plugin
      BY <2>9, BoundedMishapType DEF StrayPatch
    <3>4. QED
      BY <3>1, <3>2, <3>3, ServePatchType DEF TypeOK
  <2>10. ASSUME NEW r \in RequestIds, CrashInPatch(r)
         PROVE  TypeOK'
    <3>1. PICK ops \in Seq(PatchOps) :
              requests' = [requests EXCEPT ![r] = PatchedDoc(@, ops)]
      BY <2>10, PluginPatchesType DEF CrashInPatch
    <3>2. PatchedDoc(requests[r], ops) \in Docs
      BY <2>10, ExistingDoc, PatchedDocType DEF CrashInPatch
    <3>3. requests' \in [RequestIds -> Docs \union {Missing}]
      BY <3>1, <3>2 DEF TypeOK
    <3>4. /\ plugin' \in [RequestIds ->
                 {"none", "queued", "running", "finished"}]
          /\ mishaps' \in 0 .. MaxMishaps
          /\ ProcessRestarts(requests')
      BY <2>10, BoundedMishapType DEF CrashInPatch, TypeOK
    <3>5. QED
      BY <3>3, <3>4, ProcessRestartsType
  <2>11. ASSUME NEW j \in JobIds, RemoveJob(j)
         PROVE  TypeOK'
    <3>1. [jobs[j] EXCEPT !.exists = FALSE] \in
              JobRecords
      BY DEF TypeOK, JobRecords
    <3>2. jobs' \in [JobIds -> JobRecords]
      BY <2>11, <3>1 DEF RemoveJob, TypeOK
    <3>3. UNCHANGED <<requests, request_map, handler, call, reply, rpc, plugin,
                      gauges, announced, mishaps>>
      BY <2>11 DEF RemoveJob, Mishap
    <3>4. QED
      BY <3>2, <3>3 DEF TypeOK
  <2>12. CASE Restart
    BY <2>12, ProcessRestartsType, BoundedMishapType DEF Restart, TypeOK
  <2>13. QED
    BY <2>1, <2>2, <2>3, <2>4, <2>5, <2>6, <2>7, <2>8, <2>9, <2>10, <2>11,
       <2>12 DEF Next, RequestListNext, BackendNext
<1>3. QED
  BY <1>1, <1>2, PTL DEF Spec
-----------------------------------------------------------------------------
(***************************************************************************)
(* The waiters.  NoLostWakeup is inductive together with WaiterInMap: that *)
(* an Event is set when the request completes needs that it is there.      *)
(***************************************************************************)

WaiterInv == TypeOK /\ WaiterInMap /\ NoLostWakeup

\* A PATCH takes no waiter away, and sets the Event of one it completes.
LEMMA ServePatchWakes ==
    ASSUME WaiterInv, NEW r \in RequestIds, NEW ops \in Seq(PatchOps),
           ServePatch(r, ops)
    PROVE  WaiterInMap' /\ NoLostWakeup'
<1>1. UNCHANGED <<handler, call>>
  BY DEF ServePatch
<1>2. CASE ApplyPatch(r, ops) /\ Exists(r)
  <2>1. requests[r] \in Docs
    BY <1>2, ExistingDoc DEF WaiterInv
  <2>2. /\ requests' = [requests EXCEPT ![r] = PatchedDoc(requests[r], ops)]
        /\ request_map' = [request_map EXCEPT ![r] =
               IF Completes(ops) /\ request_map[r] # "none"
               THEN "set" ELSE request_map[r]]
    BY <1>2 DEF ApplyPatch
  <2>3. WaiterInMap'
    BY <1>1, <2>2 DEF WaiterInv, WaiterInMap, Live, Blocking, TypeOK
  <2>4. ASSUME NEW q \in RequestIds, Live(q), Blocking(q),
               requests'[q].status \in {"SUCCESS", "ERROR"}
        PROVE  request_map'[q] = "set"
    <3>1. CASE q # r
      BY <2>2, <2>4, <3>1 DEF WaiterInv, NoLostWakeup, TypeOK
    <3>2. CASE q = r /\ requests'[r].status = requests[r].status
      BY <2>2, <2>4, <3>2 DEF WaiterInv, NoLostWakeup, TypeOK
    <3>3. CASE q = r /\ requests'[r].status # requests[r].status
      <4>1. requests'[r] = PatchedDoc(requests[r], ops)
        BY <2>2 DEF WaiterInv, TypeOK
      <4>2. Completes(ops)
        BY <2>1, <2>4, <3>3, <4>1, CompletedBy DEF COMPLETED_STATUSES
      <4>3. request_map[r] # "none"
        BY <2>4, <3>3 DEF WaiterInv, WaiterInMap
      <4>4. QED
        BY <2>2, <3>3, <4>2, <4>3 DEF WaiterInv, TypeOK
    <3>4. QED
      BY <3>1, <3>2, <3>3
  <2>5. NoLostWakeup'
    BY <1>1, <2>4 DEF NoLostWakeup, Live, Blocking
  <2>6. QED
    BY <2>3, <2>5
<1>3. CASE UNCHANGED <<requests, request_map>>
  BY <1>1, <1>3 DEF WaiterInv, WaiterInMap, NoLostWakeup, Live, Blocking
<1>4. QED
  BY <1>2, <1>3 DEF ServePatch

\* A step that touches nothing but one handler, its waiter and its document,
\* and leaves that handler dead, keeps the waiters in order.
LEMMA HandlerEnds ==
    ASSUME WaiterInv, NEW r \in RequestIds,
           handler' = [handler EXCEPT ![r] = "done"],
           call' = call,
           \A q \in RequestIds \ {r} :
               requests'[q] = requests[q] /\ request_map'[q] = request_map[q]
    PROVE  WaiterInMap' /\ NoLostWakeup'
BY DEF WaiterInv, WaiterInMap, NoLostWakeup, Live, Blocking, TypeOK

\* While its POST is dispatching or waiting, a blocking call always has its
\* Event in request_map, and the Event is set once a PATCH has completed the
\* request: no wake-up is lost.
THEOREM NoWakeupIsLost == Spec => [](WaiterInMap /\ NoLostWakeup)
<1>1. Init => WaiterInMap /\ NoLostWakeup
  BY DEF Init, WaiterInMap, NoLostWakeup, Live
<1>2. TypeOK /\ TypeOK' /\ WaiterInMap /\ NoLostWakeup /\ [Next]_vars
          => WaiterInMap' /\ NoLostWakeup'
  <2> SUFFICES ASSUME TypeOK, TypeOK', WaiterInMap, NoLostWakeup, [Next]_vars
               PROVE  WaiterInMap' /\ NoLostWakeup'
    OBVIOUS
  <2>0. WaiterInv
    BY DEF WaiterInv
  <2>1. CASE UNCHANGED <<requests, request_map, handler, call>>
    BY <2>1 DEF WaiterInMap, NoLostWakeup, Live, Blocking
  <2>2. ASSUME NEW r \in RequestIds, NEW c \in Calls,
               NEW j \in JobIds \union {NoJob},
               Post(r, c, j) \/ PostUnreachable(r, c, j)
        PROVE  WaiterInMap' /\ NoLostWakeup'
    <3>1. /\ requests' = [requests EXCEPT ![r] = NewDoc(j)]
          /\ call' = [call EXCEPT ![r] = c]
          /\ request_map' =
                 [request_map EXCEPT ![r] = IF c = "no" THEN "none" ELSE "clear"]
      BY <2>2 DEF Post, PostUnreachable, AcceptPost
    <3>2. \A q \in RequestIds \ {r} : handler'[q] = handler[q]
      BY <2>2 DEF Post, PostUnreachable, TypeOK
    <3>3. NewDoc(j).status = "CREATED"
      BY DEF NewDoc, Missing
    <3>4. QED
      BY <3>1, <3>2, <3>3
         DEF WaiterInMap, NoLostWakeup, Live, Blocking, TypeOK
  <2>3. ASSUME NEW r \in RequestIds, Dispatched(r)
        PROVE  WaiterInMap' /\ NoLostWakeup'
    <3>1. UNCHANGED <<requests, call>>
      BY <2>3 DEF Dispatched
    <3>2. CASE \E answer : Finish(r, answer)
      BY <2>0, <3>1, <3>2, HandlerEnds DEF Finish, TypeOK
    <3>3. CASE /\ handler' = [handler EXCEPT ![r] = "waiting"]
               /\ request_map' = request_map
      BY <2>3, <3>1, <3>3
         DEF Dispatched, WaiterInMap, NoLostWakeup, Live, Blocking, TypeOK
    <3>4. QED
      BY <2>3, <3>2, <3>3 DEF Dispatched, FinishReloaded
  <2>4. ASSUME NEW r \in RequestIds, NEW code, Withdraw(r, code)
        PROVE  WaiterInMap' /\ NoLostWakeup'
    <3>1. /\ handler' = [handler EXCEPT ![r] = "done"]
          /\ call' = call
      BY <2>4 DEF Withdraw
    <3>2. \A q \in RequestIds \ {r} :
              requests'[q] = requests[q] /\ request_map'[q] = request_map[q]
      BY <2>4 DEF Withdraw, TypeOK
    <3>3. QED
      BY <2>0, <3>1, <3>2, HandlerEnds
  <2>5. ASSUME NEW r \in RequestIds, Wake(r) \/ Expire(r)
        PROVE  WaiterInMap' /\ NoLostWakeup'
    <3>1. UNCHANGED <<requests, call>>
      BY <2>5 DEF Wake, Expire
    <3>2. \E answer : Finish(r, answer)
      BY <2>5 DEF Wake, Expire, FinishReloaded
    <3>3. QED
      BY <2>0, <3>1, <3>2, HandlerEnds DEF Finish, TypeOK
  <2>6. ASSUME NEW r \in RequestIds, MessageCleared(r)
        PROVE  WaiterInMap' /\ NoLostWakeup'
    <3>1. UNCHANGED <<request_map, handler, call>>
      BY <2>6 DEF MessageCleared
    <3>2. \A q \in RequestIds :
              requests'[q].status \in {"SUCCESS", "ERROR"} =>
                  requests'[q].status = requests[q].status
      <4>1. CASE ~Exists(r)
        <5>1. requests' = IF Exists(r)
                          THEN [requests EXCEPT ![r].status = "CANCELED"]
                          ELSE requests
          BY <2>6 DEF MessageCleared
        <5>2. requests' = requests
          BY <4>1, <5>1, Zenon
        <5>3. QED
          BY <5>2
      <4>2. CASE Exists(r)
        <5>1. [requests[r] EXCEPT !.status = "CANCELED"].status = "CANCELED"
          BY <4>2, ExistingDoc DEF Docs
        <5>2. requests' = [requests EXCEPT ![r] =
                  [requests[r] EXCEPT !.status = "CANCELED"]]
          BY <2>6, <4>2 DEF MessageCleared
        <5>3. QED
          BY <5>1, <5>2 DEF TypeOK
      <4>3. QED
        BY <4>1, <4>2
    <3>3. QED
      BY <3>1, <3>2 DEF WaiterInMap, NoLostWakeup, Live, Blocking
  <2>7. ASSUME NEW r \in RequestIds, NEW ops \in Seq(PatchOps),
               ServePatch(r, ops)
        PROVE  WaiterInMap' /\ NoLostWakeup'
    BY <2>0, <2>7, ServePatchWakes
  <2>8. ASSUME NEW docs, ProcessRestarts(docs)
        PROVE  WaiterInMap' /\ NoLostWakeup'
    <3>1. \A q \in RequestIds : ~Live(q)'
      BY <2>8 DEF ProcessRestarts, Live
    <3>2. QED
      BY <3>1 DEF WaiterInMap, NoLostWakeup
  <2>9. ASSUME NEW r \in RequestIds, PluginNext(r)
        PROVE  WaiterInMap' /\ NoLostWakeup'
    <3>1. CASE Redelivered(r)
      BY <2>1, <3>1 DEF Redelivered
    <3>2. CASE \E ops \in FinishPatches \union {StartPatch} : ServePatch(r, ops)
      BY <2>7, <3>2, PluginPatchesType
    <3>3. QED
      BY <2>9, <3>1, <3>2
         DEF PluginNext, PluginStarts, PluginFinishes, PluginRetries
  <2>10. ASSUME NEW r \in RequestIds, StrayPatch(r)
         PROVE  WaiterInMap' /\ NoLostWakeup'
    BY <2>7, <2>10, LifecycleAssumption DEF StrayPatch
  <2>11. ASSUME NEW r \in RequestIds, RequestListNext(r)
         PROVE  WaiterInMap' /\ NoLostWakeup'
    BY <2>2, <2>3, <2>4, <2>5, <2>11
       DEF RequestListNext, DispatchRefused, DispatchLost
  <2>12. ASSUME NEW r \in RequestIds, BackendNext(r)
         PROVE  WaiterInMap' /\ NoLostWakeup'
    BY <2>1, <2>6, <2>12 DEF BackendNext, BackendAccepts, BackendRefuses
  <2>13. ASSUME NEW r \in RequestIds, CrashInPatch(r)
         PROVE  WaiterInMap' /\ NoLostWakeup'
    BY <2>8, <2>13 DEF CrashInPatch
  <2>14. QED
    BY <2>1, <2>8, <2>9, <2>10, <2>11, <2>12, <2>13
       DEF Next, RemoveJob, Restart, vars
<1>3. QED
  BY <1>1, <1>2, TypeCorrect, PTL DEF Spec


\* A handler that waits has its Event in request_map: post_save can find it.
THEOREM WaitersAreKnown == Spec => []WaiterInMap
<1>1. WaiterInMap /\ NoLostWakeup => WaiterInMap
  OBVIOUS
<1>2. QED
  BY <1>1, NoWakeupIsLost, PTL

=============================================================================
