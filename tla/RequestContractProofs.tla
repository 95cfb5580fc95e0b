------------------------ MODULE RequestContractProofs ------------------------
(***************************************************************************)
(* What a request goes through, and that RequestLifecycle implements       *)
(* RequestContract: for every set of requests, jobs and values, whatever   *)
(* Bartender, the connection to it, the plugins and the process do, as     *)
(* long as the assumptions named here hold.                                *)
(***************************************************************************)
EXTENDS RequestLifecycleProofs

\* Without these a completed request opens again, as status is not guarded.
DeliveredOnce == "redelivers" \notin Surroundings
OnlyPluginsPatch == "strays" \notin Surroundings

\* Without this a POST that could not connect leaves its document behind.
Reachable == "unreachable" \notin Surroundings

-----------------------------------------------------------------------------
(***************************************************************************)
(* The inductive invariant, for one request.                               *)
(***************************************************************************)

\* Nothing is known of a request before its POST.
NotPosted(r) ==
    handler[r] = "idle" =>
        /\ requests[r] = Missing /\ announced[r] = {} /\ call[r] = "no"
        /\ plugin[r] = "none" /\ rpc[r] = "none" /\ reply[r] = Unanswered

\* The document is as far as the plugin: they differ only inside a step.
PluginStage(r) ==
    Exists(r) =>
        /\ plugin[r] = "none" => requests[r].status \in {"CREATED", "CANCELED"}
        /\ plugin[r] = "queued" => requests[r].status = "CREATED"
        /\ plugin[r] = "running" => requests[r].status = "IN_PROGRESS"
        /\ plugin[r] = "finished" => requests[r].status \in {"SUCCESS", "ERROR"}

\* Where the handler stands, what Bartender has said and what the caller knows.
HandlerStage(r) ==
    /\ Live(r) => Exists(r) /\ reply[r] = Unanswered
    /\ handler[r] = "done" => reply[r].code # "none"
    /\ handler[r] = "dispatching" => rpc[r] # "none"
    /\ handler[r] = "waiting" => call[r] \in {"forever", "seconds"}
    /\ rpc[r] \in {"accepted", "invalid", "unpublished"} => handler[r] = "dispatching"

\* What is announced of a POST that ended in an exception.
FailedCreation == {[name |-> "REQUEST_CREATED", error |-> TRUE]}

\* Until Bartender accepts a request nobody works on it, and if it refuses
\* nobody ever will.
BartenderStage(r) ==
    /\ rpc[r] \in {"sent", "invalid", "unpublished"} =>
           requests[r].status = "CREATED" /\ plugin[r] = "none" /\ announced[r] = {}
    /\ reply[r].code \in {"400", "502"} =>
           /\ requests[r] = Missing /\ announced[r] = FailedCreation
           /\ plugin[r] = "none" /\ rpc[r] = "none"

\* A request that waits in nobody's queue is one that Bartender has yet to
\* answer for, or one whose caller was told that something is wrong.
QueueStage(r) ==
    requests[r].status = "CREATED" /\ plugin[r] = "none" =>
        \/ handler[r] = "dispatching" /\ rpc[r] # "accepted"
        \/ reply[r].code = "dropped"
        \/ reply[r].code = "503" /\ ~Reachable

\* An Event is set for a request that has its result; a caller that was given
\* one was given that of the document.
ResultStage(r) ==
    /\ Live(r) /\ request_map[r] = "set" => requests[r].status \in {"SUCCESS", "ERROR"}
    /\ reply[r].code = "201" /\ Blocking(r) =>
           /\ reply[r].body \in COMPLETED_STATUSES
           /\ requests[r].status = reply[r].body

Story(r) ==
    /\ NotPosted(r) /\ PluginStage(r) /\ HandlerStage(r)
    /\ BartenderStage(r) /\ QueueStage(r) /\ ResultStage(r)

StoryInv == \A r \in RequestIds : Story(r)

-----------------------------------------------------------------------------
(***************************************************************************)
(* What plugins' updates do to a document.                                 *)
(***************************************************************************)

\* The single value that a body gives a field, or none.
LEMMA FinalValueIs ==
    ASSUME NEW doc, NEW ops, NEW field, NEW v, LastWritten(ops, field) = {v}
    PROVE  FinalValue(doc, ops, field) = v
BY DEF FinalValue

\* A plugin that starts sets the status and nothing else.
LEMMA StartPatchResult ==
    ASSUME NEW doc \in Docs
    PROVE  /\ PatchedDoc(doc, StartPatch) = [doc EXCEPT !.status = "IN_PROGRESS"]
           /\ ~Completes(StartPatch)
           /\ ~Rejected(doc, StartPatch)
<1>1. /\ DOMAIN StartPatch = {1}
      /\ StartPatch[1] = [path |-> "status", value |-> "IN_PROGRESS"]
  BY DEF StartPatch, Op
<1>2. LastWritten(StartPatch, "status") = {"IN_PROGRESS"}
  BY <1>1 DEF LastWritten
<1>3. LastWritten(StartPatch, "output") = {} /\ LastWritten(StartPatch, "error_class") = {}
  BY <1>1 DEF LastWritten
<1>4. /\ FinalValue(doc, StartPatch, "status") = "IN_PROGRESS"
      /\ FinalValue(doc, StartPatch, "output") = doc.output
      /\ FinalValue(doc, StartPatch, "error_class") = doc.error_class
  BY <1>2, <1>3, FinalValueIs DEF FinalValue
<1>5. PatchedDoc(doc, StartPatch) = [doc EXCEPT !.status = "IN_PROGRESS"]
  BY <1>4 DEF PatchedDoc, Docs
<1>6. QED
  BY <1>1, <1>5 DEF Completes, Rejected, RejectsOp, GuardedFields, COMPLETED_STATUSES

\* A plugin that finishes sets the status, the output and, if it failed, the
\* error class.
LEMMA FinishPatchResult ==
    ASSUME NEW doc \in Docs, NEW ops \in FinishPatches
    PROVE  \E v \in Values :
               /\ \/ PatchedDoc(doc, ops) = [doc EXCEPT !.status = "SUCCESS", !.output = v]
                  \/ PatchedDoc(doc, ops) = [doc EXCEPT !.status = "ERROR", !.output = v,
                                                        !.error_class = v]
               /\ Completes(ops)
               /\ doc.status \notin COMPLETED_STATUSES => ~Rejected(doc, ops)
<1>1. PICK v \in Values :
          \/ ops = <<Op("status", "SUCCESS"), Op("output", v)>>
          \/ ops = <<Op("status", "ERROR"), Op("output", v), Op("error_class", v)>>
  BY DEF FinishPatches
<1>2. CASE ops = <<Op("status", "SUCCESS"), Op("output", v)>>
  <2>1. /\ DOMAIN ops = {1, 2}
        /\ ops[1] = [path |-> "status", value |-> "SUCCESS"]
        /\ ops[2] = [path |-> "output", value |-> v]
    BY <1>2 DEF Op
  <2>2. LastWritten(ops, "status") = {"SUCCESS"} /\ LastWritten(ops, "output") = {v}
    BY <2>1 DEF LastWritten
  <2>3. LastWritten(ops, "error_class") = {}
    BY <2>1 DEF LastWritten
  <2>4. /\ FinalValue(doc, ops, "status") = "SUCCESS"
        /\ FinalValue(doc, ops, "output") = v
        /\ FinalValue(doc, ops, "error_class") = doc.error_class
    BY <2>2, <2>3, FinalValueIs DEF FinalValue
  <2>5. PatchedDoc(doc, ops) = [doc EXCEPT !.status = "SUCCESS", !.output = v]
    BY <2>4 DEF PatchedDoc, Docs
  <2>6. Completes(ops)
    BY <2>1 DEF Completes, COMPLETED_STATUSES
  <2>7. doc.status \notin COMPLETED_STATUSES => ~Rejected(doc, ops)
    BY <2>1 DEF Rejected, RejectsOp
  <2>8. QED
    BY <2>5, <2>6, <2>7
<1>3. CASE ops = <<Op("status", "ERROR"), Op("output", v), Op("error_class", v)>>
  <2>1. /\ DOMAIN ops = {1, 2, 3}
        /\ ops[1] = [path |-> "status", value |-> "ERROR"]
        /\ ops[2] = [path |-> "output", value |-> v]
        /\ ops[3] = [path |-> "error_class", value |-> v]
    BY <1>3 DEF Op
  <2>2. /\ LastWritten(ops, "status") = {"ERROR"} /\ LastWritten(ops, "output") = {v}
        /\ LastWritten(ops, "error_class") = {v}
    <3>1. LastWritten(ops, "status") = {"ERROR"}
      BY <2>1 DEF LastWritten
    <3>2. LastWritten(ops, "output") = {v}
      BY <2>1 DEF LastWritten
    <3>3. LastWritten(ops, "error_class") = {v}
      BY <2>1 DEF LastWritten
    <3>4. QED
      BY <3>1, <3>2, <3>3
  <2>3. /\ FinalValue(doc, ops, "status") = "ERROR"
        /\ FinalValue(doc, ops, "output") = v
        /\ FinalValue(doc, ops, "error_class") = v
    BY <2>2, FinalValueIs DEF FinalValue
  <2>4. PatchedDoc(doc, ops) = [doc EXCEPT !.status = "ERROR", !.output = v, !.error_class = v]
    BY <2>3 DEF PatchedDoc, Docs
  <2>5. Completes(ops)
    BY <2>1 DEF Completes, COMPLETED_STATUSES
  <2>6. doc.status \notin COMPLETED_STATUSES => ~Rejected(doc, ops)
    BY <2>1 DEF Rejected, RejectsOp
  <2>7. QED
    BY <2>4, <2>5, <2>6
<1>4. QED
  BY <1>1, <1>2, <1>3

\* Either way it ends with a result.
LEMMA FinishedStatus ==
    ASSUME NEW doc \in Docs, NEW ops \in FinishPatches
    PROVE  /\ PatchedDoc(doc, ops).status \in {"SUCCESS", "ERROR"}
           /\ doc.status \notin COMPLETED_STATUSES => ~Rejected(doc, ops)
<1>1. PICK v \in Values :
          /\ \/ PatchedDoc(doc, ops) = [doc EXCEPT !.status = "SUCCESS", !.output = v]
             \/ PatchedDoc(doc, ops) = [doc EXCEPT !.status = "ERROR", !.output = v,
                                                   !.error_class = v]
          /\ doc.status \notin COMPLETED_STATUSES => ~Rejected(doc, ops)
  BY FinishPatchResult
<1>2. /\ [doc EXCEPT !.status = "SUCCESS", !.output = v].status = "SUCCESS"
      /\ [doc EXCEPT !.status = "ERROR", !.output = v, !.error_class = v].status = "ERROR"
  BY DEF Docs
<1>3. QED
  BY <1>1, <1>2

-----------------------------------------------------------------------------
(***************************************************************************)
(* The story of one request goes on with every action on it.               *)
(***************************************************************************)

Untouched(r) ==
    /\ requests'[r] = requests[r] /\ request_map'[r] = request_map[r]
    /\ handler'[r] = handler[r] /\ call'[r] = call[r] /\ reply'[r] = reply[r]
    /\ rpc'[r] = rpc[r] /\ plugin'[r] = plugin[r] /\ announced'[r] = announced[r]

\* A step that is not about a request leaves its story as it is.
LEMMA StoryUntouched ==
    ASSUME NEW r, Story(r), Untouched(r)
    PROVE  Story(r)'
BY DEF Untouched, Story, NotPosted, PluginStage, HandlerStage, BartenderStage, QueueStage,
       ResultStage, Exists, Live, Blocking

\* A POST announces nothing yet, or its failure when there is no connection.
LEMMA PostAnnounces ==
    ASSUME TypeOK, NEW r \in RequestIds, Story(r), NEW c, NEW j,
           Post(r, c, j) \/ PostUnreachable(r, c, j)
    PROVE  announced'[r] \subseteq FailedCreation /\ (Reachable => announced'[r] = {})
<1>1. announced[r] = {}
  BY DEF Post, PostUnreachable, AcceptPost, Story, NotPosted
<1>2. CASE Post(r, c, j)
  BY <1>1, <1>2 DEF Post
<1>3. CASE PostUnreachable(r, c, j)
  <2>1. announced' = [announced EXCEPT ![r] = announced[r] \union
                         {[name |-> "REQUEST_CREATED", error |-> TRUE]}]
    BY <1>3 DEF PostUnreachable, Announce
  <2>2. announced'[r] = FailedCreation
    BY <1>1, <2>1 DEF TypeOK, FailedCreation
  <2>3. QED
    BY <1>3, <2>2 DEF PostUnreachable, Mishap, Reachable
<1>4. QED
  BY <1>2, <1>3

\* A POST makes a document, a waiter if it blocks, and a call to Bartender.
LEMMA PostStory ==
    ASSUME TypeOK, NEW r \in RequestIds, Story(r), NEW c, NEW j,
           Post(r, c, j) \/ PostUnreachable(r, c, j)
    PROVE  Story(r)'
<1>1. /\ requests'[r].status = "CREATED"
      /\ request_map'[r] # "set"
      /\ plugin'[r] = "none"
      /\ handler[r] = "idle" /\ reply[r] = Unanswered
  <2>1. AcceptPost(r, c, j) /\ UNCHANGED plugin
    BY DEF Post, PostUnreachable
  <2>2. plugin[r] = "none" /\ reply[r] = Unanswered /\ handler[r] = "idle"
    BY <2>1 DEF AcceptPost, Story, NotPosted
  <2>3. NewDoc(j).status = "CREATED"
    BY DEF NewDoc, Missing
  <2>4. requests'[r] = NewDoc(j) /\ request_map'[r] # "set"
    BY <2>1 DEF AcceptPost, TypeOK
  <2>5. QED
    BY <2>1, <2>2, <2>3, <2>4
<1>2. CASE Post(r, c, j)
  <2>1. handler'[r] = "dispatching" /\ rpc'[r] = "sent" /\ reply'[r] = Unanswered
    BY <1>1, <1>2 DEF Post, TypeOK
  <2>2. announced'[r] = {}
    BY <1>2 DEF Post, AcceptPost, Story, NotPosted
  <2>3. QED
    BY <1>1, <2>1, <2>2
       DEF Story, NotPosted, PluginStage, HandlerStage, BartenderStage, QueueStage,
           ResultStage, Exists, Live, Unanswered, Answer
<1>3. CASE PostUnreachable(r, c, j)
  <2>1. /\ handler'[r] = "done" /\ rpc'[r] = "none" /\ reply'[r].code = "503"
        /\ ~Reachable
    <3>1. rpc'[r] = "none"
      BY <1>1, <1>3 DEF PostUnreachable, Story, NotPosted
    <3>2. reply'[r] = Answer("503") /\ handler'[r] = "done"
      BY <1>3 DEF PostUnreachable, TypeOK
    <3>3. QED
      BY <1>3, <3>1, <3>2 DEF PostUnreachable, Mishap, Answer, Reachable
  <2>2. QED
    BY <1>1, <2>1
       DEF Story, NotPosted, PluginStage, HandlerStage, BartenderStage, QueueStage,
           ResultStage, Exists, Live
<1>4. QED
  BY <1>2, <1>3

\* Bartender puts a message on the queue or refuses.
LEMMA BackendStory ==
    ASSUME TypeOK, NEW r \in RequestIds, Story(r), BackendAccepts(r) \/ BackendRefuses(r)
    PROVE  Story(r)'
<1>1. /\ rpc[r] = "sent" /\ requests[r].status = "CREATED"
      /\ plugin[r] = "none" /\ announced[r] = {}
      /\ UNCHANGED <<requests, request_map, handler, call, reply, announced>>
      /\ handler[r] # "idle"
  <2>1. rpc[r] = "sent" /\ UNCHANGED <<requests, request_map, handler, call, reply, announced>>
    BY DEF BackendAccepts, BackendRefuses
  <2>2. QED
    BY <2>1 DEF Story, BartenderStage, NotPosted
<1>2. CASE BackendAccepts(r)
  <2>1. /\ plugin'[r] = "queued"
        /\ rpc'[r] = IF handler[r] = "dispatching" THEN "accepted" ELSE "none"
    BY <1>2 DEF BackendAccepts, BackendAnswers, TypeOK
  <2>2. reply[r].code \notin {"400", "502"}
    BY <1>1 DEF Story, BartenderStage, Missing
  <2>3. QED
    BY <1>1, <2>1, <2>2
       DEF Story, NotPosted, PluginStage, HandlerStage, BartenderStage, QueueStage,
           ResultStage, Exists, Live, Blocking
<1>3. CASE BackendRefuses(r)
  <2>1. PICK outcome \in {"invalid", "unpublished"} :
            rpc'[r] = IF handler[r] = "dispatching" THEN outcome ELSE "none"
    BY <1>3 DEF BackendRefuses, BackendAnswers, TypeOK
  <2>2. plugin'[r] = "none"
    BY <1>1, <1>3 DEF BackendRefuses
  <2>3. reply[r].code \notin {"400", "502"}
    BY <1>1 DEF Story, BartenderStage, Missing
  <2>4. QED
    BY <1>1, <2>1, <2>2, <2>3
       DEF Story, NotPosted, PluginStage, HandlerStage, BartenderStage, QueueStage,
           ResultStage, Exists, Live, Blocking
<1>4. QED
  BY <1>2, <1>3

\* The handler hears that Bartender has accepted.
LEMMA DispatchedStory ==
    ASSUME TypeOK, NEW r \in RequestIds, Story(r), Dispatched(r)
    PROVE  Story(r)'
<1>1. /\ handler[r] = "dispatching" /\ rpc[r] = "accepted" /\ rpc'[r] = "none"
      /\ Exists(r) /\ reply[r] = Unanswered
      /\ UNCHANGED <<requests, call, plugin>>
      /\ ~(requests[r].status = "CREATED" /\ plugin[r] = "none")
      /\ reply[r].code = "none"
  BY DEF Dispatched, Story, HandlerStage, QueueStage, Live, TypeOK, Unanswered, Answer
<1>2. CASE /\ call[r] \in {"forever", "seconds"}
           /\ handler' = [handler EXCEPT ![r] = "waiting"] /\ UNCHANGED <<reply, request_map>>
  <2>1. handler'[r] = "waiting"
    BY <1>2 DEF TypeOK
  <2>2. QED
    BY <1>1, <1>2, <2>1
       DEF Story, NotPosted, PluginStage, HandlerStage, BartenderStage, QueueStage,
           ResultStage, Exists, Live, Blocking
<1>3. ASSUME NEW answer, Finish(r, answer),
             answer.code \in {"201", "500"},
             answer.code = "201" /\ Blocking(r) =>
                 answer.body = requests[r].status /\ request_map[r] = "set"
      PROVE  Story(r)'
  <2>1. handler'[r] = "done" /\ reply'[r] = answer /\ request_map'[r] = "none"
    BY <1>3 DEF Finish, TypeOK
  <2>2. answer.code = "201" /\ Blocking(r) =>
            answer.body = requests[r].status /\ requests[r].status \in COMPLETED_STATUSES
    BY <1>1, <1>3 DEF Story, ResultStage, Live, COMPLETED_STATUSES
  <2>3. QED
    BY <1>1, <1>3, <2>1, <2>2
       DEF Story, NotPosted, PluginStage, HandlerStage, BartenderStage, QueueStage,
           ResultStage, Exists, Live, Blocking
<1>4. CASE call[r] = "no" /\ Finish(r, [code |-> "201", body |-> "CREATED"])
  BY <1>3, <1>4 DEF Blocking
<1>5. CASE Finish(r, Answer("500"))
  BY <1>3, <1>5 DEF Answer
<1>6. CASE request_map[r] = "set" /\ FinishReloaded(r)
  BY <1>3, <1>6 DEF FinishReloaded
<1>7. QED
  BY <1>2, <1>4, <1>5, <1>6 DEF Dispatched

\* A refusal takes the document away; one for a lost answer may leave a message.
LEMMA WithdrawStory ==
    ASSUME TypeOK, NEW r \in RequestIds, Story(r), DispatchRefused(r) \/ DispatchLost(r)
    PROVE  Story(r)'
<1>1. PICK code \in {"400", "502", "503", "504"} :
          /\ Withdraw(r, code)
          /\ code \in {"400", "502"} => rpc[r] \in {"invalid", "unpublished"}
  BY DEF DispatchRefused, DispatchLost
<1>2. /\ requests'[r] = Missing /\ handler'[r] = "done" /\ reply'[r].code = code
      /\ rpc'[r] = "none" /\ UNCHANGED <<call, plugin>>
  BY <1>1 DEF Withdraw, Answer, TypeOK
<1>3. code \in {"400", "502"} => plugin[r] = "none" /\ announced'[r] = FailedCreation
  <2>1. announced' = [announced EXCEPT ![r] = announced[r] \union
                         {[name |-> "REQUEST_CREATED", error |-> TRUE]}]
    BY <1>1 DEF Withdraw, Announce
  <2>2. code \in {"400", "502"} => plugin[r] = "none" /\ announced[r] = {}
    BY <1>1 DEF Story, BartenderStage
  <2>3. QED
    BY <2>1, <2>2 DEF TypeOK, FailedCreation
<1>4. QED
  BY <1>2, <1>3
     DEF Story, NotPosted, PluginStage, HandlerStage, BartenderStage, QueueStage,
         ResultStage, Exists, Live, Missing

\* A waiting call is woken with the result or times out.
LEMMA WaitStory ==
    ASSUME TypeOK, NEW r \in RequestIds, Story(r), Wake(r) \/ Expire(r)
    PROVE  Story(r)'
<1>1. PICK answer :
          /\ Finish(r, answer)
          /\ answer.code \in {"201", "408"}
          /\ answer.code = "201" => answer.body = requests[r].status /\ request_map[r] = "set"
  <2>1. CASE Wake(r)
    <3>1. Finish(r, [code |-> "201", body |-> requests[r].status]) /\ request_map[r] = "set"
      BY <2>1 DEF Wake, FinishReloaded
    <3>2. QED
      BY <3>1
  <2>2. CASE Expire(r)
    <3>1. Finish(r, [code |-> "408", body |-> "none"])
      BY <2>2 DEF Expire, Answer
    <3>2. QED
      BY <3>1
  <2>3. QED
    BY <2>1, <2>2
<1>2. /\ handler'[r] = "done" /\ reply'[r] = answer /\ request_map'[r] = "none"
      /\ UNCHANGED <<requests, call, rpc, plugin, announced>>
      /\ handler[r] = "waiting"
  BY <1>1 DEF Wake, Expire, Finish, TypeOK
<1>3. Exists(r) /\ rpc[r] \notin {"accepted", "invalid", "unpublished"}
      /\ reply[r] = Unanswered /\ reply[r].code = "none"
      /\ ~(requests[r].status = "CREATED" /\ plugin[r] = "none")
  BY <1>2 DEF Story, HandlerStage, QueueStage, Live, Unanswered, Answer
<1>4. answer.code = "201" => requests[r].status \in {"SUCCESS", "ERROR"}
  BY <1>1, <1>2 DEF Story, ResultStage, Live
<1>5. QED
  BY <1>1, <1>2, <1>3, <1>4
     DEF Story, NotPosted, PluginStage, HandlerStage, BartenderStage, QueueStage,
         ResultStage, Exists, Live, Blocking, COMPLETED_STATUSES

\* An update of the plugin: the document follows it, and so does the waiter.
LEMMA PluginStory ==
    ASSUME TypeOK, NEW r \in RequestIds, Story(r),
           PluginStarts(r) \/ PluginFinishes(r) \/ PluginRetries(r)
    PROVE  Story(r)'
<1>1. /\ UNCHANGED <<handler, call, reply, rpc>>
      /\ plugin[r] \in {"queued", "running", "finished"}
      /\ plugin'[r] \in {"running", "finished"}
  BY DEF PluginStarts, PluginFinishes, PluginRetries, ServePatch, TypeOK
<1>2. /\ handler[r] # "idle"
      /\ rpc[r] \notin {"sent", "invalid", "unpublished"}
      /\ reply[r].code \notin {"400", "502"}
  BY <1>1 DEF Story, NotPosted, BartenderStage
<1>3. CASE ~Exists(r)
  <2>1. UNCHANGED <<requests, request_map, announced>>
    BY <1>3 DEF PluginStarts, PluginFinishes, PluginRetries, ServePatch
  <2>2. QED
    BY <1>1, <1>2, <1>3, <2>1
       DEF Story, NotPosted, PluginStage, HandlerStage, BartenderStage, QueueStage,
           ResultStage, Exists, Live, Blocking
<1>4. ASSUME Exists(r),
             plugin'[r] = "running" => requests'[r].status = "IN_PROGRESS",
             plugin'[r] = "finished" => requests'[r].status \in {"SUCCESS", "ERROR"},
             requests'[r].status = requests[r].status \/ plugin[r] \in {"queued", "running"},
             request_map'[r] = request_map[r] \/ plugin'[r] = "finished"
      PROVE  Story(r)'
  <2>1. Live(r) /\ plugin[r] \in {"queued", "running"} => request_map[r] # "set"
    BY <1>4 DEF Story, PluginStage, ResultStage
  <2>2. reply[r].code = "201" /\ Blocking(r) => requests'[r].status = requests[r].status
    BY <1>4 DEF Story, PluginStage, ResultStage, COMPLETED_STATUSES
  <2>3. requests'[r].status \notin {"none", "CREATED"}
    BY <1>1, <1>4
  <2>4. Exists(r)' /\ Live(r)' = Live(r) /\ Blocking(r)' = Blocking(r)
    BY <1>1, <2>3 DEF Exists, Live, Blocking
  <2>5. PluginStage(r)' /\ HandlerStage(r)' /\ NotPosted(r)' /\ BartenderStage(r)' /\ QueueStage(r)'
    BY <1>1, <1>2, <1>4, <2>3, <2>4
       DEF Story, NotPosted, PluginStage, HandlerStage, BartenderStage, QueueStage
  <2>6. Live(r) /\ request_map'[r] = "set" => requests'[r].status \in {"SUCCESS", "ERROR"}
    BY <1>1, <1>4, <2>1 DEF Story, PluginStage, ResultStage
  <2>7. ResultStage(r)'
    BY <1>1, <2>2, <2>4, <2>6 DEF Story, ResultStage
  <2>8. QED
    BY <2>5, <2>7 DEF Story
<1>5. ASSUME Exists(r), plugin[r] \in {"queued", "running"}, plugin'[r] = "running",
             ServePatch(r, StartPatch)
      PROVE  Story(r)'
  <2>1. requests[r] \in Docs
    BY <1>5, ExistingDoc
  <2>2. ApplyPatch(r, StartPatch) /\ ~Completes(StartPatch)
    BY <1>5, <2>1, StartPatchResult DEF ServePatch
  <2>3. requests'[r].status = "IN_PROGRESS"
    BY <2>1, <2>2, StartPatchResult DEF ApplyPatch, TypeOK, Docs
  <2>4. request_map'[r] = request_map[r]
    BY <2>2 DEF ApplyPatch, TypeOK
  <2>5. QED
    BY <1>4, <1>5, <2>3, <2>4
<1>6. ASSUME Exists(r), plugin[r] = "running", plugin'[r] = "finished",
             NEW ops \in FinishPatches, ServePatch(r, ops)
      PROVE  Story(r)'
  <2>1. requests[r] \in Docs /\ requests[r].status \notin COMPLETED_STATUSES
    BY <1>6, ExistingDoc DEF Story, PluginStage, COMPLETED_STATUSES
  <2>2. ~Rejected(requests[r], ops) /\ PatchedDoc(requests[r], ops).status \in {"SUCCESS", "ERROR"}
    BY <2>1, FinishedStatus
  <2>3. requests'[r].status \in {"SUCCESS", "ERROR"}
    BY <1>6, <2>2 DEF ServePatch, ApplyPatch, TypeOK
  <2>4. QED
    BY <1>4, <1>6, <2>3
<1>7. ASSUME Exists(r), plugin[r] = "finished", plugin'[r] = "finished",
             NEW ops \in FinishPatches, ServePatch(r, ops), PatchedDoc(requests[r], ops) = requests[r]
      PROVE  Story(r)'
  <2>1. requests'[r] = requests[r]
    BY <1>7 DEF ServePatch, ApplyPatch, TypeOK
  <2>2. QED
    BY <1>4, <1>7, <2>1 DEF Story, PluginStage
<1>8. CASE PluginStarts(r)
  BY <1>3, <1>5, <1>8 DEF PluginStarts, TypeOK
<1>9. CASE PluginFinishes(r)
  BY <1>3, <1>6, <1>9 DEF PluginFinishes, TypeOK
<1>10. CASE PluginRetries(r)
  BY <1>3, <1>5, <1>7, <1>10 DEF PluginRetries
<1>11. QED
  BY <1>8, <1>9, <1>10

\* Bartender cancels a request in the queue behind the handler's back.
LEMMA ClearedStory ==
    ASSUME TypeOK, NEW r \in RequestIds, Story(r), MessageCleared(r)
    PROVE  Story(r)'
<1>1. /\ UNCHANGED <<request_map, handler, call, reply, rpc, announced>>
      /\ plugin[r] = "queued" /\ plugin'[r] = "none"
  BY DEF MessageCleared, TypeOK
<1>2. /\ handler[r] # "idle" /\ rpc[r] \notin {"sent", "invalid", "unpublished"}
      /\ reply[r].code \notin {"400", "502"}
  BY <1>1 DEF Story, NotPosted, BartenderStage
<1>3. CASE ~Exists(r)
  <2>1. requests'[r].status = "none"
    BY <1>3 DEF MessageCleared, Exists
  <2>2. QED
    BY <1>1, <1>2, <1>3, <2>1
       DEF Story, NotPosted, PluginStage, HandlerStage, BartenderStage, QueueStage,
           ResultStage, Exists, Live, Blocking
<1>4. CASE Exists(r)
  <2>1. requests[r].status = "CREATED"
    BY <1>1, <1>4 DEF Story, PluginStage
  <2>2. requests'[r].status = "CANCELED"
    <3>1. requests' = [requests EXCEPT ![r] = [requests[r] EXCEPT !.status = "CANCELED"]]
      BY <1>4 DEF MessageCleared
    <3>2. requests[r] \in Docs
      BY <1>4, ExistingDoc
    <3>3. QED
      BY <3>1, <3>2 DEF TypeOK, Docs
  <2>3. QED
    BY <1>1, <1>2, <1>4, <2>1, <2>2
       DEF Story, NotPosted, PluginStage, HandlerStage, BartenderStage, QueueStage,
           ResultStage, Exists, Live, Blocking, COMPLETED_STATUSES
<1>5. QED
  BY <1>3, <1>4

\* What a restart does to one request: its caller is cut off.
LEMMA RestartOf ==
    ASSUME TypeOK, NEW r \in RequestIds, NEW docs, ProcessRestarts(docs)
    PROVE  /\ request_map'[r] = "none"
           /\ handler'[r] = IF Live(r) THEN "done" ELSE handler[r]
           /\ reply'[r] = IF Live(r) THEN Answer("dropped") ELSE reply[r]
           /\ rpc'[r] # "none" => rpc'[r] = "sent" /\ rpc[r] = "sent"
           /\ UNCHANGED <<call, announced>>
<1>1. PICK arriving \in SUBSET {q \in RequestIds : rpc[q] = "sent"} :
          rpc' = [q \in RequestIds |-> IF q \in arriving THEN "sent" ELSE "none"]
  BY DEF ProcessRestarts
<1>2. rpc'[r] # "none" => rpc'[r] = "sent" /\ rpc[r] = "sent"
  BY <1>1
<1>3. QED
  BY <1>2 DEF ProcessRestarts

\* After a restart only what is in Mongo and RabbitMQ goes on.
LEMMA RestartStory ==
    ASSUME TypeOK, NEW r \in RequestIds, Story(r), NEW docs, ProcessRestarts(docs),
           requests'[r] = requests[r], plugin'[r] = plugin[r]
    PROVE  Story(r)'
<1>1. CASE Live(r)
  <2>1. /\ handler'[r] = "done" /\ reply'[r].code = "dropped" /\ ~Live(r)'
    BY <1>1, RestartOf DEF Live, Answer
  <2>2. QED
    BY <1>1, <2>1, RestartOf
       DEF Story, NotPosted, PluginStage, HandlerStage, BartenderStage, QueueStage,
           ResultStage, Exists, Blocking
<1>2. CASE ~Live(r)
  <2>1. handler'[r] = handler[r] /\ reply'[r] = reply[r] /\ ~Live(r)'
    BY <1>2, RestartOf DEF Live
  <2>2. handler[r] # "dispatching"
    BY <1>2 DEF Live
  <2>3. QED
    BY <1>2, <2>1, <2>2, RestartOf
       DEF Story, NotPosted, PluginStage, HandlerStage, BartenderStage, QueueStage,
           ResultStage, Exists, Blocking
<1>3. QED
  BY <1>1, <1>2

\* A crash in a PATCH of the plugin: the document is as the plugin wanted it.
LEMMA CrashStory ==
    ASSUME TypeOK, NEW r \in RequestIds, Story(r), CrashInPatch(r)
    PROVE  Story(r)'
<1>1. /\ Exists(r) /\ requests[r] \in Docs
      /\ plugin[r] \in {"queued", "running"}
      /\ ProcessRestarts(requests')
  BY ExistingDoc DEF CrashInPatch
<1>2. \/ requests'[r].status = "IN_PROGRESS" /\ plugin'[r] = "running"
      \/ requests'[r].status \in {"SUCCESS", "ERROR"} /\ plugin'[r] = "finished"
  <2>1. CASE plugin[r] = "queued"
    <3>1. PatchedDoc(requests[r], StartPatch).status = "IN_PROGRESS"
      BY <1>1, StartPatchResult DEF Docs
    <3>2. QED
      BY <2>1, <3>1 DEF CrashInPatch, TypeOK
  <2>2. CASE plugin[r] = "running"
    <3>1. \A ops \in FinishPatches :
              PatchedDoc(requests[r], ops).status \in {"SUCCESS", "ERROR"}
      BY <1>1, FinishedStatus
    <3>2. QED
      BY <2>2, <3>1 DEF CrashInPatch, TypeOK
  <2>3. QED
    BY <1>1, <2>1, <2>2
<1>3. /\ handler[r] # "idle" /\ rpc[r] # "sent"
      /\ reply[r].code \notin {"400", "502"}
      /\ requests[r].status \in {"CREATED", "IN_PROGRESS"}
  BY <1>1 DEF Story, NotPosted, BartenderStage, PluginStage
<1>4. /\ handler'[r] \notin {"idle", "dispatching", "waiting"} /\ ~Live(r)'
      /\ rpc'[r] = "none" /\ reply'[r].code \notin {"none", "400", "502"}
      /\ reply'[r].code = "201" => ~Live(r) /\ reply'[r] = reply[r]
      /\ UNCHANGED <<call, announced>>
  <2>1. handler[r] \in {"dispatching", "waiting", "done"}
    BY <1>3 DEF TypeOK
  <2>2. QED
    BY <1>1, <1>3, <2>1, RestartOf DEF Live, Answer, Story, HandlerStage
<1>5. ~(reply'[r].code = "201" /\ Blocking(r))
  BY <1>3, <1>4 DEF Story, ResultStage, COMPLETED_STATUSES
<1>6. QED
  BY <1>2, <1>4, <1>5
     DEF Story, NotPosted, PluginStage, HandlerStage, BartenderStage, QueueStage,
         ResultStage, Exists, Blocking

\* What an action is about: it leaves every other request alone.
ActionOf(r) ==
    \/ RequestListNext(r) \/ BackendNext(r)
    \/ PluginStarts(r) \/ PluginFinishes(r) \/ PluginRetries(r)

\* The dictionaries and documents of other requests stay as they are.
LEMMA OthersUntouched ==
    ASSUME TypeOK, NEW r \in RequestIds, NEW q \in RequestIds, q # r, ActionOf(r)
    PROVE  Untouched(q)
<1>0. ASSUME NEW error, Announce(r, "REQUEST_CREATED", error)
      PROVE  announced'[q] = announced[q]
  <2>1. announced' = [announced EXCEPT ![r] = announced[r] \union
                         {[name |-> "REQUEST_CREATED", error |-> error]}]
    BY <1>0 DEF Announce
  <2>2. QED
    BY <2>1 DEF TypeOK
<1>1. ASSUME NEW c, NEW j, Post(r, c, j) \/ PostUnreachable(r, c, j)
      PROVE  Untouched(q)
  <2>1. announced'[q] = announced[q]
    BY <1>0, <1>1 DEF Post, PostUnreachable
  <2>2. QED
    BY <1>1, <2>1 DEF Post, PostUnreachable, AcceptPost, Untouched, TypeOK
<1>2. ASSUME NEW answer, Finish(r, answer)
      PROVE  /\ handler'[q] = handler[q] /\ reply'[q] = reply[q]
             /\ request_map'[q] = request_map[q]
  BY <1>2 DEF Finish, TypeOK
<1>3. CASE Dispatched(r)
  <2>1. handler'[q] = handler[q] /\ reply'[q] = reply[q] /\ request_map'[q] = request_map[q]
    BY <1>2, <1>3 DEF Dispatched, FinishReloaded, TypeOK
  <2>2. UNCHANGED <<requests, call, plugin>> /\ rpc'[q] = rpc[q]
    BY <1>3 DEF Dispatched, TypeOK
  <2>3. announced'[q] = announced[q]
    BY <1>0, <1>3 DEF Dispatched
  <2>4. QED
    BY <2>1, <2>2, <2>3 DEF Untouched
<1>4. ASSUME NEW code, Withdraw(r, code)
      PROVE  Untouched(q)
  <2>1. announced'[q] = announced[q]
    BY <1>0, <1>4 DEF Withdraw
  <2>2. QED
    BY <1>4, <2>1 DEF Withdraw, Untouched, TypeOK
<1>5. CASE Wake(r) \/ Expire(r)
  <2>1. /\ UNCHANGED <<requests, call, rpc, plugin, announced>>
        /\ \E answer : Finish(r, answer)
    BY <1>5 DEF Wake, Expire, FinishReloaded
  <2>2. QED
    BY <1>2, <2>1 DEF Untouched
<1>6. CASE RequestListNext(r)
  BY <1>1, <1>3, <1>4, <1>5, <1>6 DEF RequestListNext, DispatchRefused, DispatchLost
<1>7. CASE BackendNext(r)
  BY <1>7 DEF BackendNext, BackendAccepts, BackendRefuses, BackendAnswers, MessageCleared,
              Untouched, TypeOK
<1>8. CASE PluginStarts(r) \/ PluginFinishes(r) \/ PluginRetries(r)
  <2>1. PICK ops : ServePatch(r, ops)
    BY <1>8 DEF PluginStarts, PluginFinishes, PluginRetries
  <2>2. plugin'[q] = plugin[q]
    BY <1>8 DEF PluginStarts, PluginFinishes, PluginRetries, TypeOK
  <2>3. QED
    BY <2>1, <2>2 DEF ServePatch, ApplyPatch, Untouched, TypeOK
<1>9. QED
  BY <1>6, <1>7, <1>8 DEF ActionOf

\* What no request notices.
Unnoticed == (\E j \in JobIds : RemoveJob(j)) \/ UNCHANGED vars

\* A step is about one request, about all that the process held, or about none.
LEMMA StepKinds ==
    ASSUME DeliveredOnce, OnlyPluginsPatch, [Next]_vars
    PROVE  \/ \E r \in RequestIds : ActionOf(r)
           \/ \E r \in RequestIds : CrashInPatch(r)
           \/ Restart
           \/ Unnoticed
BY DEF Next, ActionOf, PluginNext, Redelivered, StrayPatch, BoundedMishap, DeliveredOnce,
       OnlyPluginsPatch, Unnoticed

\* Only the jobs change, if anything does.
LEMMA UnnoticedKeeps ==
    ASSUME Unnoticed
    PROVE  /\ UNCHANGED <<requests, request_map, handler, call, reply, rpc, plugin, announced>>
           /\ UNCHANGED gauges
BY DEF Unnoticed, RemoveJob, vars

\* Every step leads the story of every request on.
LEMMA StoryStep ==
    ASSUME DeliveredOnce, OnlyPluginsPatch, TypeOK, StoryInv, [Next]_vars
    PROVE  StoryInv'
<1> SUFFICES ASSUME NEW q \in RequestIds PROVE Story(q)'
  BY DEF StoryInv
<1>1. Story(q)
  BY DEF StoryInv
<1>2. CASE Untouched(q)
  BY <1>1, <1>2, StoryUntouched
<1>3. ASSUME NEW r \in RequestIds, ActionOf(r)
      PROVE  Story(q)'
  <2>1. CASE q # r
    BY <1>2, <1>3, <2>1, OthersUntouched
  <2>2. CASE RequestListNext(q)
    BY <1>1, <2>2, PostStory, DispatchedStory, WithdrawStory, WaitStory DEF RequestListNext
  <2>3. CASE BackendNext(q)
    BY <1>1, <2>3, BackendStory, ClearedStory DEF BackendNext
  <2>4. CASE PluginStarts(q) \/ PluginFinishes(q) \/ PluginRetries(q)
    BY <1>1, <2>4, PluginStory
  <2>5. QED
    BY <1>3, <2>1, <2>2, <2>3, <2>4 DEF ActionOf
<1>4. ASSUME NEW r \in RequestIds, CrashInPatch(r)
      PROVE  Story(q)'
  <2>1. CASE q = r
    BY <1>1, <1>4, <2>1, CrashStory
  <2>2. CASE q # r
    <3>1. requests'[q] = requests[q] /\ plugin'[q] = plugin[q]
      BY <1>4, <2>2 DEF CrashInPatch, TypeOK
    <3>2. QED
      BY <1>1, <1>4, <3>1, RestartStory DEF CrashInPatch
  <2>3. QED
    BY <2>1, <2>2
<1>5. CASE Restart
  BY <1>1, <1>5, RestartStory DEF Restart
<1>6. CASE Unnoticed
  BY <1>2, <1>6, UnnoticedKeeps DEF Untouched
<1>7. QED
  BY <1>3, <1>4, <1>5, <1>6, StepKinds

\* It begins with no request at all.
LEMMA StoryInit == Init => StoryInv
<1> SUFFICES ASSUME Init, NEW r \in RequestIds PROVE Story(r)
  BY DEF StoryInv
<1>1. /\ requests[r] = Missing /\ request_map[r] = "none" /\ handler[r] = "idle"
      /\ call[r] = "no" /\ reply[r] = Unanswered /\ rpc[r] = "none" /\ plugin[r] = "none"
      /\ announced[r] = {}
  BY DEF Init
<1>2. Missing.status = "none" /\ Unanswered.code = "none"
  BY DEF Missing, Unanswered, Answer
<1>3. QED
  BY <1>1, <1>2
     DEF Story, NotPosted, PluginStage, HandlerStage, BartenderStage, QueueStage, ResultStage,
         Exists, Live, Blocking

\* The story of every request, as an invariant.
LEMMA StoryHolds ==
    ASSUME DeliveredOnce, OnlyPluginsPatch
    PROVE  Spec => []StoryInv
<1>1. TypeOK /\ StoryInv /\ [Next]_vars => StoryInv'
  BY StoryStep
<1>2. QED
  BY <1>1, StoryInit, TypeCorrect, PTL DEF Spec

-----------------------------------------------------------------------------
(***************************************************************************)
(* What callers are told.                                                  *)
(***************************************************************************)

\* What a 201 tells a blocking caller is the result, and the document keeps it,
\* whatever updates, restarts and crashes follow (BlockingAnswerHolds).
THEOREM BlockingAnswersHold ==
    ASSUME DeliveredOnce, OnlyPluginsPatch
    PROVE  Spec => []BlockingAnswerHolds
<1>1. StoryInv => BlockingAnswerHolds
  BY DEF StoryInv, Story, ResultStage, BlockingAnswerHolds
<1>2. QED
  BY <1>1, StoryHolds, PTL

\* A POST that Bartender refused leaves neither a document nor a message, and
\* nothing but its failure is ever announced (RefusedLeavesNothing).
THEOREM RefusalsLeaveNothing ==
    ASSUME DeliveredOnce, OnlyPluginsPatch
    PROVE  Spec => []RefusedLeavesNothing
<1>1. StoryInv => RefusedLeavesNothing
  BY DEF StoryInv, Story, BartenderStage, FailedCreation, RefusedLeavesNothing
<1>2. QED
  BY <1>1, StoryHolds, PTL

\* A document in status CREATED is on the queue once its POST was answered.
THEOREM CreatedStaysQueued ==
    ASSUME DeliveredOnce, OnlyPluginsPatch, Reachable
    PROVE  Spec => []CreatedIsQueued
<1>1. TypeOK /\ StoryInv => CreatedIsQueued
  <2> SUFFICES ASSUME TypeOK, StoryInv, NEW r \in RequestIds,
                      requests[r].status = "CREATED", handler[r] # "dispatching",
                      reply[r].code # "dropped"
               PROVE  plugin[r] = "queued"
    BY DEF CreatedIsQueued
  <2>1. plugin[r] # "none"
    BY DEF StoryInv, Story, QueueStage
  <2>2. plugin[r] \notin {"running", "finished"}
    BY DEF StoryInv, Story, PluginStage, Exists
  <2>3. QED
    BY <2>1, <2>2 DEF TypeOK
<1>2. QED
  BY <1>1, StoryHolds, TypeCorrect, PTL

-----------------------------------------------------------------------------
(***************************************************************************)
(* What is completed stays completed.                                      *)
(***************************************************************************)

\* An action on a request whose document is completed keeps the document, or
\* deletes it because Bartender's answer was lost.
LEMMA CompletedAction ==
    ASSUME TypeOK, NEW r \in RequestIds, Story(r), Completed(r), ActionOf(r),
           requests'[r] # requests[r]
    PROVE  requests'[r] = Missing /\ reply'[r].code \in {"503", "504"}
<1>1. Exists(r) /\ requests[r].status \in {"CANCELED", "SUCCESS", "ERROR"}
  BY DEF Completed, Exists, COMPLETED_STATUSES
<1>2. handler[r] # "idle" /\ rpc[r] \notin {"sent", "invalid", "unpublished"}
  BY <1>1 DEF Story, NotPosted, BartenderStage, Missing
<1>3. plugin[r] \notin {"queued", "running"}
  BY <1>1 DEF Story, PluginStage
<1>4. CASE RequestListNext(r)
  <2>1. DispatchLost(r)
    BY <1>2, <1>4
       DEF RequestListNext, Post, PostUnreachable, AcceptPost, Dispatched, DispatchRefused,
           Wake, Expire
  <2>2. PICK code \in {"503", "504"} : Withdraw(r, code)
    BY <2>1 DEF DispatchLost
  <2>3. QED
    BY <2>2 DEF Withdraw, Answer, TypeOK
<1>5. CASE BackendNext(r)
  BY <1>3, <1>5 DEF BackendNext, BackendAccepts, BackendRefuses, MessageCleared
<1>6. CASE PluginStarts(r) \/ PluginFinishes(r) \/ PluginRetries(r)
  <2>1. PICK ops : ServePatch(r, ops) /\ PatchedDoc(requests[r], ops) = requests[r]
    BY <1>3, <1>6 DEF PluginStarts, PluginFinishes, PluginRetries
  <2>2. QED
    BY <2>1 DEF ServePatch, ApplyPatch, TypeOK
<1>7. QED
  BY <1>4, <1>5, <1>6 DEF ActionOf

\* No update, retry, restart or crash changes a completed document: only a
\* POST that lost Bartender's answer deletes it, and says so (CompletedIsFinal).
THEOREM CompletedStaysFinal ==
    ASSUME DeliveredOnce, OnlyPluginsPatch
    PROVE  Spec => CompletedIsFinal
<1> DEFINE Final == \A r \in RequestIds :
                        Completed(r) /\ requests'[r] # requests[r] =>
                            /\ requests'[r] = Missing
                            /\ reply'[r].code \in {"503", "504"}
<1>1. TypeOK /\ StoryInv /\ [Next]_vars => [Final]_vars
  <2> SUFFICES ASSUME TypeOK, StoryInv, [Next]_vars,
                      NEW q \in RequestIds, Completed(q), requests'[q] # requests[q]
               PROVE  requests'[q] = Missing /\ reply'[q].code \in {"503", "504"}
    OBVIOUS
  <2>1. ASSUME NEW r \in RequestIds, ActionOf(r)
        PROVE  ActionOf(q)
    BY <2>1, OthersUntouched DEF Untouched
  <2>2. ASSUME NEW r \in RequestIds, CrashInPatch(r)
        PROVE  FALSE
    <3>1. q = r
      BY <2>2 DEF CrashInPatch, TypeOK
    <3>2. plugin[q] \in {"queued", "running"} /\ Exists(q)
      BY <2>2, <3>1 DEF CrashInPatch
    <3>3. QED
      BY <3>2 DEF StoryInv, Story, PluginStage, Completed, COMPLETED_STATUSES
  <2>3. ~Restart
    BY DEF Restart
  <2>4. ActionOf(q)
    BY <2>1, <2>2, <2>3, StepKinds, UnnoticedKeeps
  <2>5. QED
    BY <2>4, CompletedAction DEF StoryInv
<1>2. QED
  BY <1>1, StoryHolds, TypeCorrect, PTL DEF Spec, CompletedIsFinal

-----------------------------------------------------------------------------
(***************************************************************************)
(* RequestLifecycle implements RequestContract.  A request is seen through *)
(* what became of it, whether its caller waits, and what the caller was    *)
(* told; each action is shown to do one thing to these three.              *)
(***************************************************************************)

\* Nothing of what the contract speaks of changes.
Same(r) == LifeOf(r)' = LifeOf(r) /\ Blocking(r)' = Blocking(r) /\ AnswerTo(r)' = AnswerTo(r)

Asked(r) ==
    /\ LifeOf(r) = "unborn" /\ LifeOf(r)' = "live"
    /\ AnswerTo(r)' = "pending"

HasCompleted(r) ==
    /\ LifeOf(r) = "live" /\ LifeOf(r)' = "completed"
    /\ Blocking(r)' = Blocking(r) /\ AnswerTo(r)' = AnswerTo(r)

\* A caller is told something about a request that stays as it is.
Answered(r) ==
    /\ AnswerTo(r) = "pending"
    /\ LifeOf(r)' = LifeOf(r) /\ Blocking(r)' = Blocking(r)
    /\ \/ ~Blocking(r) /\ AnswerTo(r)' = "accepted"
       \/ Blocking(r) /\ LifeOf(r) = "completed" /\ AnswerTo(r)' = "result"
       \/ Blocking(r) /\ AnswerTo(r)' \in {"late", "error"}

RefusedAndGone(r) ==
    /\ AnswerTo(r) = "pending" /\ AnswerTo(r)' = "refused"
    /\ LifeOf(r)' = "gone" /\ Blocking(r)' = Blocking(r)

\* A request that a step leaves alone stays the same.
LEMMA UntouchedSame ==
    ASSUME NEW r, Untouched(r)
    PROVE  Same(r)
BY DEF Untouched, Same, LifeOf, Completed, Exists, Blocking, AnswerTo

\* A call is pending while its handler lives, and only then.
LEMMA PendingIsLive ==
    ASSUME TypeOK, NEW r \in RequestIds, Story(r)
    PROVE  AnswerTo(r) = "pending" <=> Live(r)
<1>1. handler[r] \in {"idle", "dispatching", "waiting", "done"} /\ reply[r] \in Replies
  BY DEF TypeOK
<1>2. CASE Live(r)
  BY <1>2 DEF Live, AnswerTo, Story, HandlerStage, Unanswered, Answer
<1>3. CASE ~Live(r)
  <2>1. reply[r].code \in Codes /\ (handler[r] = "done" => reply[r].code # "none")
    BY <1>1 DEF Replies, Story, HandlerStage
  <2>2. QED
    BY <1>1, <1>3, <2>1 DEF Live, AnswerTo, Codes
<1>4. QED
  BY <1>2, <1>3

\* A POST asks; there is a connection for it to ask over.
LEMMA PostMapped ==
    ASSUME Reachable, TypeOK, NEW r \in RequestIds, Story(r), NEW c, NEW j,
           Post(r, c, j) \/ PostUnreachable(r, c, j)
    PROVE  Asked(r)
<1>1. Post(r, c, j) /\ AcceptPost(r, c, j)
  BY DEF PostUnreachable, Mishap, Reachable, Post
<1>2. handler[r] = "idle" /\ requests[r] = Missing /\ reply[r] = Unanswered
  BY <1>1 DEF AcceptPost, Story, NotPosted
<1>3. handler'[r] = "dispatching" /\ requests'[r] = NewDoc(j) /\ reply'[r] = Unanswered
  BY <1>1, <1>2 DEF Post, AcceptPost, TypeOK
<1>4. NewDoc(j).status = "CREATED" /\ Missing.status = "none" /\ Unanswered.code = "none"
  BY DEF NewDoc, Missing, Unanswered, Answer
<1>5. QED
  BY <1>2, <1>3, <1>4 DEF Asked, LifeOf, Completed, Exists, COMPLETED_STATUSES, AnswerTo

\* It is accepted, or told that something is wrong, or goes on waiting.
LEMMA DispatchedMapped ==
    ASSUME TypeOK, NEW r \in RequestIds, Story(r), Dispatched(r)
    PROVE  Same(r) \/ Answered(r)
<1>1. /\ Live(r) /\ Exists(r) /\ handler[r] = "dispatching"
      /\ UNCHANGED <<requests, call>>
  BY DEF Dispatched, Live, Story, HandlerStage
<1>2. AnswerTo(r) = "pending"
  BY <1>1, PendingIsLive
<1>3. CASE handler' = [handler EXCEPT ![r] = "waiting"] /\ UNCHANGED <<reply, request_map>>
  <2>1. handler'[r] = "waiting"
    BY <1>3 DEF TypeOK
  <2>2. QED
    BY <1>1, <1>3, <2>1 DEF Same, LifeOf, Completed, Exists, Blocking, AnswerTo
<1>4. ASSUME NEW answer, Finish(r, answer),
             \/ answer.code = "201"
                /\ (Blocking(r) => request_map[r] = "set")
             \/ answer.code = "500" /\ Blocking(r)
      PROVE  Answered(r)
  <2>1. handler'[r] = "done" /\ reply'[r] = answer
    BY <1>4 DEF Finish, TypeOK
  <2>2. LifeOf(r)' = LifeOf(r) /\ Blocking(r)' = Blocking(r)
    BY <1>1, <2>1 DEF LifeOf, Completed, Exists, Blocking
  <2>3. request_map[r] = "set" => LifeOf(r) = "completed"
    BY <1>1 DEF Story, ResultStage, LifeOf, Completed, COMPLETED_STATUSES
  <2>4. AnswerTo(r)' = IF answer.code = "500" THEN "error"
                       ELSE IF Blocking(r) THEN "result" ELSE "accepted"
    BY <1>4, <2>1, <2>2 DEF AnswerTo
  <2>5. QED
    BY <1>2, <1>4, <2>2, <2>3, <2>4 DEF Answered
<1>5. CASE call[r] = "no" /\ Finish(r, [code |-> "201", body |-> "CREATED"])
  BY <1>4, <1>5 DEF Blocking
<1>6. CASE call[r] = "malformed" /\ Finish(r, Answer("500"))
  BY <1>4, <1>6 DEF Blocking, Answer
<1>7. CASE request_map[r] = "set" /\ FinishReloaded(r)
  BY <1>4, <1>7 DEF FinishReloaded
<1>8. QED
  BY <1>3, <1>5, <1>6, <1>7 DEF Dispatched

\* A refusal takes the request away.
LEMMA WithdrawMapped ==
    ASSUME TypeOK, NEW r \in RequestIds, Story(r), DispatchRefused(r) \/ DispatchLost(r)
    PROVE  RefusedAndGone(r)
<1>1. PICK code \in {"400", "502", "503", "504"} : Withdraw(r, code)
  BY DEF DispatchRefused, DispatchLost
<1>2. /\ requests'[r] = Missing /\ handler'[r] = "done" /\ reply'[r].code = code
      /\ UNCHANGED call /\ Live(r)
  BY <1>1 DEF Withdraw, Answer, TypeOK, Live
<1>3. Missing.status = "none"
  BY DEF Missing
<1>4. AnswerTo(r) = "pending"
  BY <1>2, PendingIsLive
<1>5. AnswerTo(r)' = "refused" /\ LifeOf(r)' = "gone" /\ Blocking(r)' = Blocking(r)
  BY <1>2, <1>3 DEF AnswerTo, LifeOf, Completed, Exists, COMPLETED_STATUSES, Blocking
<1>6. QED
  BY <1>4, <1>5 DEF RefusedAndGone

\* A waiting caller is told the result or that it waited too long.
LEMMA WaitMapped ==
    ASSUME TypeOK, NEW r \in RequestIds, Story(r), Wake(r) \/ Expire(r)
    PROVE  Answered(r)
<1>1. /\ Live(r) /\ Exists(r) /\ UNCHANGED <<requests, call>>
      /\ handler[r] = "waiting" /\ Blocking(r)
  BY DEF Wake, Expire, Live, Story, HandlerStage, Blocking
<1>2. AnswerTo(r) = "pending"
  BY <1>1, PendingIsLive
<1>3. CASE Wake(r)
  <2>1. handler'[r] = "done" /\ reply'[r].code = "201" /\ request_map[r] = "set"
    BY <1>3 DEF Wake, FinishReloaded, Finish, TypeOK
  <2>2. LifeOf(r) = "completed"
    BY <1>1, <2>1 DEF Story, ResultStage, LifeOf, Completed, COMPLETED_STATUSES
  <2>3. LifeOf(r)' = LifeOf(r) /\ Blocking(r)' = Blocking(r) /\ AnswerTo(r)' = "result"
    BY <1>1, <2>1 DEF LifeOf, Completed, Exists, Blocking, AnswerTo
  <2>4. QED
    BY <1>1, <1>2, <2>2, <2>3 DEF Answered
<1>4. CASE Expire(r)
  <2>1. handler'[r] = "done" /\ reply'[r].code = "408"
    BY <1>4 DEF Expire, Finish, Answer, TypeOK
  <2>2. LifeOf(r)' = LifeOf(r) /\ Blocking(r)' = Blocking(r) /\ AnswerTo(r)' = "late"
    BY <1>1, <2>1 DEF LifeOf, Completed, Exists, Blocking, AnswerTo
  <2>3. QED
    BY <1>1, <1>2, <2>2 DEF Answered
<1>5. QED
  BY <1>3, <1>4

\* What others do to the document behind the handler's back.
LEMMA BackendMapped ==
    ASSUME TypeOK, NEW r \in RequestIds, Story(r), BackendNext(r)
    PROVE  Same(r) \/ HasCompleted(r)
<1>1. UNCHANGED <<handler, call, reply>>
  BY DEF BackendNext, BackendAccepts, BackendRefuses, MessageCleared
<1>2. CASE UNCHANGED requests
  BY <1>1, <1>2 DEF Same, LifeOf, Completed, Exists, Blocking, AnswerTo
<1>3. CASE MessageCleared(r) /\ Exists(r)
  <2>1. requests[r].status = "CREATED" /\ requests[r] \in Docs
    BY <1>3, ExistingDoc DEF MessageCleared, Story, PluginStage
  <2>2. requests' = [requests EXCEPT ![r] = [requests[r] EXCEPT !.status = "CANCELED"]]
    BY <1>3 DEF MessageCleared
  <2>3. requests'[r].status = "CANCELED"
    BY <2>1, <2>2 DEF TypeOK, Docs
  <2>4. QED
    BY <1>1, <2>1, <2>3
       DEF HasCompleted, LifeOf, Completed, Exists, COMPLETED_STATUSES, Blocking, AnswerTo
<1>4. QED
  BY <1>2, <1>3 DEF BackendNext, BackendAccepts, BackendRefuses, MessageCleared

\* An update of the plugin completes an open request or leaves it as it was.
LEMMA PluginMapped ==
    ASSUME TypeOK, NEW r \in RequestIds, Story(r), Story(r)',
           PluginStarts(r) \/ PluginFinishes(r) \/ PluginRetries(r)
    PROVE  Same(r) \/ HasCompleted(r)
<1>1. /\ UNCHANGED <<handler, call, reply>>
      /\ plugin[r] \in {"queued", "running", "finished"}
  BY DEF PluginStarts, PluginFinishes, PluginRetries, ServePatch
<1>2. CASE requests'[r] = requests[r]
  BY <1>1, <1>2 DEF Same, LifeOf, Completed, Exists, Blocking, AnswerTo
<1>3. CASE requests'[r] # requests[r]
  <2>1. /\ Exists(r)
        /\ \/ plugin[r] = "queued" /\ plugin'[r] = "running"
           \/ plugin[r] = "running" /\ plugin'[r] \in {"running", "finished"}
    BY <1>3 DEF PluginStarts, PluginFinishes, PluginRetries, ServePatch, ApplyPatch, TypeOK
  <2>2. requests[r] \in Docs
    BY <2>1, ExistingDoc
  <2>3. PICK ops \in {StartPatch} \union FinishPatches :
            requests' = [requests EXCEPT ![r] = PatchedDoc(requests[r], ops)]
    BY <1>3 DEF PluginStarts, PluginFinishes, PluginRetries, ServePatch, ApplyPatch
  <2>4. PatchedDoc(requests[r], ops).status \in {"IN_PROGRESS", "SUCCESS", "ERROR"}
    <3>1. PatchedDoc(requests[r], StartPatch).status = "IN_PROGRESS"
      BY <2>2, StartPatchResult DEF Docs
    <3>2. QED
      BY <2>2, <2>3, <3>1, FinishedStatus
  <2>5. requests'[r].status \in {"IN_PROGRESS", "SUCCESS", "ERROR"}
    BY <2>3, <2>4 DEF TypeOK
  <2>6. requests[r].status \in {"CREATED", "IN_PROGRESS"}
    BY <2>1 DEF Story, PluginStage
  <2>7. QED
    BY <1>1, <2>5, <2>6
       DEF Same, HasCompleted, LifeOf, Completed, Exists, COMPLETED_STATUSES, Blocking, AnswerTo
<1>4. QED
  BY <1>2, <1>3

\* A restart tells every pending caller so and nobody else anything.
LEMMA RestartMapped ==
    ASSUME TypeOK, NEW r \in RequestIds, Story(r), NEW docs, ProcessRestarts(docs)
    PROVE  /\ AnswerTo(r)' = IF AnswerTo(r) = "pending" THEN "dropped" ELSE AnswerTo(r)
           /\ Blocking(r)' = Blocking(r)
           /\ handler'[r] = "idle" <=> handler[r] = "idle"
<1>1. AnswerTo(r) = "pending" <=> Live(r)
  BY PendingIsLive
<1>2. CASE Live(r)
  <2>1. handler'[r] = "done" /\ reply'[r].code = "dropped" /\ UNCHANGED call
    BY <1>2, RestartOf DEF Answer
  <2>2. QED
    BY <1>1, <1>2, <2>1 DEF AnswerTo, Live, Blocking
<1>3. CASE ~Live(r)
  <2>1. handler'[r] = handler[r] /\ reply'[r] = reply[r] /\ UNCHANGED call
    BY <1>3, RestartOf
  <2>2. QED
    BY <1>1, <1>3, <2>1 DEF AnswerTo, Blocking
<1>4. QED
  BY <1>2, <1>3

\* A crash may have completed the request that was being updated.
LEMMA CrashMapped ==
    ASSUME TypeOK, NEW r \in RequestIds, Story(r), CrashInPatch(r)
    PROVE  LifeOf(r) = "live" /\ LifeOf(r)' \in {"live", "completed"}
<1>1. /\ Exists(r) /\ requests[r] \in Docs /\ ProcessRestarts(requests')
      /\ plugin[r] \in {"queued", "running"}
  BY ExistingDoc DEF CrashInPatch
<1>2. requests[r].status \in {"CREATED", "IN_PROGRESS"}
  BY <1>1 DEF Story, PluginStage
<1>3. PICK ops \in {StartPatch} \union FinishPatches :
          requests' = [requests EXCEPT ![r] = PatchedDoc(requests[r], ops)]
  BY DEF CrashInPatch
<1>4. PatchedDoc(requests[r], ops).status \in {"IN_PROGRESS", "SUCCESS", "ERROR"}
  <2>1. PatchedDoc(requests[r], StartPatch).status = "IN_PROGRESS"
    BY <1>1, StartPatchResult DEF Docs
  <2>2. QED
    BY <1>1, <1>3, <2>1, FinishedStatus
<1>5. requests'[r].status \in {"IN_PROGRESS", "SUCCESS", "ERROR"}
  BY <1>3, <1>4 DEF TypeOK
<1>6. QED
  BY <1>2, <1>5 DEF LifeOf, Completed, Exists, COMPLETED_STATUSES

\* What an action does to its request is a step of the contract.
LEMMA ContractStep ==
    ASSUME TypeOK, NEW r \in RequestIds,
           \A q \in RequestIds : q # r => Same(q),
           Same(r) \/ Asked(r) \/ HasCompleted(r) \/ Answered(r) \/ RefusedAndGone(r)
    PROVE  [Promise!Next]_(Promise!vars)
<1>1. CASE Same(r)
  BY <1>1 DEF Promise!vars, Same
<1>2. CASE Asked(r)
  <2>1. Promise!Ask(r, Blocking(r)')
    BY <1>2 DEF Asked, Same, Promise!Ask
  <2>2. Blocking(r)' \in BOOLEAN
    BY DEF Blocking
  <2>3. QED
    BY <2>1, <2>2 DEF Promise!Next
<1>3. CASE HasCompleted(r)
  <2>1. Promise!Complete(r)
    BY <1>3 DEF HasCompleted, Same, Promise!Complete
  <2>2. QED
    BY <2>1 DEF Promise!Next
<1>4. CASE Answered(r)
  <2>1. Promise!Accept(r) \/ Promise!GiveResult(r) \/ Promise!GiveUp(r)
    BY <1>4 DEF Answered, Same, Promise!Accept, Promise!GiveResult, Promise!GiveUp,
                Promise!Tell, Promise!Pending
  <2>2. QED
    BY <2>1 DEF Promise!Next
<1>5. CASE RefusedAndGone(r)
  <2>1. Promise!Refuse(r)
    BY <1>5 DEF RefusedAndGone, Same, Promise!Refuse, Promise!Tell, Promise!Pending
  <2>2. QED
    BY <2>1 DEF Promise!Next
<1>6. QED
  BY <1>1, <1>2, <1>3, <1>4, <1>5

\* The process going away, in a PATCH or not, is an outage.
LEMMA ContractOutage ==
    ASSUME TypeOK, StoryInv, Restart \/ \E r \in RequestIds : CrashInPatch(r)
    PROVE  Promise!Outage
<1>1. PICK docs : ProcessRestarts(docs)
  BY DEF Restart, CrashInPatch
<1>2. \A q \in RequestIds :
          /\ AnswerTo(q)' = IF AnswerTo(q) = "pending" THEN "dropped" ELSE AnswerTo(q)
          /\ Blocking(q)' = Blocking(q)
          /\ handler'[q] = "idle" <=> handler[q] = "idle"
  BY <1>1, RestartMapped DEF StoryInv
<1>3. ASSUME NEW q \in RequestIds, requests'[q] = requests[q]
      PROVE  LifeOf(q)' = LifeOf(q)
  BY <1>2, <1>3 DEF LifeOf, Completed, Exists
<1>4. CASE Restart
  <2>1. \A q \in RequestIds : LifeOf(q)' = LifeOf(q)
    BY <1>3, <1>4 DEF Restart
  <2>2. QED
    BY <1>2, <2>1 DEF Promise!Outage, Promise!Pending
<1>5. ASSUME NEW r \in RequestIds, CrashInPatch(r)
      PROVE  Promise!Outage
  <2>1. LifeOf(r) = "live" /\ LifeOf(r)' \in {"live", "completed"}
    BY <1>5, CrashMapped DEF StoryInv
  <2>2. \A q \in RequestIds : q # r => LifeOf(q)' = LifeOf(q)
    BY <1>3, <1>5 DEF CrashInPatch, TypeOK
  <2>3. QED
    BY <1>2, <2>1, <2>2 DEF Promise!Outage, Promise!Pending
<1>6. QED
  BY <1>4, <1>5

\* The handlers keep the promise of RequestContract whatever Bartender, the
\* plugins and the process do: every step is one of the contract or none
\* (Contract).
THEOREM ContractKept ==
    ASSUME DeliveredOnce, OnlyPluginsPatch, Reachable
    PROVE  Spec => Contract
<1>1. Init => Promise!Init
  <2> SUFFICES ASSUME Init PROVE Promise!Init
    OBVIOUS
  <2>1. ASSUME NEW r \in RequestIds
        PROVE  LifeOf(r) = "unborn" /\ Blocking(r) = FALSE /\ AnswerTo(r) = "none"
    BY DEF Init, LifeOf, Completed, Exists, COMPLETED_STATUSES, Missing, Blocking, AnswerTo
  <2>2. QED
    BY <2>1 DEF Promise!Init
<1>2. TypeOK /\ StoryInv /\ StoryInv' /\ [Next]_vars => [Promise!Next]_(Promise!vars)
  <2> SUFFICES ASSUME TypeOK, StoryInv, StoryInv', [Next]_vars
               PROVE  [Promise!Next]_(Promise!vars)
    OBVIOUS
  <2>1. ASSUME NEW r \in RequestIds, ActionOf(r)
        PROVE  [Promise!Next]_(Promise!vars)
    <3>1. \A q \in RequestIds : q # r => Same(q)
      BY <2>1, OthersUntouched, UntouchedSame
    <3>2. Story(r) /\ Story(r)'
      BY DEF StoryInv
    <3>3. Same(r) \/ Asked(r) \/ HasCompleted(r) \/ Answered(r) \/ RefusedAndGone(r)
      BY <2>1, <3>2, PostMapped, DispatchedMapped, WithdrawMapped, WaitMapped, BackendMapped,
         PluginMapped
         DEF ActionOf, RequestListNext
    <3>4. QED
      BY <3>1, <3>3, ContractStep
  <2>2. CASE Restart \/ \E r \in RequestIds : CrashInPatch(r)
    BY <2>2, ContractOutage DEF Promise!Next
  <2>3. CASE Unnoticed
    <3>1. \A q \in RequestIds : Same(q)
      BY <2>3, UnnoticedKeeps, UntouchedSame DEF Untouched
    <3>2. QED
      BY <3>1 DEF Promise!vars, Same
  <2>4. QED
    BY <2>1, <2>2, <2>3, StepKinds
<1>3. QED
  BY <1>1, <1>2, StoryHolds, TypeCorrect, PTL DEF Spec, Contract, Promise!Spec

=============================================================================
