------------------------ MODULE SystemCatalogProofs ------------------------
(***************************************************************************)
(* Theorems about SystemCatalog, for any number of systems, instances and  *)
(* handlers: an instance that is removed stays off the lists, no PATCH     *)
(* takes a system past its limit, the commands of a released version and   *)
(* the documents of the instances stay, and the status of an instance      *)
(* settles on what its plugin is.                                          *)
(***************************************************************************)
EXTENDS SystemCatalog, FiniteSetTheorems, TLAPS

-----------------------------------------------------------------------------
(***************************************************************************)
(* Types: TypeOK says nothing of what a call, a request to Bartender and a *)
(* plugin hold; Shapes does.                                               *)
(***************************************************************************)

\* The operations that ask Bartender, and those a plugin reports.
AskedOps == {"INITIALIZING", "STOPPING", "STARTING"}
ReportedOps == {"RUNNING", "STOPPED"}

\* The calls of SystemAPI.patch, SystemAPI.delete and InstanceAPI.patch.
SystemCalls ==
    [stage : {"running", "waiting"}, kind : {"system"}, of : Systems, copy : SystemDocs,
     read : {"no", "yes", "stale"}, ops : Seq(SystemOps)]
DeleteCalls ==
    [stage : {"running", "waiting"}, kind : {"delete"}, of : Systems, copy : SystemDocs,
     read : {"no"}, ops : Seq({"remove"})]
InstanceCalls ==
    [stage : {"running", "waiting"}, kind : {"instance"}, of : Ids,
     copy : Statuses \union {"stub"}, read : {"no"}, ops : Seq(InstanceOps)]
Calls == SystemCalls \union DeleteCalls \union InstanceCalls

\* The requests to Bartender: about a system, by the id of its document, and
\* about the status of an instance.
SystemRpcs == [stage : {"sent", "answered"}, what : {"reload", "remove"}, of : Nat]
StatusRpcs == [stage : {"sent", "written", "answered"}, what : AskedOps, of : Ids]
Rpcs == SystemRpcs \union StatusRpcs

Plugins ==
    [told : Seq(ReportedOps), owes : ReportedOps \union {"nothing"},
     state : ReportedOps \union {"new"}]

\* The stubs that a save may leave of a system.
Stubs == [id : Nat, instances : Lists]

\* The documents.
DocShapes ==
    /\ systems \in [Systems -> SystemDocs \union {Gone}]
    /\ stubs \in SUBSET Stubs
    /\ created \in Nat
    /\ instances \in [Ids -> Statuses \union {"unborn", "gone", "stub"}]

\* The calls: the one that runs has no request to Bartender under way.
CallShapes ==
    /\ calls \in [Handlers -> Calls \union {Idle}]
    /\ rpc \in [Handlers -> Rpcs \union {NoRpc}]
    /\ ioloop \in Handlers \union {NoHandler}
    /\ \A h \in Handlers :
           /\ calls[h].stage = "running" <=> ioloop = h
           /\ calls[h].stage = "running" => rpc[h] = NoRpc
           /\ calls[h].stage = "waiting" => rpc[h].stage # "none"

PluginShapes == plugin \in [Ids -> Plugins]

\* The POST under way, which has the thread.
PostShapes ==
    /\ post \in [stage : {"found", "read"}, body : Posts, copy : SystemDocs \union {Gone}]
                   \union {NoPost}
    /\ post.stage = "read" => post.copy # Gone
    /\ post # NoPost => ioloop = NoHandler

Shapes == DocShapes /\ CallShapes /\ PluginShapes

\* Shapes is what TypeOK says, and more.
LEMMA ShapesAreTypes == Shapes /\ PostShapes => TypeOK
<1> SUFFICES ASSUME Shapes, PostShapes PROVE TypeOK
  OBVIOUS
<1>0. /\ post.stage \in {"none", "found", "read"}
      /\ post.stage = "none" \/ (ioloop = NoHandler /\ post.copy \in SystemDocs \union {Gone})
  BY DEF PostShapes, NoPost
<1>1. \A s \in Existing : systems[s] \in SystemDocs
  BY DEF Shapes, DocShapes, Existing
<1>2. ASSUME NEW h \in Handlers
      PROVE  /\ calls[h].stage \in {"idle", "running", "waiting"}
             /\ rpc[h].stage \in {"none", "sent", "written", "answered"}
  <2>1. calls[h] \in SystemCalls \/ calls[h] \in DeleteCalls \/ calls[h] \in InstanceCalls
        \/ calls[h] = Idle
    BY DEF Shapes, CallShapes, Calls
  <2>2. calls[h].stage \in {"idle", "running", "waiting"}
    BY <2>1 DEF SystemCalls, DeleteCalls, InstanceCalls, Idle
  <2>3. rpc[h] \in SystemRpcs \/ rpc[h] \in StatusRpcs \/ rpc[h] = NoRpc
    BY DEF Shapes, CallShapes, Rpcs
  <2>4. QED
    BY <2>2, <2>3 DEF SystemRpcs, StatusRpcs, NoRpc
<1>3. ASSUME NEW i \in Ids
      PROVE  /\ plugin[i].told \in Seq({"RUNNING", "STOPPED"})
             /\ plugin[i].owes \in {"nothing", "RUNNING", "STOPPED"}
             /\ plugin[i].state \in {"new", "RUNNING", "STOPPED"}
  BY DEF Shapes, PluginShapes, Plugins, ReportedOps
<1>4. QED
  BY <1>0, <1>1, <1>2, <1>3 DEF TypeOK, Shapes, DocShapes, CallShapes, Stubs

\* They hold at the start.
LEMMA ShapesInit == Init => Shapes /\ PostShapes
<1> SUFFICES ASSUME Init PROVE Shapes /\ PostShapes
  OBVIOUS
<1>0. PostShapes
  BY DEF Init, PostShapes, NoPost
<1>1. DocShapes
  BY DEF Init, DocShapes, Statuses
<1>2. CallShapes
  BY CatalogAssumption DEF Init, CallShapes, Idle, NoRpc
<1>3. PluginShapes
  <2>1. [told |-> <<>>, owes |-> "nothing", state |-> "new"] \in Plugins
    BY DEF Plugins, ReportedOps
  <2>2. QED
    BY <2>1 DEF Init, PluginShapes
<1>4. QED
  BY <1>0, <1>1, <1>2, <1>3 DEF Shapes

\* What a handler that runs has before it.
LEMMA RunningCall ==
    ASSUME Shapes, NEW h \in Handlers, ioloop = h
    PROVE  /\ calls[h] \in Calls /\ calls[h].stage = "running" /\ rpc[h] = NoRpc
           /\ calls[h].kind = "system" => calls[h] \in SystemCalls
           /\ calls[h].kind = "delete" => calls[h] \in DeleteCalls
           /\ calls[h].kind = "instance" => calls[h] \in InstanceCalls
<1>1. calls[h].stage = "running" /\ rpc[h] = NoRpc /\ calls[h] \in Calls \union {Idle}
  BY DEF Shapes, CallShapes
<1>2. calls[h] \in Calls
  BY <1>1 DEF Idle
<1>3. QED
  BY <1>1, <1>2 DEF Calls, SystemCalls, DeleteCalls, InstanceCalls

\* What waiting makes of a record of calls.
Waits(c) ==
    [c EXCEPT !.stage = "waiting", !.ops = Tail(@), !.read = IF @ = "no" THEN "no" ELSE "stale"]

\* A record of calls stays one when its stage changes, or an operation is done.
LEMMA CallKept ==
    ASSUME NEW c \in Calls
    PROVE  /\ [c EXCEPT !.stage = "running"] \in Calls
           /\ c.ops # <<>> =>
                  /\ Waits(c) \in Calls
                  /\ c \in SystemCalls => \A copy \in SystemDocs :
                         [c EXCEPT !.ops = Tail(@), !.copy = copy] \in Calls
                  /\ c \in InstanceCalls => \A copy \in Statuses \union {"stub"} :
                         [c EXCEPT !.ops = Tail(@), !.copy = copy] \in Calls
           /\ c \in SystemCalls => [c EXCEPT !.read = "yes"] \in Calls
<1>1. CASE c \in SystemCalls
  <2>1. c.ops # <<>> => Tail(c.ops) \in Seq(SystemOps)
    BY <1>1 DEF SystemCalls
  <2>2. c \notin InstanceCalls
    BY <1>1 DEF SystemCalls, InstanceCalls
  <2>3. QED
    BY <1>1, <2>1, <2>2 DEF SystemCalls, Calls, Waits
<1>2. CASE c \in DeleteCalls
  <2>1. c.ops # <<>> => Tail(c.ops) \in Seq({"remove"})
    BY <1>2 DEF DeleteCalls
  <2>2. c \notin InstanceCalls /\ c \notin SystemCalls
    BY <1>2 DEF SystemCalls, InstanceCalls, DeleteCalls
  <2>3. QED
    BY <1>2, <2>1, <2>2 DEF DeleteCalls, Calls, Waits
<1>3. CASE c \in InstanceCalls
  <2>1. c.ops # <<>> => Tail(c.ops) \in Seq(InstanceOps)
    BY <1>3 DEF InstanceCalls
  <2>2. c \notin SystemCalls
    BY <1>3 DEF SystemCalls, InstanceCalls
  <2>3. QED
    BY <1>3, <2>1, <2>2 DEF InstanceCalls, Calls, Waits
<1>4. QED
  BY <1>1, <1>2, <1>3 DEF Calls

-----------------------------------------------------------------------------
(***************************************************************************)
(* The frame of a handler keeps the types of the calls.                    *)
(***************************************************************************)

\* A call that begins.
LEMMA BeginTypes ==
    ASSUME CallShapes, NEW h \in Handlers, NEW call \in Calls, call.stage = "running",
           Begin(h, call), rpc' = rpc
    PROVE  CallShapes'
<1>1. rpc[h] = NoRpc
  <2>1. rpc[h] \in SystemRpcs \/ rpc[h] \in StatusRpcs \/ rpc[h] = NoRpc
    BY DEF CallShapes, Rpcs
  <2>2. rpc[h].stage = "none"
    BY DEF Begin
  <2>3. QED
    BY <2>1, <2>2 DEF SystemRpcs, StatusRpcs
<1>2. QED
  BY <1>1, CatalogAssumption DEF CallShapes, Begin, Free

\* An operation that is done.
LEMMA StepTypes ==
    ASSUME CallShapes, NEW h \in Handlers, ioloop = h, NEW copy, Step(h, copy), rpc' = rpc,
           [calls[h] EXCEPT !.ops = Tail(@), !.copy = copy] \in Calls
    PROVE  CallShapes'
<1>1. calls[h] \in Calls
  <2>1. calls[h].stage = "running" /\ calls[h] \in Calls \union {Idle}
    BY DEF CallShapes
  <2>2. QED
    BY <2>1 DEF Idle
<1>2. calls' = [calls EXCEPT ![h] = [calls[h] EXCEPT !.ops = Tail(@), !.copy = copy]]
  BY DEF Step, CallShapes
<1>3. [calls[h] EXCEPT !.ops = Tail(@), !.copy = copy].stage = calls[h].stage
  BY <1>1 DEF Calls, SystemCalls, DeleteCalls, InstanceCalls
<1>4. QED
  BY <1>2, <1>3 DEF CallShapes, Step

\* A handler that answers.
LEMMA EndTypes ==
    ASSUME CallShapes, NEW h \in Handlers, ioloop = h, End(h), rpc' = rpc
    PROVE  CallShapes'
BY CatalogAssumption DEF CallShapes, End, Idle

\* A handler that asks Bartender.
LEMMA AskTypes ==
    ASSUME CallShapes, NEW h \in Handlers, ioloop = h, calls[h].ops # <<>>, NEW what, NEW of,
           [stage |-> "sent", what |-> what, of |-> of] \in Rpcs, Ask(h, what, of)
    PROVE  CallShapes'
<1>1. calls[h] \in Calls
  <2>1. calls[h].stage = "running" /\ calls[h] \in Calls \union {Idle}
    BY DEF CallShapes
  <2>2. QED
    BY <2>1 DEF Idle
<1>2. CASE End(h) /\ UNCHANGED rpc
  BY <1>2, EndTypes
<1>3. CASE /\ calls' = [calls EXCEPT ![h].stage = "waiting", ![h].ops = Tail(@),
                                     ![h].read = IF @ = "no" THEN "no" ELSE "stale"]
           /\ rpc' = [rpc EXCEPT ![h] = [stage |-> "sent", what |-> what, of |-> of]]
           /\ ioloop' = NoHandler
  <2>1. calls' = [calls EXCEPT ![h] = Waits(calls[h])]
    BY <1>3 DEF CallShapes, Waits
  <2>2. Waits(calls[h]) \in Calls
    BY <1>1, CallKept
  <2>3. Waits(calls[h]).stage = "waiting"
    BY <1>1 DEF Calls, SystemCalls, DeleteCalls, InstanceCalls, Waits
  <2>4. /\ rpc' = [rpc EXCEPT ![h] = [stage |-> "sent", what |-> what, of |-> of]]
        /\ ioloop' = NoHandler
    BY <1>3
  <2>5. QED
    BY <2>1, <2>2, <2>3, <2>4, CatalogAssumption DEF CallShapes
<1>4. QED
  BY <1>2, <1>3 DEF Ask

\* A handler that goes on, is left without an answer, or is done.
LEMMA FrameTypes ==
    ASSUME CallShapes, NEW h \in Handlers, Resume(h) \/ Lost(h) \/ Finished(h)
    PROVE  CallShapes'
<1>1. CASE Resume(h)
  <2>1. calls[h] \in Calls
    <3>1. calls[h].stage = "waiting" /\ calls[h] \in Calls \union {Idle}
      BY <1>1 DEF CallShapes, Resume
    <3>2. QED
      BY <3>1 DEF Idle
  <2>2. calls' = [calls EXCEPT ![h] = [calls[h] EXCEPT !.stage = "running"]]
    BY <1>1 DEF CallShapes, Resume
  <2>3. [calls[h] EXCEPT !.stage = "running"] \in Calls
    BY <2>1, CallKept
  <2>4. [calls[h] EXCEPT !.stage = "running"].stage = "running"
    BY <2>1 DEF Calls, SystemCalls, DeleteCalls, InstanceCalls
  <2>5. QED
    BY <1>1, <2>2, <2>3, <2>4, CatalogAssumption DEF CallShapes, Resume, Free
<1>2. CASE Lost(h)
  BY <1>2, CatalogAssumption DEF CallShapes, Lost, Idle, NoRpc
<1>3. CASE Finished(h)
  BY <1>3, EndTypes DEF Finished
<1>4. QED
  BY <1>1, <1>2, <1>3

\* An answer of Bartender.
LEMMA AnswerTypes ==
    ASSUME CallShapes, NEW h \in Handlers, rpc[h].stage \in {"sent", "written"}, Answers(h),
           calls' = calls, ioloop' = ioloop
    PROVE  CallShapes'
<1>1. rpc[h] \in SystemRpcs \/ rpc[h] \in StatusRpcs
  BY DEF CallShapes, Rpcs, NoRpc
<1>2. [rpc[h] EXCEPT !.stage = "answered"] \in Rpcs
  BY <1>1 DEF Rpcs, SystemRpcs, StatusRpcs
<1>3. [rpc[h] EXCEPT !.stage = "answered"].stage # "none"
  BY <1>1 DEF SystemRpcs, StatusRpcs
<1>4. calls[h].stage # "running"
  BY DEF CallShapes, NoRpc
<1>5. rpc' = [rpc EXCEPT ![h] = IF calls[h].stage = "waiting"
                                THEN [rpc[h] EXCEPT !.stage = "answered"] ELSE NoRpc]
  BY DEF Answers, CallShapes
<1>6. QED
  BY <1>2, <1>3, <1>4, <1>5 DEF CallShapes

-----------------------------------------------------------------------------
(***************************************************************************)
(* Each operation keeps the types.                                         *)
(***************************************************************************)

\* The list a POST makes holds ids of instances.
LEMMA RelistedType ==
    ASSUME NEW old \in Lists, NEW named \in SUBSET Names,
           NEW new \in [named \ NamesIn(old) -> Unborn]
    PROVE  Relisted(old, named, new) \in Lists
BY DEF Relisted, Unborn, Lists

\* No name is in an empty list.
LEMMA EmptyList == NoList \in Lists /\ NamesIn(NoList) = {}
BY DEF NoList, NamesIn, Lists

\* What a PATCH makes of a document is one.
LEMMA DocKept ==
    ASSUME NEW doc \in SystemDocs
    PROVE  /\ \A commands \in CommandLists : [doc EXCEPT !.commands = commands] \in SystemDocs
           /\ \A listed \in Lists : [doc EXCEPT !.instances = listed] \in SystemDocs
BY DEF SystemDocs

\* A stub that is left is one, and its list is a list.
LEMMA StubTypes ==
    ASSUME stubs \in SUBSET Stubs, NEW doc, doc.id \in Nat
    PROVE  /\ StubList(doc) \in Lists
           /\ \A list \in Lists : PutBack(doc, list) => stubs' \in SUBSET Stubs
<1>1. CASE \E d \in stubs : d.id = doc.id
  <2>1. PICK d \in stubs : d.id = doc.id /\ StubList(doc) = d.instances
    BY <1>1 DEF StubList
  <2>2. QED
    BY <2>1 DEF Stubs, PutBack
<1>2. CASE ~\E d \in stubs : d.id = doc.id
  BY <1>2, EmptyList DEF Stubs, PutBack, StubList
<1>3. QED
  BY <1>1, <1>2

\* New instances have a status.
LEMMA BornTypes ==
    ASSUME DocShapes, NEW ids
    PROVE  Born(ids) \in [Ids -> Statuses \union {"unborn", "gone", "stub"}]
BY DEF DocShapes, Born, Statuses

\* A POST registers a system, or registers it again.
LEMMA PostTypes ==
    ASSUME Shapes, PostShapes, PostNext
    PROVE  DocShapes'
<1>1. CASE (\E p \in Posts : PostFinds(p)) \/ PostReads \/ PostRefused
  BY <1>1 DEF PostFinds, PostReads, PostRefused, Shapes, DocShapes
<1> DEFINE p == post.body
           named == NamedBy(p)
<1>2. ASSUME PostNew \/ PostAgain
      PROVE  p \in NewSystems /\ named \in SUBSET Names /\ p.system \in Systems
             /\ p.commands \in CommandLists
  <2>1. post # NoPost
    BY <1>2 DEF PostNew, PostAgain, NoPost
  <2>2. p \in NewSystems
    BY <2>1, CatalogAssumption DEF PostShapes
  <2>3. QED
    BY <2>2, CatalogAssumption DEF NewSystems, NamedBy
<1>3. CASE PostNew
  <2> DEFINE max == IF p.max_instances = 0 \/ p.instances = {}
                    THEN Cardinality(named) ELSE p.max_instances
  <2>1. PICK new \in [named -> Unborn] :
            /\ instances' = Born({new[n] : n \in named})
            /\ systems' = [systems EXCEPT ![p.system] =
                   [id |-> created, commands |-> p.commands, max_instances |-> max,
                    instances |-> Relisted(NoList, named, new)]]
    BY <1>3 DEF PostNew
  <2>2. Relisted(NoList, named, new) \in Lists
    BY <1>2, <1>3, EmptyList, RelistedType
  <2>3. max \in Nat \union {-1}
    <3>1. Cardinality(named) \in Nat
      BY <1>2, <1>3, CatalogAssumption, FS_Subset, FS_CardinalityType
    <3>2. QED
      BY <1>2, <1>3, <3>1 DEF NewSystems
  <2>4. created' = created + 1 /\ created \in Nat /\ stubs' = stubs
    BY <1>3 DEF PostNew, Shapes, DocShapes
  <2> HIDE DEF max, named
  <2>5. [id |-> created, commands |-> p.commands, max_instances |-> max,
         instances |-> Relisted(NoList, named, new)] \in SystemDocs
    BY <1>2, <1>3, <2>2, <2>3, <2>4 DEF SystemDocs
  <2>6. systems' \in [Systems -> SystemDocs \union {Gone}]
    BY <2>1, <2>5 DEF Shapes, DocShapes
  <2>7. instances' \in [Ids -> Statuses \union {"unborn", "gone", "stub"}]
    BY <2>1, BornTypes DEF Shapes
  <2>8. QED
    BY <2>4, <2>6, <2>7 DEF Shapes, DocShapes
<1>4. CASE PostAgain
  <2> DEFINE old == post.copy.instances
  <2>1. PICK new \in [named \ NamesIn(old) -> Unborn] :
            /\ instances' = Born({new[n] : n \in DOMAIN new})
            /\ \/ /\ StillThere(p.system, post.copy)
                  /\ systems' = [systems EXCEPT ![p.system].commands = p.commands,
                                                ![p.system].instances = Relisted(old, named, new)]
                  /\ UNCHANGED stubs
               \/ /\ ~StillThere(p.system, post.copy)
                  /\ PutBack(post.copy, Relisted(old, named, new))
                  /\ UNCHANGED systems
    BY <1>4 DEF PostAgain
  <2>2. post.copy \in SystemDocs /\ created' = created
    BY <1>4 DEF PostAgain, PostShapes, NoPost
  <2>3. Relisted(old, named, new) \in Lists
    BY <1>2, <1>4, <2>2, RelistedType DEF SystemDocs
  <2> DEFINE list == Relisted(old, named, new)
  <2>4. instances' \in [Ids -> Statuses \union {"unborn", "gone", "stub"}]
    BY <2>1, BornTypes DEF Shapes
  <2> HIDE DEF list, named
  <2>5. CASE /\ StillThere(p.system, post.copy)
             /\ systems' = [systems EXCEPT ![p.system].commands = p.commands,
                                           ![p.system].instances = list]
             /\ UNCHANGED stubs
    <3>1. systems[p.system] \in SystemDocs
      BY <1>2, <1>4, <2>5 DEF StillThere, Shapes, DocShapes
    <3>2. [systems[p.system] EXCEPT !.commands = p.commands, !.instances = list] \in SystemDocs
      BY <1>2, <1>4, <2>3, <3>1 DEF SystemDocs, list
    <3>3. systems' = [systems EXCEPT ![p.system] =
              [systems[p.system] EXCEPT !.commands = p.commands, !.instances = list]]
      BY <1>2, <1>4, <2>5 DEF Shapes, DocShapes
    <3>4. QED
      BY <1>2, <1>4, <2>2, <2>4, <2>5, <3>2, <3>3 DEF Shapes, DocShapes
  <2>6. CASE PutBack(post.copy, list) /\ systems' = systems
    <3>1. post.copy.id \in Nat /\ list \in Lists
      BY <2>2, <2>3 DEF SystemDocs, list
    <3>2. stubs' \in SUBSET Stubs
      BY <2>6, <3>1, StubTypes DEF Shapes, DocShapes
    <3>3. QED
      BY <2>2, <2>4, <2>6, <3>2 DEF Shapes, DocShapes
  <2>7. QED
    BY <2>1, <2>5, <2>6 DEF list
<1>5. QED
  BY <1>1, <1>3, <1>4 DEF PostNext

\* The operations of SystemAPI.patch.
LEMMA SystemPatchTypes ==
    ASSUME Shapes, NEW h \in Handlers,
           ReadsList(h) \/ ReplaceCommands(h) \/ AddInstance(h) \/ ReplaceText(h) \/ Reload(h)
    PROVE  Shapes'
<1> DEFINE c == calls[h]
<1>1. ioloop = h /\ c \in SystemCalls /\ c.ops # <<>> /\ c \in Calls
  BY RunningCall DEF ReadsList, ReplaceCommands, AddInstance, ReplaceText, Reload, Running
<1>2. c.of \in Systems /\ c.copy \in SystemDocs /\ Head(c.ops) \in SystemOps
      /\ c.copy.id \in Nat
  BY <1>1 DEF SystemCalls, SystemDocs
<1>3. CASE ReplaceCommands(h)
  <2> DEFINE commands == Head(c.ops).value
  <2>1. commands \in CommandLists
    BY <1>2, <1>3 DEF ReplaceCommands, SystemOps
  <2>2. CASE Step(h, [c.copy EXCEPT !.commands = commands])
    <3>1. [c.copy EXCEPT !.commands = commands] \in SystemDocs
      BY <1>2, <2>1, DocKept
    <3>2. CallShapes'
      BY <1>1, <1>3, <2>2, <3>1, CallKept, StepTypes DEF Shapes, ReplaceCommands
    <3>3. systems' \in [Systems -> SystemDocs \union {Gone}]
      <4>1. CASE StillThere(c.of, c.copy)
                 /\ systems' = [systems EXCEPT ![c.of].commands = commands]
        <5>1. [systems[c.of] EXCEPT !.commands = commands] \in SystemDocs
          BY <1>2, <2>1, <4>1, DocKept DEF StillThere, Shapes, DocShapes
        <5>2. systems' = [systems EXCEPT ![c.of] = [systems[c.of] EXCEPT !.commands = commands]]
          BY <1>2, <4>1 DEF Shapes, DocShapes
        <5>3. QED
          BY <5>1, <5>2 DEF Shapes, DocShapes
      <4>2. CASE systems' = systems
        BY <4>2 DEF Shapes, DocShapes
      <4>3. QED
        BY <1>3, <4>1, <4>2 DEF ReplaceCommands
    <3>4. stubs' \in SUBSET Stubs
      BY <1>2, <1>3, StubTypes DEF ReplaceCommands, Shapes, DocShapes
    <3>5. DocShapes'
      BY <1>3, <3>3, <3>4 DEF ReplaceCommands, Shapes, DocShapes
    <3>6. QED
      BY <1>3, <3>2, <3>5 DEF Shapes, ReplaceCommands, PluginShapes
  <2>3. CASE End(h) /\ UNCHANGED <<systems, stubs>>
    BY <1>1, <1>3, <2>3, EndTypes DEF ReplaceCommands, Shapes, DocShapes, PluginShapes
  <2>4. QED
    BY <1>3, <2>2, <2>3 DEF ReplaceCommands
<1>4. CASE AddInstance(h)
  <2> DEFINE name == Head(c.ops).value
  <2>1. name \in Names
    BY <1>2, <1>4 DEF AddInstance, SystemOps
  <2>2. ASSUME NEW i \in Unborn, NEW listed,
               listed = [c.copy.instances EXCEPT ![name] = i], instances' = Born({i}),
               \/ /\ StillThere(c.of, c.copy)
                  /\ systems' = [systems EXCEPT ![c.of].instances = listed]
                  /\ UNCHANGED stubs
               \/ /\ ~StillThere(c.of, c.copy)
                  /\ PutBack(c.copy, listed)
                  /\ UNCHANGED systems,
               Step(h, [c.copy EXCEPT !.instances = listed])
        PROVE  Shapes'
    <3>1. listed \in Lists
      BY <1>2, <2>1, <2>2 DEF SystemDocs, Unborn, Lists
    <3>2. [c.copy EXCEPT !.instances = listed] \in SystemDocs
      BY <1>2, <3>1, DocKept
    <3>3. CallShapes'
      BY <1>1, <1>4, <2>2, <3>2, CallKept, StepTypes DEF Shapes, AddInstance
    <3>4. systems' \in [Systems -> SystemDocs \union {Gone}]
      <4>1. CASE StillThere(c.of, c.copy)
                 /\ systems' = [systems EXCEPT ![c.of].instances = listed]
        <5>1. [systems[c.of] EXCEPT !.instances = listed] \in SystemDocs
          BY <1>2, <3>1, <4>1, DocKept DEF StillThere, Shapes, DocShapes
        <5>2. systems' = [systems EXCEPT ![c.of] = [systems[c.of] EXCEPT !.instances = listed]]
          BY <1>2, <4>1 DEF Shapes, DocShapes
        <5>3. QED
          BY <5>1, <5>2 DEF Shapes, DocShapes
      <4>2. CASE systems' = systems
        BY <4>2 DEF Shapes, DocShapes
      <4>3. QED
        BY <2>2, <4>1, <4>2
    <3>5. stubs' \in SUBSET Stubs
      BY <1>2, <2>2, <3>1, StubTypes DEF Shapes, DocShapes
    <3>6. instances' \in [Ids -> Statuses \union {"unborn", "gone", "stub"}]
      BY <2>2, BornTypes DEF Shapes
    <3>7. DocShapes'
      BY <1>4, <3>4, <3>5, <3>6 DEF AddInstance, Shapes, DocShapes
    <3>8. QED
      BY <1>4, <3>3, <3>7 DEF Shapes, AddInstance, PluginShapes
  <2>3. CASE End(h) /\ UNCHANGED <<systems, stubs, instances>>
    BY <1>1, <1>4, <2>3, EndTypes DEF AddInstance, Shapes, DocShapes, PluginShapes
  <2>4. QED
    BY <1>4, <2>2, <2>3 DEF AddInstance
<1>5. CASE ReplaceText(h)
  <2>1. CallShapes'
    BY <1>1, <1>2, <1>5, CallKept, StepTypes DEF Shapes, ReplaceText
  <2>2. stubs' \in SUBSET Stubs
    BY <1>2, <1>5, StubTypes DEF ReplaceText, Shapes, DocShapes
  <2>3. QED
    BY <1>5, <2>1, <2>2 DEF Shapes, DocShapes, PluginShapes, ReplaceText
<1>6. CASE Reload(h)
  <2>1. [stage |-> "sent", what |-> "reload", of |-> c.copy.id] \in Rpcs
    BY <1>2 DEF SystemDocs, Rpcs, SystemRpcs
  <2>2. CallShapes'
    BY <1>1, <1>6, <2>1, AskTypes DEF Shapes, Reload
  <2>3. QED
    BY <1>6, <2>2 DEF Shapes, DocShapes, PluginShapes, Reload
<1>7. CASE ReadsList(h)
  <2>1. CASE End(h)
    BY <1>1, <1>7, <2>1, EndTypes DEF ReadsList, Shapes, DocShapes, PluginShapes
  <2>2. CASE calls' = [calls EXCEPT ![h].read = "yes"] /\ UNCHANGED ioloop
    <3>1. calls' = [calls EXCEPT ![h] = [c EXCEPT !.read = "yes"]]
      BY <2>2 DEF Shapes, CallShapes
    <3>2. [c EXCEPT !.read = "yes"] \in Calls /\ [c EXCEPT !.read = "yes"].stage = c.stage
      BY <1>1, CallKept DEF SystemCalls
    <3>3. rpc' = rpc
      BY <1>7 DEF ReadsList
    <3>4. CallShapes'
      BY <2>2, <3>1, <3>2, <3>3 DEF Shapes, CallShapes
    <3>5. QED
      BY <1>7, <3>4 DEF ReadsList, Shapes, DocShapes, PluginShapes
  <2>3. QED
    BY <1>7, <2>1, <2>2 DEF ReadsList
<1>8. QED
  BY <1>3, <1>4, <1>5, <1>6, <1>7

\* SystemAPI.delete, and a call to SystemAPI that begins.
LEMMA SystemCallTypes ==
    ASSUME Shapes, NEW h \in Handlers,
           \/ \E body \in SystemBodies : AcceptSystemPatch(h, body[1], body[2])
           \/ \E s \in Systems : AcceptDelete(h, s)
           \/ RemoveSystem(h)
    PROVE  Shapes'
<1>1. ASSUME NEW body \in SystemBodies, AcceptSystemPatch(h, body[1], body[2])
      PROVE  Shapes'
  <2> DEFINE call == [stage |-> "running", kind |-> "system", of |-> body[1],
                      copy |-> systems[body[1]], read |-> "no", ops |-> body[2]]
  <2>1. body[1] \in Systems /\ body[2] \in Seq(SystemOps)
    BY CatalogAssumption
  <2>2. systems[body[1]] \in SystemDocs
    BY <1>1, <2>1 DEF AcceptSystemPatch, Shapes, DocShapes
  <2>3. call \in Calls /\ call.stage = "running"
    BY <2>1, <2>2 DEF Calls, SystemCalls
  <2>4. CallShapes'
    BY <1>1, <2>3, BeginTypes DEF AcceptSystemPatch, Shapes
  <2>5. QED
    BY <1>1, <2>4 DEF AcceptSystemPatch, Shapes, DocShapes, PluginShapes
<1>2. ASSUME NEW s \in Systems, AcceptDelete(h, s)
      PROVE  Shapes'
  <2> DEFINE call == [stage |-> "running", kind |-> "delete", of |-> s,
                      copy |-> systems[s], read |-> "no", ops |-> <<"remove">>]
  <2>1. systems[s] \in SystemDocs
    BY <1>2 DEF AcceptDelete, Shapes, DocShapes
  <2>2. call \in Calls /\ call.stage = "running"
    BY <2>1 DEF Calls, DeleteCalls
  <2>3. CallShapes'
    BY <1>2, <2>2, BeginTypes DEF AcceptDelete, Shapes
  <2>4. QED
    BY <1>2, <2>3 DEF AcceptDelete, Shapes, DocShapes, PluginShapes
<1>3. CASE RemoveSystem(h)
  <2>1. ioloop = h /\ calls[h] \in DeleteCalls /\ calls[h].ops # <<>>
    BY <1>3, RunningCall DEF RemoveSystem, Running
  <2>2. [stage |-> "sent", what |-> "remove", of |-> calls[h].copy.id] \in Rpcs
    BY <2>1 DEF DeleteCalls, SystemDocs, Rpcs, SystemRpcs
  <2>3. CallShapes'
    BY <1>3, <2>1, <2>2, AskTypes DEF Shapes, RemoveSystem
  <2>4. QED
    BY <1>3, <2>3 DEF Shapes, DocShapes, PluginShapes, RemoveSystem
<1>4. QED
  BY <1>1, <1>2, <1>3

\* A PATCH of an instance that begins.
LEMMA AcceptTypes ==
    ASSUME Shapes, NEW h \in Handlers, NEW i \in Ids, NEW ops \in Seq(InstanceOps),
           AcceptInstancePatch(h, i, ops)
    PROVE  DocShapes' /\ CallShapes'
<1> DEFINE call == [stage |-> "running", kind |-> "instance", of |-> i,
                    copy |-> instances[i], read |-> "no", ops |-> ops]
<1>1. instances[i] \in Statuses \union {"stub"}
  BY DEF AcceptInstancePatch, Alive, Shapes, DocShapes
<1>2. call \in Calls /\ call.stage = "running"
  BY <1>1 DEF Calls, InstanceCalls
<1>3. QED
  BY <1>2, BeginTypes DEF AcceptInstancePatch, Shapes, DocShapes

\* The operations of InstanceAPI.patch, and one that nobody knows.
LEMMA InstancePatchTypes ==
    ASSUME Shapes, NEW h \in Handlers, AskStatus(h) \/ SaveInstance(h) \/ Unsupported(h)
    PROVE  Shapes'
<1> DEFINE c == calls[h]
<1>1. ioloop = h
  BY DEF AskStatus, SaveInstance, Unsupported, Running
<1>2. ASSUME Running(h, "instance")
      PROVE  /\ c \in InstanceCalls /\ c \in Calls /\ c.ops # <<>>
             /\ c.of \in Ids /\ c.copy \in Statuses \union {"stub"}
             /\ Head(c.ops) \in InstanceOps
  <2>1. c \in InstanceCalls /\ c \in Calls /\ c.ops # <<>>
    BY <1>2, RunningCall DEF Running
  <2>2. QED
    BY <2>1 DEF InstanceCalls
<1>3. CASE AskStatus(h)
  <2>1. [stage |-> "sent", what |-> Head(c.ops), of |-> c.of] \in Rpcs
    BY <1>2, <1>3 DEF AskStatus, Rpcs, StatusRpcs, AskedOps
  <2>2. CallShapes'
    BY <1>1, <1>2, <1>3, <2>1, AskTypes DEF Shapes, AskStatus
  <2>3. QED
    BY <1>3, <2>2 DEF Shapes, DocShapes, PluginShapes, AskStatus
<1>4. CASE SaveInstance(h)
  <2> DEFINE copy == IF Head(c.ops) = "heartbeat" THEN c.copy ELSE Head(c.ops)
  <2>1. Running(h, "instance") /\ Head(c.ops) \in {"heartbeat", "RUNNING", "STOPPED"}
        /\ Step(h, copy) /\ rpc' = rpc
    BY <1>4 DEF SaveInstance, SavesStatus
  <2>2. copy \in Statuses \union {"stub"}
    BY <1>2, <2>1 DEF Statuses
  <2> HIDE DEF copy
  <2>3. CallShapes'
    BY <1>1, <1>2, <2>1, <2>2, CallKept, StepTypes DEF Shapes
  <2>4. instances' \in [Ids -> Statuses \union {"unborn", "gone", "stub"}]
    BY <1>2, <1>4 DEF SaveInstance, SavesStatus, SavedAs, Shapes, DocShapes
  <2>5. QED
    BY <1>4, <2>3, <2>4 DEF Shapes, DocShapes, PluginShapes, SaveInstance
<1>5. CASE Unsupported(h)
  BY <1>1, <1>5, EndTypes DEF Unsupported, Shapes, DocShapes, PluginShapes
<1>6. QED
  BY <1>3, <1>4, <1>5

\* A list without one of its ids is a list.
LEMMA UnlistedType ==
    ASSUME NEW i
    PROVE  /\ \A doc \in SystemDocs : Unlisted(doc, i) \in SystemDocs
           /\ \A d \in Stubs : Unlisted(d, i) \in Stubs
<1>1. \A list \in Lists : Without(list, i) \in Lists
  BY DEF Lists, Without
<1>2. QED
  BY <1>1 DEF Unlisted, Stubs, SystemDocs

\* What Mongo, Bartender and a plugin do.
LEMMA OutsideTypes ==
    ASSUME Shapes,
           \/ \E i \in Ids : DeleteInstance(i) \/ PluginObeys(i)
           \/ \E h \in Handlers : BartenderNext(h)
    PROVE  Shapes'
<1>1. ASSUME NEW i \in Ids, DeleteInstance(i)
      PROVE  Shapes'
  <2>1. stubs' \in SUBSET Stubs
    BY <1>1, UnlistedType, CatalogAssumption DEF DeleteInstance, Shapes, DocShapes
  <2>2. systems' \in [Systems -> SystemDocs \union {Gone}]
    BY <1>1, UnlistedType DEF DeleteInstance, Shapes, DocShapes
  <2>3. DocShapes'
    BY <1>1, <2>1, <2>2 DEF DeleteInstance, Shapes, DocShapes
  <2>4. QED
    BY <1>1, <2>3 DEF DeleteInstance, Shapes, CallShapes, PluginShapes
<1>2. ASSUME NEW i \in Ids, PluginObeys(i)
      PROVE  Shapes'
  <2>1. plugin[i] \in Plugins /\ plugin[i].told # <<>>
    BY <1>2 DEF PluginObeys, Shapes, PluginShapes
  <2>2. Head(plugin[i].told) \in ReportedOps /\ Tail(plugin[i].told) \in Seq(ReportedOps)
    BY <2>1 DEF Plugins
  <2>3. [told |-> Tail(plugin[i].told), owes |-> Head(plugin[i].told),
         state |-> Head(plugin[i].told)] \in Plugins
    BY <2>2 DEF Plugins
  <2>4. PluginShapes'
    BY <1>2, <2>3 DEF PluginObeys, Shapes, PluginShapes
  <2>5. QED
    BY <1>2, <2>4 DEF PluginObeys, Shapes, CallShapes, DocShapes
<1>3. ASSUME NEW h \in Handlers, BartenderWrites(h)
      PROVE  Shapes'
  <2>1. rpc[h] \in StatusRpcs
    <3>1. rpc[h] \in SystemRpcs \/ rpc[h] \in StatusRpcs
      BY <1>3 DEF BartenderWrites, Shapes, CallShapes, Rpcs, NoRpc
    <3>2. QED
      BY <1>3, <3>1 DEF BartenderWrites, SystemRpcs
  <2>2. CASE rpc[h].of \in Alive
    <3>1. [rpc[h] EXCEPT !.stage = "written"] \in Rpcs
          /\ [rpc[h] EXCEPT !.stage = "written"].stage = "written"
      BY <2>1 DEF Rpcs, StatusRpcs
    <3>2. rpc' = [rpc EXCEPT ![h] = [rpc[h] EXCEPT !.stage = "written"]]
      BY <1>3, <2>2 DEF BartenderWrites, Shapes, CallShapes
    <3>3. calls[h].stage # "running"
      BY <1>3 DEF BartenderWrites, Shapes, CallShapes, NoRpc
    <3>4. CallShapes'
      BY <1>3, <3>1, <3>2, <3>3 DEF BartenderWrites, Shapes, CallShapes
    <3>5. rpc[h].what \in Statuses
      BY <2>1 DEF StatusRpcs, AskedOps, Statuses
    <3>6. DocShapes'
      BY <1>3, <2>2, <3>5 DEF BartenderWrites, Shapes, DocShapes
    <3>7. QED
      BY <1>3, <3>4, <3>6 DEF BartenderWrites, Shapes, PluginShapes
  <2>3. CASE rpc[h].of \notin Alive
    BY <1>3, <2>3, AnswerTypes DEF BartenderWrites, Shapes, DocShapes, PluginShapes
  <2>4. QED
    BY <2>2, <2>3
<1>4. ASSUME NEW h \in Handlers, BartenderTells(h)
      PROVE  Shapes'
  <2>1. rpc[h] \in StatusRpcs
    <3>1. rpc[h] \in SystemRpcs \/ rpc[h] \in StatusRpcs
      BY <1>4 DEF BartenderTells, Shapes, CallShapes, Rpcs, NoRpc
    <3>2. QED
      BY <1>4, <3>1 DEF BartenderTells, SystemRpcs
  <2> DEFINE order == IF rpc[h].what = "STOPPING" THEN "STOPPED" ELSE "RUNNING"
  <2>2. rpc[h].of \in Ids /\ plugin[rpc[h].of] \in Plugins /\ order \in ReportedOps
    BY <2>1 DEF StatusRpcs, Shapes, PluginShapes, ReportedOps
  <2> HIDE DEF order
  <2>3. [plugin[rpc[h].of] EXCEPT !.told = Append(@, order)] \in Plugins
    <3> DEFINE q == plugin[rpc[h].of]
    <3>1. q \in Plugins /\ q.told \in Seq(ReportedOps)
      BY <2>2 DEF Plugins
    <3>2. Append(q.told, order) \in Seq(ReportedOps)
      BY <2>2, <3>1
    <3>3. QED
      BY <3>1, <3>2 DEF Plugins
  <2>4. plugin' = [plugin EXCEPT ![rpc[h].of] =
            [plugin[rpc[h].of] EXCEPT !.told = Append(@, order)]]
    BY <1>4, <2>2 DEF BartenderTells, Shapes, PluginShapes, order
  <2>5. PluginShapes'
    BY <2>2, <2>3, <2>4 DEF Shapes, PluginShapes
  <2>6. CallShapes'
    BY <1>4, AnswerTypes DEF BartenderTells, Shapes
  <2>7. QED
    BY <1>4, <2>5, <2>6 DEF BartenderTells, Shapes, DocShapes
<1>5. ASSUME NEW h \in Handlers, BartenderReloads(h)
      PROVE  Shapes'
  BY <1>5, AnswerTypes DEF BartenderReloads, Shapes, DocShapes, PluginShapes
<1>6. ASSUME NEW h \in Handlers, BartenderRemoves(h)
      PROVE  Shapes'
  <2>1. CallShapes'
    BY <1>6, AnswerTypes DEF BartenderRemoves, Shapes
  <2>2. DocShapes'
    BY <1>6 DEF BartenderRemoves, Shapes, DocShapes
  <2>3. QED
    BY <1>6, <2>1, <2>2 DEF BartenderRemoves, Shapes, PluginShapes
<1>7. QED
  BY <1>1, <1>2, <1>3, <1>4, <1>5, <1>6 DEF BartenderNext

\* A report of a plugin.
LEMMA ReportTypes ==
    ASSUME Shapes, NEW h \in Handlers, NEW i \in Ids, PluginReports(h, i)
    PROVE  Shapes'
<1>1. plugin[i] \in Plugins /\ <<plugin[i].owes>> \in Seq(InstanceOps)
  <2>1. plugin[i].owes \in InstanceOps
    BY DEF PluginReports, Shapes, PluginShapes, Plugins, ReportedOps, InstanceOps
  <2>2. QED
    BY <2>1 DEF Shapes, PluginShapes
<1>2. [plugin[i] EXCEPT !.owes = "nothing"] \in Plugins
  BY <1>1 DEF Plugins
<1>3. plugin' = [plugin EXCEPT ![i] = [plugin[i] EXCEPT !.owes = "nothing"]]
  BY DEF PluginReports, Shapes, PluginShapes
<1>4. PluginShapes'
  BY <1>2, <1>3 DEF Shapes, PluginShapes
<1>5. DocShapes' /\ CallShapes'
  <2>1. CASE AcceptInstancePatch(h, i, <<plugin[i].owes>>)
    BY <1>1, <2>1, AcceptTypes
  <2>2. CASE UNCHANGED <<systems, stubs, created, instances, post, calls, rpc, ioloop, made>>
    BY <2>2 DEF Shapes, DocShapes, CallShapes
  <2>3. QED
    BY <2>1, <2>2 DEF PluginReports
<1>6. QED
  BY <1>4, <1>5 DEF Shapes

\* A POST that has the thread keeps it: no handler begins or goes on.
LEMMA PostShapesStep ==
    ASSUME Shapes, PostShapes, [Next]_vars
    PROVE  PostShapes'
<1>1. CASE PostNext
  <2>1. ASSUME NEW p \in Posts, PostFinds(p)
        PROVE  PostShapes'
    <3>1. systems[p.system] \in SystemDocs \union {Gone}
      BY CatalogAssumption DEF Shapes, DocShapes, NewSystems
    <3>2. QED
      BY <2>1, <3>1 DEF PostFinds, PostShapes, Free, NoPost
  <2>2. CASE PostReads
    <3>1. post \in [stage : {"found", "read"}, body : Posts, copy : SystemDocs \union {Gone}]
          /\ ioloop = NoHandler /\ post.copy # Gone
      BY <2>2 DEF PostReads, PostShapes, NoPost
    <3>2. post' = NoPost \/ post' = [post EXCEPT !.stage = "read"]
      BY <2>2 DEF PostReads
    <3>3. ioloop' = ioloop
      BY <2>2 DEF PostReads
    <3>4. QED
      BY <3>1, <3>2, <3>3 DEF PostShapes, NoPost
  <2>3. CASE PostRefused \/ PostNew \/ PostAgain
    <3>1. post' = NoPost
      BY <2>3 DEF PostRefused, PostNew, PostAgain
    <3>2. QED
      BY <3>1 DEF PostShapes, NoPost
  <2>4. QED
    BY <1>1, <2>1, <2>2, <2>3 DEF PostNext
<1>2. ASSUME post' = post, post = NoPost \/ ioloop' = ioloop
      PROVE  PostShapes'
  BY <1>2 DEF PostShapes
<1>3. ASSUME NEW h \in Handlers, HandlerNext(h)
      PROVE  post' = post /\ (post = NoPost \/ ioloop' = ioloop)
  <2>1. ioloop = h => post = NoPost
    BY CatalogAssumption DEF PostShapes
  <2>2. CASE \/ ReadsList(h) \/ ReplaceCommands(h) \/ AddInstance(h) \/ ReplaceText(h)
             \/ Reload(h) \/ RemoveSystem(h) \/ AskStatus(h) \/ SaveInstance(h)
             \/ Unsupported(h) \/ Finished(h)
    BY <2>1, <2>2 DEF ReadsList, ReplaceCommands, AddInstance, ReplaceText, Reload, RemoveSystem,
       AskStatus, SaveInstance, Unsupported, Finished, Running
  <2>3. CASE Resume(h) \/ Lost(h)
    BY <2>3 DEF Resume, Lost, Free
  <2>4. ASSUME NEW i \in Ids, PluginReports(h, i)
        PROVE  post' = post /\ (post = NoPost \/ ioloop' = ioloop)
    BY <2>4 DEF PluginReports, AcceptInstancePatch, Begin, Free
  <2>5. CASE \/ \E body \in SystemBodies : AcceptSystemPatch(h, body[1], body[2])
             \/ \E s \in Systems : AcceptDelete(h, s)
             \/ \E i \in Ids, ops \in InstanceBodies : AcceptInstancePatch(h, i, ops)
    BY <2>5 DEF AcceptSystemPatch, AcceptDelete, AcceptInstancePatch, Begin, Free
  <2>6. QED
    BY <1>3, <2>2, <2>3, <2>4, <2>5 DEF HandlerNext
<1>4. ASSUME NEW h \in Handlers, BartenderNext(h)
      PROVE  post' = post /\ ioloop' = ioloop
  BY <1>4 DEF BartenderNext, BartenderWrites, BartenderTells, BartenderReloads, BartenderRemoves
<1>5. ASSUME NEW i \in Ids, DeleteInstance(i) \/ PluginObeys(i)
      PROVE  post' = post /\ ioloop' = ioloop
  BY <1>5 DEF DeleteInstance, PluginObeys
<1>6. CASE UNCHANGED vars
  BY <1>2, <1>6 DEF vars
<1>7. QED
  BY <1>1, <1>2, <1>3, <1>4, <1>5, <1>6 DEF Next

\* Every step keeps the types.
LEMMA ShapesStep ==
    ASSUME Shapes, PostShapes, [Next]_vars
    PROVE  Shapes'
<1>1. CASE PostNext
  <2>1. UNCHANGED <<calls, rpc, ioloop, plugin>>
    BY <1>1 DEF PostNext, PostFinds, PostReads, PostRefused, PostNew, PostAgain
  <2>2. QED
    BY <1>1, <2>1, PostTypes DEF Shapes, CallShapes, PluginShapes
<1>2. ASSUME NEW h \in Handlers, HandlerNext(h)
      PROVE  Shapes'
  <2>1. ASSUME NEW i \in Ids, NEW ops \in InstanceBodies, AcceptInstancePatch(h, i, ops),
               UNCHANGED plugin
        PROVE  Shapes'
    BY <2>1, AcceptTypes, CatalogAssumption DEF Shapes, PluginShapes
  <2>2. CASE Resume(h) \/ Lost(h) \/ Finished(h)
    <3>1. UNCHANGED <<systems, stubs, created, instances, plugin>>
      BY <2>2 DEF Resume, Lost, Finished
    <3>2. QED
      BY <2>2, <3>1, FrameTypes DEF Shapes, DocShapes, PluginShapes
  <2>3. QED
    BY <1>2, <2>1, <2>2, SystemPatchTypes, SystemCallTypes, InstancePatchTypes, ReportTypes
       DEF HandlerNext
<1>3. CASE UNCHANGED vars
  BY <1>3 DEF vars, Shapes, DocShapes, CallShapes, PluginShapes
<1>4. QED
  BY <1>1, <1>2, <1>3, OutsideTypes DEF Next

\* The documents, the calls, the requests to Bartender, the POST and the plugins
\* always hold what they have a place for.
LEMMA AlwaysShapes == Spec => [](Shapes /\ PostShapes)
BY ShapesInit, ShapesStep, PostShapesStep, PTL DEF Spec

\* Every variable keeps its type.
THEOREM TypeCorrect == Spec => []TypeOK
BY AlwaysShapes, ShapesAreTypes, PTL

-----------------------------------------------------------------------------
(***************************************************************************)
(* What a step does to the documents, and to what the PATCHes under way    *)
(* have in hand.                                                           *)
(***************************************************************************)

\* A step that leaves the documents of systems alone, and no instance less than
\* there were.
Quiet == UNCHANGED <<systems, stubs, created>> /\ Alive \subseteq Alive' /\ Unborn' = Unborn

\* Seven operations change the documents of systems.
LEMMA StepKinds ==
    ASSUME Shapes, [Next]_vars
    PROVE  \/ PostNew \/ PostAgain
           \/ \E h \in Handlers : ReplaceCommands(h) \/ ReplaceText(h) \/ AddInstance(h)
           \/ \E h \in Handlers : BartenderRemoves(h)
           \/ \E i \in Ids : DeleteInstance(i)
           \/ Quiet
<1>1. UNCHANGED <<systems, stubs, created, instances>> => Quiet
  BY DEF Quiet, Alive, Unborn
<1>2. ASSUME NEW h \in Handlers, HandlerNext(h), ~ReplaceCommands(h), ~AddInstance(h),
             ~ReplaceText(h)
      PROVE  Quiet
  <2>1. CASE SaveInstance(h)
    <3>1. calls[h].of \in Ids /\ UNCHANGED <<systems, stubs, created>>
      BY <2>1, RunningCall DEF SaveInstance, Running, InstanceCalls
    <3>2. PICK new \in SavedAs(instances[calls[h].of], Head(calls[h].ops), calls[h].copy) :
              instances' = [instances EXCEPT ![calls[h].of] = new]
      BY <2>1 DEF SaveInstance, SavesStatus
    <3>3. /\ new = "gone" => instances[calls[h].of] = "gone"
          /\ new # "unborn" /\ instances[calls[h].of] # "unborn"
      <4>1. Head(calls[h].ops) \in {"heartbeat", "RUNNING", "STOPPED"}
        BY <2>1 DEF SaveInstance
      <4>2. QED
        BY <3>2, <4>1 DEF SavedAs, Statuses
    <3>4. QED
      BY <3>1, <3>2, <3>3 DEF Quiet, Alive, Unborn, Shapes, DocShapes
  <2>2. CASE \E i \in Ids : PluginReports(h, i)
    BY <1>1, <2>2 DEF PluginReports, AcceptInstancePatch
  <2>3. CASE \E i \in Ids : \E ops \in InstanceBodies : AcceptInstancePatch(h, i, ops)
    BY <1>1, <2>3 DEF AcceptInstancePatch
  <2>4. CASE \/ \E body \in SystemBodies : AcceptSystemPatch(h, body[1], body[2])
             \/ \E s \in Systems : AcceptDelete(h, s)
    BY <1>1, <2>4 DEF AcceptSystemPatch, AcceptDelete
  <2>5. CASE ReadsList(h) \/ Reload(h) \/ RemoveSystem(h) \/ AskStatus(h) \/ Unsupported(h)
             \/ Resume(h) \/ Lost(h) \/ Finished(h)
    BY <1>1, <2>5 DEF ReadsList, Reload, RemoveSystem, AskStatus, Unsupported, Resume, Lost,
                      Finished
  <2>6. QED
    BY <1>2, <2>1, <2>2, <2>3, <2>4, <2>5 DEF HandlerNext
<1>3. ASSUME NEW h \in Handlers, BartenderWrites(h)
      PROVE  Quiet
  <2>1. CASE rpc[h].of \in Alive
    <3>1. /\ \E new : /\ instances' = [instances EXCEPT ![rpc[h].of] = new]
                     /\ new \in {"INITIALIZING", "STOPPING", "STARTING", "stub"}
          /\ UNCHANGED <<systems, stubs, created>>
      BY <1>3, <2>1 DEF BartenderWrites
    <3>2. QED
      BY <2>1, <3>1 DEF Quiet, Alive, Unborn, Shapes, DocShapes
  <2>2. CASE rpc[h].of \notin Alive
    BY <1>1, <1>3, <2>2 DEF BartenderWrites
  <2>3. QED
    BY <2>1, <2>2
<1>4. ASSUME NEW h \in Handlers, BartenderTells(h) \/ BartenderReloads(h)
      PROVE  Quiet
  BY <1>1, <1>4 DEF BartenderTells, BartenderReloads
<1>5. ASSUME NEW i \in Ids, PluginObeys(i)
      PROVE  Quiet
  BY <1>1, <1>5 DEF PluginObeys
<1>6. CASE (\E p \in Posts : PostFinds(p)) \/ PostReads \/ PostRefused
  BY <1>1, <1>6 DEF PostFinds, PostReads, PostRefused
<1>7. CASE UNCHANGED vars
  BY <1>1, <1>7 DEF vars
<1>8. QED
  BY <1>2, <1>3, <1>4, <1>5, <1>6, <1>7 DEF Next, BartenderNext, PostNext

\* What the PATCH of handler h has in hand after a step: what it had, but for
\* the list when it has added to it, or what it has just loaded.
CopyFromBefore(h) ==
    /\ h \in Calling("system")
    /\ calls'[h].of = calls[h].of
    /\ calls'[h].copy.id = calls[h].copy.id
    /\ calls'[h].copy.max_instances = calls[h].copy.max_instances
    /\ AddInstance(h) \/ calls'[h].copy.instances = calls[h].copy.instances
CopyLoaded(h) ==
    systems[calls'[h].of] # Gone /\ calls'[h].copy = systems[calls'[h].of]

\* An operation of its PATCH leaves it what it had.
LEMMA CopyOfPatch ==
    ASSUME Shapes, NEW h \in Handlers, h \in Calling("system")',
           ReadsList(h) \/ ReplaceCommands(h) \/ AddInstance(h) \/ ReplaceText(h) \/ Reload(h)
    PROVE  CopyFromBefore(h)
<1> DEFINE c == calls[h]
<1>1. c \in SystemCalls
  BY RunningCall DEF ReadsList, ReplaceCommands, AddInstance, ReplaceText, Reload, Running
<1>2. h \in Calling("system") /\ c.copy \in SystemDocs /\ calls \in [Handlers -> Calls \union {Idle}]
  BY <1>1 DEF Calling, SystemCalls, Shapes, CallShapes
<1>3. ~End(h)
  BY <1>2 DEF Calling, End, Idle
<1>4. CASE ReplaceCommands(h)
  <2>1. PICK commands : Step(h, [c.copy EXCEPT !.commands = commands])
    BY <1>3, <1>4 DEF ReplaceCommands
  <2>2. calls'[h] = [c EXCEPT !.ops = Tail(@), !.copy = [c.copy EXCEPT !.commands = commands]]
    BY <1>2, <2>1 DEF Step
  <2>3. QED
    BY <1>1, <1>2, <2>2 DEF CopyFromBefore, SystemCalls, SystemDocs
<1>5. CASE AddInstance(h)
  <2>1. PICK listed : Step(h, [c.copy EXCEPT !.instances = listed])
    BY <1>3, <1>5 DEF AddInstance
  <2>2. calls'[h] = [c EXCEPT !.ops = Tail(@), !.copy = [c.copy EXCEPT !.instances = listed]]
    BY <1>2, <2>1 DEF Step
  <2>3. QED
    BY <1>1, <1>2, <1>5, <2>2 DEF CopyFromBefore, SystemCalls, SystemDocs
<1>6. CASE ReplaceText(h)
  <2>1. calls'[h] = [c EXCEPT !.ops = Tail(@), !.copy = c.copy]
    BY <1>2, <1>6 DEF ReplaceText, Step
  <2>2. QED
    BY <1>1, <1>2, <2>1 DEF CopyFromBefore, SystemCalls
<1>7. CASE Reload(h)
  <2>1. calls'[h] = Waits(c)
    BY <1>2, <1>3, <1>7 DEF Reload, Ask, Waits
  <2>2. QED
    BY <1>1, <1>2, <2>1 DEF CopyFromBefore, SystemCalls, Waits
<1>8. CASE ReadsList(h)
  <2>1. calls'[h] = [c EXCEPT !.read = "yes"]
    BY <1>2, <1>3, <1>8 DEF ReadsList
  <2>2. QED
    BY <1>1, <1>2, <2>1 DEF CopyFromBefore, SystemCalls
<1>9. QED
  BY <1>4, <1>5, <1>6, <1>7, <1>8

\* An operation of another call leaves it a call of another kind, or none.
LEMMA OtherCallStays ==
    ASSUME Shapes, NEW h \in Handlers,
           \/ RemoveSystem(h) \/ AskStatus(h) \/ SaveInstance(h) \/ Unsupported(h)
           \/ Lost(h) \/ Finished(h)
    PROVE  h \notin Calling("system")'
<1>1. End(h) => h \notin Calling("system")'
  BY DEF End, Shapes, CallShapes, Calling, Idle
<1>2. CASE RemoveSystem(h)
  <2>1. calls[h] \in DeleteCalls /\ calls \in [Handlers -> Calls \union {Idle}]
    BY <1>2, RunningCall DEF RemoveSystem, Running, Shapes, CallShapes
  <2>2. End(h) \/ calls'[h] = Waits(calls[h])
    BY <1>2, <2>1 DEF RemoveSystem, Ask, Waits
  <2>3. QED
    BY <1>1, <2>1, <2>2 DEF DeleteCalls, Calling, Waits
<1>3. CASE AskStatus(h) \/ SaveInstance(h)
  <2>1. calls[h] \in InstanceCalls /\ calls \in [Handlers -> Calls \union {Idle}]
    BY <1>3, RunningCall DEF AskStatus, SaveInstance, Running, Shapes, CallShapes
  <2>2. \/ End(h) \/ calls'[h] = Waits(calls[h])
        \/ \E copy : calls'[h] = [calls[h] EXCEPT !.ops = Tail(@), !.copy = copy]
    BY <1>3, <2>1 DEF AskStatus, SaveInstance, SavesStatus, Ask, Step, Waits
  <2>3. QED
    BY <1>1, <2>1, <2>2 DEF InstanceCalls, Calling, Waits
<1>4. CASE Unsupported(h) \/ Finished(h)
  BY <1>1, <1>4 DEF Unsupported, Finished
<1>5. CASE Lost(h)
  BY <1>5 DEF Lost, Shapes, CallShapes, Calling, Idle
<1>6. QED
  BY <1>2, <1>3, <1>4, <1>5

\* A call is what it was unless its handler does something.
LEMMA OneMoves ==
    ASSUME Shapes, [Next]_vars, NEW h \in Handlers
    PROVE  HandlerNext(h) \/ calls'[h] = calls[h]
<1>1. ASSUME NEW g \in Handlers, HandlerNext(g), g # h
      PROVE  calls'[h] = calls[h]
  <2>1. calls \in [Handlers -> Calls \union {Idle}]
    BY DEF Shapes, CallShapes
  <2>2. \A call : Begin(g, call) \/ Step(g, call) \/ End(g) => calls'[h] = calls[h]
    BY <1>1, <2>1 DEF Begin, Step, End
  <2>3. \A what, of : Ask(g, what, of) => calls'[h] = calls[h]
    BY <1>1, <2>1, <2>2 DEF Ask
  <2>4. CASE Resume(g) \/ Lost(g) \/ Finished(g)
    BY <1>1, <2>1, <2>4, <2>2 DEF Resume, Lost, Finished
  <2>5. CASE ReplaceCommands(g) \/ AddInstance(g) \/ ReplaceText(g) \/ ReadsList(g)
    BY <1>1, <2>1, <2>2, <2>5 DEF ReplaceCommands, AddInstance, ReplaceText, ReadsList
  <2>6. CASE Reload(g) \/ RemoveSystem(g) \/ AskStatus(g) \/ SaveInstance(g) \/ Unsupported(g)
    BY <2>2, <2>3, <2>6 DEF Reload, RemoveSystem, AskStatus, SaveInstance, SavesStatus, Unsupported
  <2>7. CASE \/ \E body \in SystemBodies : AcceptSystemPatch(g, body[1], body[2])
             \/ \E s \in Systems : AcceptDelete(g, s)
    BY <2>2, <2>7 DEF AcceptSystemPatch, AcceptDelete
  <2>8. ASSUME NEW i \in Ids, \/ \E ops \in InstanceBodies : AcceptInstancePatch(g, i, ops)
                              \/ PluginReports(g, i)
        PROVE  calls'[h] = calls[h]
    BY <2>2, <2>8 DEF AcceptInstancePatch, PluginReports
  <2>9. QED
    BY <1>1, <2>4, <2>5, <2>6, <2>7, <2>8 DEF HandlerNext
<1>2. QED
  BY <1>1 DEF Next, PostNext, PostFinds, PostReads, PostRefused, PostNew, PostAgain,
     BartenderNext, BartenderWrites, BartenderTells, BartenderReloads, BartenderRemoves,
     DeleteInstance, PluginObeys, vars

\* Where the documents come from that the PATCHes have in hand.
LEMMA CopyOrigin ==
    ASSUME Shapes, [Next]_vars, NEW h \in Handlers, h \in Calling("system")'
    PROVE  CopyFromBefore(h) \/ CopyLoaded(h)
<1>1. calls'[h] = calls[h] => CopyFromBefore(h)
  BY DEF CopyFromBefore, Calling
<1>2. CASE HandlerNext(h)
  <2>1. calls \in [Handlers -> Calls \union {Idle}]
    BY DEF Shapes, CallShapes
  <2>2. CASE ReadsList(h) \/ ReplaceCommands(h) \/ AddInstance(h) \/ ReplaceText(h) \/ Reload(h)
    BY <2>2, CopyOfPatch
  <2>3. CASE RemoveSystem(h) \/ AskStatus(h) \/ SaveInstance(h) \/ Unsupported(h)
             \/ Lost(h) \/ Finished(h)
    BY <2>3, OtherCallStays
  <2>4. CASE Resume(h)
    <3>1. calls[h] \in Calls /\ calls[h].stage # "idle"
      BY <2>1, <2>4 DEF Resume, Idle
    <3>2. calls'[h] = [calls[h] EXCEPT !.stage = "running"]
      BY <2>1, <2>4 DEF Resume
    <3>3. QED
      BY <3>1, <3>2 DEF CopyFromBefore, Calling, Calls, SystemCalls, DeleteCalls, InstanceCalls
  <2>5. ASSUME NEW body \in SystemBodies, AcceptSystemPatch(h, body[1], body[2])
        PROVE  CopyLoaded(h)
    BY <2>1, <2>5 DEF AcceptSystemPatch, Begin, CopyLoaded
  <2>6. ASSUME NEW s \in Systems, AcceptDelete(h, s)
        PROVE  FALSE
    BY <2>1, <2>6 DEF AcceptDelete, Begin, Calling
  <2>7. ASSUME NEW i \in Ids, NEW ops, AcceptInstancePatch(h, i, ops)
        PROVE  FALSE
    BY <2>1, <2>7 DEF AcceptInstancePatch, Begin, Calling
  <2>8. ASSUME NEW i \in Ids, PluginReports(h, i)
        PROVE  CopyFromBefore(h)
    BY <1>1, <2>7, <2>8 DEF PluginReports
  <2>9. QED
    BY <1>2, <2>2, <2>3, <2>4, <2>5, <2>6, <2>7, <2>8 DEF HandlerNext
<1>3. QED
  BY <1>1, <1>2, OneMoves

\* What the kind says of a call.
LEMMA SystemCallRecord ==
    ASSUME NEW c \in Calls \union {Idle}, c.stage # "idle", c.kind = "system"
    PROVE  c \in SystemCalls /\ c.of \in Systems /\ c.copy \in SystemDocs
<1>1. c \in SystemCalls \/ c \in DeleteCalls \/ c \in InstanceCalls \/ c = Idle
  BY DEF Calls
<1>2. c \in SystemCalls
  BY <1>1 DEF SystemCalls, DeleteCalls, InstanceCalls, Idle
<1>3. QED
  BY <1>2 DEF SystemCalls

\* What the kind says of a call under way.
LEMMA SystemCallKind ==
    ASSUME Shapes, NEW h \in Calling("system")
    PROVE  h \in Handlers /\ calls[h] \in SystemCalls /\ calls[h].of \in Systems
           /\ calls[h].copy \in SystemDocs
BY SystemCallRecord DEF Shapes, CallShapes, Calling

\* Where the document of a system comes from: it was there, or a POST has just
\* given it the next id.
LEMMA DocOrigin ==
    ASSUME Shapes, [Next]_vars, NEW s \in Systems, systems'[s] # Gone
    PROVE  \/ /\ systems[s] # Gone
              /\ systems'[s].id = systems[s].id
              /\ systems'[s].max_instances = systems[s].max_instances
           \/ systems'[s].id = created /\ created' = created + 1
<1>1. systems \in [Systems -> SystemDocs \union {Gone}]
  BY DEF Shapes, DocShapes
<1>2. systems[s] # Gone => systems[s] \in SystemDocs
  BY <1>1
<1>3. systems'[s] = systems[s] => systems[s] # Gone
  OBVIOUS
<1>4. ASSUME PostNew
      PROVE  systems'[s] = systems[s] \/ (systems'[s].id = created /\ created' = created + 1)
  BY <1>1, <1>4 DEF PostNew
<1> DEFINE Same == /\ systems[s] # Gone
                   /\ systems'[s].id = systems[s].id
                   /\ systems'[s].max_instances = systems[s].max_instances
<1>5. ASSUME NEW t, StillThere(t, systems[t]), NEW commands, NEW listed,
             \/ systems' = [systems EXCEPT ![t].commands = commands]
             \/ systems' = [systems EXCEPT ![t].instances = listed]
             \/ systems' = [systems EXCEPT ![t].commands = commands, ![t].instances = listed]
      PROVE  Same
  <2>1. CASE s = t
    <3>1. systems[s] # Gone
      BY <1>5, <2>1 DEF StillThere
    <3>2. \/ systems'[s] = [systems[s] EXCEPT !.commands = commands]
          \/ systems'[s] = [systems[s] EXCEPT !.instances = listed]
          \/ systems'[s] = [systems[s] EXCEPT !.commands = commands, !.instances = listed]
      BY <1>1, <1>5, <2>1
    <3>3. QED
      BY <1>2, <3>1, <3>2 DEF SystemDocs
  <2>2. CASE s # t
    BY <1>1, <1>3, <1>5, <2>2
  <2>3. QED
    BY <2>1, <2>2
<1>6. CASE systems' = systems
  BY <1>3, <1>6
<1>7. ASSUME PostAgain
      PROVE  Same
  <2>1. \/ systems' = systems
        \/ /\ systems[post.body.system] # Gone
           /\ \E listed : systems' = [systems EXCEPT
                  ![post.body.system].commands = post.body.commands,
                  ![post.body.system].instances = listed]
    BY <1>7 DEF PostAgain, StillThere
  <2>2. QED
    BY <1>5, <1>6, <2>1 DEF StillThere
<1>8. ASSUME NEW h \in Handlers, ReplaceCommands(h) \/ AddInstance(h) \/ ReplaceText(h)
      PROVE  Same
  <2>1. \/ systems' = systems
        \/ /\ systems[calls[h].of] # Gone
           /\ \/ \E commands : systems' = [systems EXCEPT ![calls[h].of].commands = commands]
              \/ \E listed : systems' = [systems EXCEPT ![calls[h].of].instances = listed]
    BY <1>8 DEF ReplaceCommands, AddInstance, ReplaceText, StillThere
  <2>2. QED
    BY <1>5, <1>6, <2>1 DEF StillThere
<1>9. ASSUME NEW h \in Handlers, BartenderRemoves(h)
      PROVE  systems'[s] = systems[s]
  BY <1>1, <1>9 DEF BartenderRemoves
<1>10. ASSUME NEW i \in Ids, DeleteInstance(i)
       PROVE  Same
  <2>1. systems[s] # Gone /\ systems'[s] = Unlisted(systems[s], i)
    BY <1>10 DEF DeleteInstance
  <2>2. QED
    BY <1>2, <2>1 DEF Unlisted, SystemDocs
<1>11. CASE Quiet
  BY <1>3, <1>11 DEF Quiet
<1>12. QED
  BY <1>3, <1>4, <1>7, <1>8, <1>9, <1>10, <1>11, StepKinds

\* The number of documents created never goes down.
LEMMA CreatedGrows ==
    ASSUME Shapes, [Next]_vars
    PROVE  created' \in {created, created + 1} /\ created \in Nat
BY StepKinds DEF Shapes, DocShapes, PostNew, PostAgain, ReplaceCommands, ReplaceText, AddInstance,
   BartenderRemoves, DeleteInstance, Quiet

-----------------------------------------------------------------------------
(***************************************************************************)
(* LimitKeptByPatch: a PATCH looks at the limit in its copy.  The copy of a*)
(* document that is still there has the limit of the document, for an id   *)
(* is given once.                                                          *)
(***************************************************************************)

IdsIssued ==
    /\ \A s \in Existing : systems[s].id < created
    /\ \A h \in Calling("system") :
           /\ calls[h].copy.id < created
           /\ StillThere(calls[h].of, calls[h].copy) =>
                  calls[h].copy.max_instances = systems[calls[h].of].max_instances

\* Every step keeps this.
LEMMA IdsIssuedStep ==
    ASSUME Shapes, PostShapes, IdsIssued, [Next]_vars
    PROVE  IdsIssued'
<1>1. Shapes'
  BY ShapesStep
<1>2. created' \in {created, created + 1} /\ created \in Nat
  BY CreatedGrows
<1>3. \A s \in Systems : systems[s] # Gone => systems[s].id \in Nat
  BY DEF Shapes, DocShapes, SystemDocs
<1>4. ASSUME NEW s \in Existing'
      PROVE  systems'[s].id < created'
  <2>1. s \in Systems /\ systems'[s] # Gone
    BY DEF Existing
  <2>2. QED
    BY <1>2, <1>3, <2>1, DocOrigin DEF IdsIssued, Existing
<1>5. ASSUME NEW h \in Calling("system")'
      PROVE  /\ calls'[h].copy.id < created'
             /\ StillThere(calls[h].of, calls[h].copy)' =>
                    calls'[h].copy.max_instances = systems'[calls'[h].of].max_instances
  <2> DEFINE s == calls'[h].of
  <2>1. h \in Handlers
    BY <1>5 DEF Calling
  <2>2. s \in Systems
    <3>1. calls'[h] \in Calls \union {Idle} /\ calls'[h].stage # "idle"
          /\ calls'[h].kind = "system"
      BY <1>1, <1>5 DEF Shapes, CallShapes, Calling
    <3>2. QED
      BY <3>1, SystemCallRecord
  <2>3. CASE CopyFromBefore(h)
    <3>1. calls[h].copy \in SystemDocs /\ calls[h].of = s
      BY <2>3, SystemCallKind DEF CopyFromBefore
    <3>2. calls[h].copy.id \in Nat
      BY <3>1 DEF SystemDocs
    <3>3. calls'[h].copy.id = calls[h].copy.id /\ calls[h].copy.id < created
      BY <2>3 DEF CopyFromBefore, IdsIssued
    <3>4. ASSUME StillThere(calls[h].of, calls[h].copy)'
          PROVE  calls'[h].copy.max_instances = systems'[s].max_instances
      <4>1. systems'[s] # Gone /\ systems'[s].id = calls[h].copy.id
        BY <3>3, <3>4 DEF StillThere
      <4>2. /\ systems[s] # Gone
            /\ systems'[s].id = systems[s].id
            /\ systems'[s].max_instances = systems[s].max_instances
        BY <1>2, <2>2, <3>2, <3>3, <4>1, DocOrigin
      <4>3. StillThere(calls[h].of, calls[h].copy)
        BY <3>1, <4>1, <4>2 DEF StillThere
      <4>4. QED
        BY <2>3, <3>1, <4>2, <4>3 DEF CopyFromBefore, IdsIssued
    <3>5. QED
      BY <1>2, <3>2, <3>3, <3>4
  <2>4. CASE CopyLoaded(h)
    <3>1. systems[s] # Gone /\ calls'[h].copy = systems[s] /\ systems[s].id \in Nat
          /\ systems[s].id < created
      BY <1>3, <2>2, <2>4 DEF CopyLoaded, IdsIssued, Existing
    <3>2. ASSUME StillThere(calls[h].of, calls[h].copy)'
          PROVE  calls'[h].copy.max_instances = systems'[s].max_instances
      <4>1. systems'[s] # Gone /\ systems'[s].id = systems[s].id
        BY <3>1, <3>2 DEF StillThere
      <4>2. QED
        BY <1>2, <2>2, <3>1, <4>1, DocOrigin
    <3>3. QED
      BY <1>2, <3>1, <3>2
  <2>5. QED
    BY <2>1, <2>3, <2>4, CopyOrigin, <1>5
<1>6. QED
  BY <1>4, <1>5 DEF IdsIssued

\* A list with one name more has one instance more, at most.
LEMMA OneMore ==
    ASSUME NEW listed \in [Names -> Ids \union {NoId}], NEW name \in Names, NEW i \in Ids
    PROVE  /\ Cardinality(NamesIn([listed EXCEPT ![name] = i])) <= Cardinality(NamesIn(listed)) + 1
           /\ Cardinality(NamesIn(listed)) \in Nat
           /\ Cardinality(NamesIn([listed EXCEPT ![name] = i])) \in Nat
<1>1. NamesIn([listed EXCEPT ![name] = i]) = NamesIn(listed) \union {name}
  BY CatalogAssumption DEF NamesIn
<1>2. NamesIn(listed) \in SUBSET Names
  BY DEF NamesIn
<1>3. IsFiniteSet(NamesIn(listed))
  BY <1>2, CatalogAssumption, FS_Subset
<1> DEFINE taken == NamesIn(listed)
<1>4. Cardinality(taken) \in Nat
  BY <1>3, FS_CardinalityType
<1>5. Cardinality(taken \union {name}) =
          IF name \in taken THEN Cardinality(taken) ELSE Cardinality(taken) + 1
  BY <1>3, FS_AddElement
<1> HIDE DEF taken
<1>6. Cardinality(taken \union {name}) <= Cardinality(taken) + 1
      /\ Cardinality(taken \union {name}) \in Nat
  BY <1>4, <1>5
<1>7. QED
  BY <1>1, <1>4, <1>6 DEF taken

\* No PATCH takes a system past the number of instances it allows.
LEMMA LimitStep ==
    ASSUME Shapes, PostShapes, IdsIssued, [Next]_vars, NEW s \in Systems,
           WithinLimit(systems[s]), ~WithinLimit(systems'[s])
    PROVE  ioloop = NoHandler
<1>1. systems'[s] # systems[s] /\ systems'[s] # Gone
  BY DEF WithinLimit
<1>2. systems \in [Systems -> SystemDocs \union {Gone}]
  BY DEF Shapes, DocShapes
<1>3. ASSUME NEW h \in Handlers, ReplaceCommands(h)
      PROVE  FALSE
  <2>0. /\ systems' = [systems EXCEPT ![calls[h].of].commands = Head(calls[h].ops).value]
        /\ systems[calls[h].of] # Gone
    BY <1>1, <1>3 DEF ReplaceCommands, StillThere
  <2>1. calls[h].of = s
        /\ systems' = [systems EXCEPT ![s].commands = Head(calls[h].ops).value]
        /\ systems[s] # Gone
    BY <1>1, <1>2, <2>0
  <2>2. systems[s] \in SystemDocs
        /\ systems'[s] = [systems[s] EXCEPT !.commands = Head(calls[h].ops).value]
    BY <1>2, <2>1
  <2>3. systems'[s].max_instances = systems[s].max_instances
        /\ systems'[s].instances = systems[s].instances
    BY <2>2 DEF SystemDocs
  <2>4. QED
    BY <1>1, <2>1, <2>3 DEF WithinLimit
<1>4. ASSUME NEW h \in Handlers, AddInstance(h)
      PROVE  FALSE
  <2> DEFINE copy == calls[h].copy
             name == Head(calls[h].ops).value
  <2>1. /\ calls[h] \in SystemCalls /\ calls[h].ops # <<>> /\ h \in Calling("system")
        /\ Head(calls[h].ops).kind = "add"
    BY <1>4, RunningCall DEF AddInstance, Running, Calling
  <2>2. copy \in SystemDocs /\ name \in Names
    <3>1. Head(calls[h].ops) \in SystemOps
      BY <2>1 DEF SystemCalls
    <3>2. QED
      BY <2>1, <3>1 DEF SystemCalls, SystemOps
  <2>3. PICK i \in Unborn :
            systems' = [systems EXCEPT ![calls[h].of].instances = [copy.instances EXCEPT ![name] = i]]
    BY <1>1, <1>4 DEF AddInstance
  <2>4. ~Full(copy) /\ StillThere(calls[h].of, copy) /\ calls[h].of = s
    <3>1. ~Full(copy) /\ StillThere(calls[h].of, copy)
      BY <1>1, <1>4 DEF AddInstance, AddRefused
    <3>2. QED
      BY <1>1, <1>2, <2>3, <3>1
  <2> DEFINE listed == [copy.instances EXCEPT ![name] = i]
  <2>5. systems[s] \in SystemDocs /\ systems'[s] = [systems[s] EXCEPT !.instances = listed]
    BY <1>2, <2>3, <2>4 DEF StillThere
  <2>6. systems'[s].instances = listed /\ systems'[s].max_instances = copy.max_instances
    BY <2>1, <2>4, <2>5 DEF IdsIssued, SystemDocs
  <2>7. /\ Cardinality(NamesIn(listed)) <= Cardinality(NamesIn(copy.instances)) + 1
        /\ Cardinality(NamesIn(copy.instances)) \in Nat
        /\ Cardinality(NamesIn(listed)) \in Nat
    BY <2>2, OneMore DEF SystemDocs, Unborn, Lists
  <2>8. copy.max_instances \in Nat \union {-1}
    BY <2>2 DEF SystemDocs
  <2>9. copy.max_instances = -1 \/ Cardinality(NamesIn(listed)) <= copy.max_instances
    BY <2>4, <2>7, <2>8 DEF Full
  <2>10. QED
    BY <2>6, <2>9 DEF WithinLimit
<1>5. ASSUME NEW h \in Handlers, BartenderRemoves(h)
      PROVE  FALSE
  BY <1>1, <1>2, <1>5 DEF BartenderRemoves
<1>6. CASE Quiet
  BY <1>1, <1>6 DEF Quiet
<1>7. ASSUME NEW h \in Handlers, ReplaceText(h)
      PROVE  FALSE
  BY <1>1, <1>7 DEF ReplaceText
<1>8. CASE PostNew \/ PostAgain
  BY <1>8 DEF PostNew, PostAgain, PostShapes, NoPost
<1>9. QED
  BY <1>3, <1>4, <1>5, <1>6, <1>7, <1>8, StepKinds DEF DeleteInstance, Free

\* No PATCH takes a system past the number of instances it allows, however it
\* waits and overlaps with others.
THEOREM PatchKeepsLimit == Spec => LimitKeptByPatch
<1>1. Init => IdsIssued
  BY DEF Init, IdsIssued, Existing, Calling, Idle
<1>2. Shapes /\ PostShapes /\ IdsIssued /\ [Next]_vars =>
          [\A s \in Systems :
               WithinLimit(systems[s]) /\ ~WithinLimit(systems'[s]) => ioloop = NoHandler]_vars
  BY LimitStep
<1>3. QED
  BY <1>1, <1>2, IdsIssuedStep, AlwaysShapes, PTL DEF Spec, LimitKeptByPatch

-----------------------------------------------------------------------------
(***************************************************************************)
(* ReleasedCommandsFixed and IdentityKept: what may come of a document     *)
(* that is there, in one step.                                             *)
(***************************************************************************)

\* What becomes of the POST under way.
LEMMA PostMoves ==
    ASSUME Shapes, PostShapes, [Next]_vars
    PROVE  \/ \E p \in Posts : PostFinds(p)
           \/ PostReads
           \/ post' = post
           \/ post' = NoPost
<1>1. CASE PostNext
  BY <1>1 DEF PostNext, PostRefused, PostNew, PostAgain
<1>2. ASSUME NEW h \in Handlers, HandlerNext(h)
      PROVE  post' = post
  <2>1. CASE \/ ReadsList(h) \/ ReplaceCommands(h) \/ AddInstance(h) \/ ReplaceText(h)
             \/ Reload(h) \/ RemoveSystem(h) \/ AskStatus(h) \/ SaveInstance(h)
             \/ Unsupported(h) \/ Finished(h) \/ Resume(h) \/ Lost(h)
    BY <2>1 DEF ReadsList, ReplaceCommands, AddInstance, ReplaceText, Reload, RemoveSystem,
       AskStatus, SaveInstance, Unsupported, Finished, Resume, Lost
  <2>2. ASSUME NEW i \in Ids, PluginReports(h, i)
        PROVE  post' = post
    BY <2>2 DEF PluginReports, AcceptInstancePatch
  <2>3. CASE \/ \E body \in SystemBodies : AcceptSystemPatch(h, body[1], body[2])
             \/ \E s \in Systems : AcceptDelete(h, s)
             \/ \E i \in Ids, ops \in InstanceBodies : AcceptInstancePatch(h, i, ops)
    BY <2>3 DEF AcceptSystemPatch, AcceptDelete, AcceptInstancePatch
  <2>4. QED
    BY <1>2, <2>1, <2>2, <2>3 DEF HandlerNext
<1>3. ASSUME NEW h \in Handlers, BartenderNext(h)
      PROVE  post' = post
  BY <1>3 DEF BartenderNext, BartenderWrites, BartenderTells, BartenderReloads, BartenderRemoves
<1>4. QED
  BY <1>1, <1>2, <1>3 DEF Next, DeleteInstance, PluginObeys, vars

\* While a POST has the thread, none but Bartender touches the documents of
\* systems, and it only removes them.
LEMMA PostAlone ==
    ASSUME Shapes, PostShapes, [Next]_vars, post # NoPost, ~PostNew, ~PostAgain
    PROVE  (\E h \in Handlers : BartenderRemoves(h)) \/ Quiet
<1>1. ioloop = NoHandler /\ ioloop \notin Handlers
  BY CatalogAssumption DEF PostShapes
<1>2. \A h \in Handlers : ~ReplaceCommands(h) /\ ~ReplaceText(h) /\ ~AddInstance(h)
  BY <1>1 DEF ReplaceCommands, ReplaceText, AddInstance, Running
<1>3. \A i \in Ids : ~DeleteInstance(i)
  BY DEF DeleteInstance, Free
<1>4. QED
  BY <1>2, <1>3, StepKinds

\* What a POST has found is what there is, unless that was removed since.
PostCopy ==
    post # NoPost =>
        /\ post.copy = Gone => systems[post.body.system] = Gone
        /\ post.copy # Gone /\ StillThere(post.body.system, post.copy) =>
               systems[post.body.system] = post.copy

\* It stays so.
LEMMA PostCopyStep ==
    ASSUME Shapes, PostShapes, PostCopy, [Next]_vars
    PROVE  PostCopy'
<1>1. ASSUME NEW p \in Posts, PostFinds(p)
      PROVE  PostCopy'
  BY <1>1 DEF PostFinds, PostCopy
<1>2. CASE post' = NoPost
  BY <1>2 DEF PostCopy
<1>3. ASSUME post # NoPost, post' # NoPost, PostReads \/ post' = post
      PROVE  PostCopy'
  <2>1. post \in [stage : {"found", "read"}, body : Posts, copy : SystemDocs \union {Gone}]
    BY <1>3 DEF PostShapes
  <2>2. post'.body = post.body /\ post'.copy = post.copy /\ post.body.system \in Systems
    <3>1. post' = post \/ post' = [post EXCEPT !.stage = "read"]
      BY <1>3 DEF PostReads
    <3>2. QED
      BY <2>1, <3>1, CatalogAssumption DEF NewSystems
  <2>3. ~PostNew /\ ~PostAgain
    BY <1>3 DEF PostNew, PostAgain
  <2>4. systems'[post.body.system] \in {systems[post.body.system], Gone}
    <3>1. CASE Quiet
      BY <3>1 DEF Quiet
    <3>2. CASE \E h \in Handlers : BartenderRemoves(h)
      BY <2>2, <3>2 DEF BartenderRemoves
    <3>3. QED
      BY <1>3, <2>3, <3>1, <3>2, PostAlone
  <2>5. QED
    BY <1>3, <2>2, <2>4 DEF PostCopy, StillThere
<1>4. CASE post = NoPost /\ PostReads
  BY <1>4 DEF PostReads, NoPost
<1>5. QED
  BY <1>1, <1>2, <1>3, <1>4, PostMoves

\* It holds throughout.
LEMMA AlwaysPostCopy == Spec => [](Shapes /\ PostShapes /\ PostCopy)
<1>1. Init => PostCopy
  BY DEF Init, PostCopy
<1>2. QED
  BY <1>1, AlwaysShapes, PostCopyStep, PTL DEF Spec

\* A field of a document that is there, after a POST of it, or of another.
LEMMA PostedAgain ==
    ASSUME Shapes, PostShapes, PostCopy, PostNew \/ PostAgain, NEW s \in Existing
    PROVE  \/ systems'[s] = systems[s]
           \/ /\ s = post.body.system
              /\ ~CommandsRefused(s, systems[s], post.body.commands)
              /\ systems'[s].commands = post.body.commands
              /\ \A n \in NamesIn(systems[s].instances) :
                     systems'[s].instances[n] \in {systems[s].instances[n], NoId}
<1> DEFINE p == post.body
<1>1. systems \in [Systems -> SystemDocs \union {Gone}] /\ systems[s] \in SystemDocs
      /\ systems[s] # Gone /\ s \in Systems
  BY DEF Shapes, DocShapes, Existing
<1>2. post # NoPost
  BY DEF PostNew, PostAgain, NoPost
<1>3. CASE PostNew
  <2>1. s # p.system
    BY <1>1, <1>2, <1>3 DEF PostNew, PostCopy
  <2>2. PICK doc : systems' = [systems EXCEPT ![p.system] = doc]
    BY <1>3 DEF PostNew
  <2>3. QED
    BY <1>1, <2>1, <2>2
<1>4. CASE PostAgain
  <2> DEFINE old == post.copy.instances
             named == NamedBy(p)
  <2>1. PICK new \in [named \ NamesIn(old) -> Unborn] :
            \/ /\ StillThere(p.system, post.copy)
               /\ systems' = [systems EXCEPT ![p.system].commands = p.commands,
                                             ![p.system].instances = Relisted(old, named, new)]
            \/ systems' = systems
    BY <1>4 DEF PostAgain
  <2>2. CASE s # p.system \/ systems' = systems
    BY <1>1, <2>1, <2>2
  <2>3. CASE s = p.system /\ systems' # systems
    <3>1. systems'[s] = [systems[s] EXCEPT !.commands = p.commands,
                                           !.instances = Relisted(old, named, new)]
      BY <1>1, <2>1, <2>3
    <3>2. systems'[s].commands = p.commands
          /\ systems'[s].instances = Relisted(old, named, new)
      BY <1>1, <3>1 DEF SystemDocs
    <3>3. ASSUME NEW n \in NamesIn(old)
          PROVE  Relisted(old, named, new)[n] \in {old[n], NoId}
      BY <3>3 DEF Relisted, NamesIn
    <3>4. post.copy # Gone /\ ~CommandsRefused(s, post.copy, p.commands)
      BY <1>2, <1>4, <2>3 DEF PostAgain, PostShapes
    <3>5. systems[s] = post.copy
      BY <1>2, <2>1, <2>3, <3>4 DEF PostCopy
    <3>6. QED
      BY <2>3, <3>2, <3>3, <3>4, <3>5
  <2>4. QED
    BY <2>2, <2>3
<1>5. QED
  BY <1>3, <1>4

\* A document that is there, after its commands or its list are replaced.
LEMMA Patched ==
    ASSUME Shapes, NEW h \in Handlers, NEW s \in Existing,
           ReplaceCommands(h) \/ ReplaceText(h) \/ AddInstance(h)
    PROVE  \/ systems'[s] = systems[s]
           \/ /\ calls[h].of = s /\ StillThere(s, calls[h].copy)
              /\ calls[h].stage = "running" /\ calls[h].kind = "system"
              /\ \/ /\ ReplaceCommands(h)
                    /\ ~CommandsRefused(s, calls[h].copy, systems'[s].commands)
                    /\ systems'[s].instances = systems[s].instances
                 \/ /\ AddInstance(h)
                    /\ systems'[s].commands = systems[s].commands
                    /\ \A n \in NamesIn(calls[h].copy.instances) :
                           systems'[s].instances[n] = calls[h].copy.instances[n]
<1>1. systems \in [Systems -> SystemDocs \union {Gone}] /\ systems[s] \in SystemDocs
      /\ s \in Systems
  BY DEF Shapes, DocShapes, Existing
<1>2. /\ calls[h] \in SystemCalls /\ calls[h].stage = "running" /\ calls[h].kind = "system"
      /\ calls[h].copy \in SystemDocs
  BY RunningCall DEF ReplaceCommands, ReplaceText, AddInstance, Running, SystemCalls
<1>3. CASE systems' = systems \/ s # calls[h].of
  <2>1. \/ systems' = systems
        \/ \E commands : systems' = [systems EXCEPT ![calls[h].of].commands = commands]
        \/ \E listed : systems' = [systems EXCEPT ![calls[h].of].instances = listed]
    BY DEF ReplaceCommands, ReplaceText, AddInstance
  <2>2. QED
    BY <1>1, <1>3, <2>1
<1>4. CASE ReplaceCommands(h) /\ systems' # systems /\ s = calls[h].of
  <2> DEFINE commands == Head(calls[h].ops).value
  <2>1. /\ ~CommandsRefused(s, calls[h].copy, commands) /\ StillThere(s, calls[h].copy)
        /\ systems'[s] = [systems[s] EXCEPT !.commands = commands]
    BY <1>1, <1>4 DEF ReplaceCommands
  <2>2. systems'[s].commands = commands /\ systems'[s].instances = systems[s].instances
    BY <1>1, <2>1 DEF SystemDocs
  <2>3. QED
    BY <1>2, <1>4, <2>1, <2>2
<1>5. CASE AddInstance(h) /\ systems' # systems /\ s = calls[h].of
  <2> DEFINE copy == calls[h].copy
             name == Head(calls[h].ops).value
  <2>1. PICK i \in Unborn :
            systems' = [systems EXCEPT ![s].instances = [copy.instances EXCEPT ![name] = i]]
    BY <1>5 DEF AddInstance
  <2>2. ~AddRefused(copy, name) /\ StillThere(s, copy)
    BY <1>5 DEF AddInstance
  <2>3. systems'[s].instances = [copy.instances EXCEPT ![name] = i]
        /\ systems'[s].commands = systems[s].commands
    BY <1>1, <2>1 DEF SystemDocs
  <2>4. ASSUME NEW n \in NamesIn(copy.instances)
        PROVE  systems'[s].instances[n] = copy.instances[n]
    <3>1. n # name
      BY <2>2 DEF AddRefused
    <3>2. QED
      BY <1>2, <2>3, <3>1 DEF SystemDocs, NamesIn
  <2>5. QED
    BY <1>2, <1>5, <2>2, <2>3, <2>4
<1>6. ReplaceText(h) => systems' = systems
  BY DEF ReplaceText
<1>7. QED
  BY <1>3, <1>4, <1>5, <1>6

\* A document that is there, after an instance is deleted, or a system.
LEMMA Deleted ==
    ASSUME Shapes, NEW s \in Existing, systems'[s] # Gone,
           \/ \E h \in Handlers : BartenderRemoves(h)
           \/ \E i \in Ids : DeleteInstance(i)
    PROVE  /\ systems'[s].commands = systems[s].commands
           /\ \A n \in Names : systems'[s].instances[n] \in {systems[s].instances[n], NoId}
<1>1. systems[s] \in SystemDocs /\ s \in Systems /\ systems[s] # Gone
  BY DEF Shapes, DocShapes, Existing
<1>2. CASE \E h \in Handlers : BartenderRemoves(h)
  BY <1>1, <1>2 DEF BartenderRemoves
<1>3. ASSUME NEW i \in Ids, DeleteInstance(i)
      PROVE  /\ systems'[s].commands = systems[s].commands
             /\ \A n \in Names : systems'[s].instances[n] \in {systems[s].instances[n], NoId}
  <2>1. systems'[s] = Unlisted(systems[s], i)
    BY <1>1, <1>3 DEF DeleteInstance
  <2>2. systems'[s].commands = systems[s].commands
        /\ systems'[s].instances = Without(systems[s].instances, i)
    BY <1>1, <2>1 DEF Unlisted, SystemDocs
  <2>3. QED
    BY <2>2 DEF Without
<1>4. QED
  BY <1>2, <1>3

\* The commands of a released version stay as they are until it is removed,
\* unless a PATCH comes back from a wait with others in hand.
THEOREM ReleasedCommandsStay == Spec => ReleasedCommandsFixed
<1> DEFINE Kept ==
        \A s \in Released \intersect Existing :
           systems[s].commands # NoCommands /\ systems'[s] # Gone =>
               \/ systems'[s].commands = systems[s].commands
               \/ \E h \in Handlers :
                      /\ Outdated(h) /\ calls[h].of = s
                      /\ calls[h].copy.commands # systems[s].commands
<1>1. ASSUME Shapes, PostShapes, PostCopy, [Next]_vars
      PROVE  Kept
  <2> SUFFICES ASSUME NEW s \in Released, s \in Existing,
                      systems[s].commands # NoCommands, systems'[s] # Gone,
                      systems'[s].commands # systems[s].commands
               PROVE  \E h \in Handlers :
                          /\ Outdated(h) /\ calls[h].of = s
                          /\ calls[h].copy.commands # systems[s].commands
    OBVIOUS
  <2>1. ASSUME PostNew \/ PostAgain
        PROVE  FALSE
    BY <1>1, <2>1, PostedAgain DEF CommandsRefused
  <2>2. ASSUME NEW h \in Handlers, ReplaceCommands(h) \/ ReplaceText(h) \/ AddInstance(h)
        PROVE  /\ Outdated(h) /\ calls[h].of = s
               /\ calls[h].copy.commands # systems[s].commands
    <3>1. /\ calls[h].of = s /\ StillThere(s, calls[h].copy)
          /\ calls[h].stage = "running" /\ calls[h].kind = "system"
          /\ ~CommandsRefused(s, calls[h].copy, systems'[s].commands)
      BY <1>1, <2>2, Patched
    <3>2. calls[h].copy.commands # systems[s].commands
      BY <3>1 DEF CommandsRefused
    <3>3. QED
      BY <3>1, <3>2 DEF Outdated
  <2>3. CASE (\E h \in Handlers : BartenderRemoves(h)) \/ (\E i \in Ids : DeleteInstance(i))
    BY <1>1, <2>3, Deleted
  <2>4. CASE Quiet
    BY <2>4 DEF Quiet
  <2>5. QED
    BY <1>1, <2>1, <2>2, <2>3, <2>4, StepKinds
<1>2. Shapes /\ PostShapes /\ PostCopy /\ [Next]_vars => [Kept]_vars
  BY <1>1
<1>3. QED
  BY <1>2, AlwaysPostCopy, PTL DEF Spec, ReleasedCommandsFixed

\* A plugin that registers again keeps the documents of its instances, unless
\* a PATCH that waited puts the list back to what it was.
THEOREM IdentitiesStay == Spec => IdentityKept
<1> DEFINE Kept ==
        \A s \in Existing : systems'[s] # Gone =>
           \A n \in NamesIn(systems[s].instances) \intersect NamesIn(systems'[s].instances) :
               \/ systems'[s].instances[n] = systems[s].instances[n]
               \/ \E h \in Handlers : Outdated(h) /\ calls[h].of = s
<1>1. ASSUME Shapes, PostShapes, PostCopy, [Next]_vars
      PROVE  Kept
  <2> SUFFICES ASSUME NEW s \in Existing, systems'[s] # Gone,
                      NEW n \in NamesIn(systems[s].instances),
                      n \in NamesIn(systems'[s].instances),
                      systems'[s].instances[n] # systems[s].instances[n]
               PROVE  \E h \in Handlers : Outdated(h) /\ calls[h].of = s
    OBVIOUS
  <2>0. n \in Names /\ systems'[s].instances[n] # NoId
    BY DEF NamesIn
  <2>1. ASSUME PostNew \/ PostAgain
        PROVE  FALSE
    BY <1>1, <2>0, <2>1, PostedAgain
  <2>2. ASSUME NEW h \in Handlers, ReplaceCommands(h) \/ ReplaceText(h) \/ AddInstance(h)
        PROVE  Outdated(h) /\ calls[h].of = s
    <3>1. /\ calls[h].of = s /\ StillThere(s, calls[h].copy)
          /\ calls[h].stage = "running" /\ calls[h].kind = "system"
          /\ \A m \in NamesIn(calls[h].copy.instances) :
                 systems'[s].instances[m] = calls[h].copy.instances[m]
      BY <1>1, <2>2, Patched
    <3>2. calls[h].copy # systems[s]
      BY <3>1
    <3>3. QED
      BY <3>1, <3>2 DEF Outdated
  <2>3. CASE (\E h \in Handlers : BartenderRemoves(h)) \/ (\E i \in Ids : DeleteInstance(i))
    BY <1>1, <2>0, <2>3, Deleted
  <2>4. CASE Quiet
    BY <2>4 DEF Quiet
  <2>5. QED
    BY <1>1, <2>1, <2>2, <2>3, <2>4, StepKinds
<1>2. Shapes /\ PostShapes /\ PostCopy /\ [Next]_vars => [Kept]_vars
  BY <1>1
<1>3. QED
  BY <1>2, AlwaysPostCopy, PTL DEF Spec, IdentityKept

-----------------------------------------------------------------------------
(***************************************************************************)
(* RemovedStayUnlisted.  A list names an instance in Mongo, in a stub, or  *)
(* in a copy that a PATCH or a POST has: always in the list of one system  *)
(* and under one name.  So what goes with a removed system is on no list   *)
(* of another, and a PATCH that has read its list since it last waited     *)
(* writes none that is gone.                                               *)
(***************************************************************************)

\* The documents that hold a list.
Held ==
    {systems[s] : s \in Existing} \union {calls[h].copy : h \in Calling("system")}
        \union (IF post = NoPost THEN {} ELSE {post.copy} \ {Gone}) \union stubs

\* An instance is listed for one system only, and under one name.
OneHome ==
    \A x, y \in Held, m, n \in Names :
        x.instances[m] # NoId /\ x.instances[m] = y.instances[n] => x.id = y.id /\ m = n

\* A list names no instance that is yet to be given out.
HeldBorn == \A x \in Held, n \in Names : x.instances[n] \notin Unborn

\* A list that says nothing new.
Known(x) ==
    \A n \in Names : x.instances[n] # NoId =>
        \E y \in Held : y.id = x.id /\ y.instances[n] = x.instances[n]

\* What is held has an id and a list.
LEMMA HeldTypes ==
    ASSUME Shapes, PostShapes, NEW x \in Held
    PROVE  x.id \in Nat /\ x.instances \in Lists
<1>1. CASE \E s \in Existing : x = systems[s]
  BY <1>1 DEF Existing, Shapes, DocShapes, SystemDocs
<1>2. ASSUME NEW h \in Calling("system"), x = calls[h].copy
      PROVE  x \in SystemDocs
  BY <1>2, SystemCallKind
<1>3. CASE post # NoPost /\ x = post.copy /\ x # Gone
  BY <1>3 DEF PostShapes, SystemDocs
<1>4. CASE x \in stubs
  BY <1>4 DEF Shapes, DocShapes, Stubs
<1>5. QED
  BY <1>1, <1>2, <1>3, <1>4 DEF Held, SystemDocs

\* The unborn ids only become fewer.
LEMMA UnbornShrinks ==
    ASSUME Shapes, [Next]_vars
    PROVE  Unborn' \subseteq Unborn
<1>1. CASE PostNew \/ PostAgain
  <2>1. \E ids : instances' = Born(ids)
    BY <1>1 DEF PostNew, PostAgain
  <2>2. QED
    BY <2>1 DEF Born, Unborn
<1>2. ASSUME NEW h \in Handlers, ReplaceCommands(h) \/ ReplaceText(h) \/ AddInstance(h)
      PROVE  Unborn' \subseteq Unborn
  <2>1. (\E ids : instances' = Born(ids)) \/ instances' = instances
    BY <1>2 DEF ReplaceCommands, ReplaceText, AddInstance
  <2>2. QED
    BY <2>1 DEF Born, Unborn
<1>3. ASSUME NEW h \in Handlers, BartenderRemoves(h)
      PROVE  Unborn' \subseteq Unborn
  BY <1>3 DEF BartenderRemoves, Unborn
<1>4. ASSUME NEW i \in Ids, DeleteInstance(i)
      PROVE  Unborn' \subseteq Unborn
  BY <1>4 DEF DeleteInstance, Unborn, Shapes, DocShapes
<1>5. CASE Quiet
  BY <1>5 DEF Quiet
<1>6. QED
  BY <1>1, <1>2, <1>3, <1>4, <1>5, StepKinds

\* The system with this id is given the instances new, under the names named,
\* and no list says anything else that is new.
GivesOut(id, named, new) ==
    /\ named \in SUBSET Names
    /\ new \in [named -> Unborn]
    /\ \A m, n \in named : new[m] = new[n] => m = n
    /\ \A n \in named : new[n] \notin Unborn'
    /\ \A x \in Held', n \in Names : x.instances[n] # NoId =>
           \/ \E y \in Held : y.id = x.id /\ y.instances[n] = x.instances[n]
           \/ x.id = id /\ n \in named /\ new[n] = x.instances[n]

\* New instances, each with a document of its own, get one home each.
LEMMA NewHomes ==
    ASSUME OneHome, HeldBorn, Unborn' \subseteq Unborn,
           NEW id, NEW named, NEW new, GivesOut(id, named, new)
    PROVE  OneHome' /\ HeldBorn'
<1>0. /\ named \in SUBSET Names /\ new \in [named -> Unborn]
      /\ \A m, n \in named : new[m] = new[n] => m = n
      /\ \A n \in named : new[n] \notin Unborn'
      /\ \A x \in Held', n \in Names : x.instances[n] # NoId =>
             \/ \E y \in Held : y.id = x.id /\ y.instances[n] = x.instances[n]
             \/ x.id = id /\ n \in named /\ new[n] = x.instances[n]
  BY DEF GivesOut
<1>1. ASSUME NEW x \in Held', NEW y \in Held', NEW m \in Names, NEW n \in Names,
             x.instances[m] # NoId, x.instances[m] = y.instances[n]
      PROVE  x.id = y.id /\ m = n
  <2>1. CASE x.id = id /\ m \in named /\ new[m] = x.instances[m]
    <3>1. ~\E z \in Held : z.instances[n] = y.instances[n]
      BY <1>0, <1>1, <2>1 DEF HeldBorn
    <3>2. y.id = id /\ n \in named /\ new[n] = y.instances[n]
      BY <1>0, <1>1, <3>1
    <3>3. QED
      BY <1>0, <1>1, <2>1, <3>2
  <2>2. ASSUME NEW u \in Held, u.id = x.id, u.instances[m] = x.instances[m]
        PROVE  x.id = y.id /\ m = n
    <3>1. ~(n \in named /\ new[n] = y.instances[n])
      BY <1>0, <1>1, <2>2 DEF HeldBorn
    <3>2. PICK v \in Held : v.id = y.id /\ v.instances[n] = y.instances[n]
      BY <1>0, <1>1, <3>1
    <3>3. QED
      BY <1>1, <2>2, <3>2 DEF OneHome
  <2>3. QED
    BY <1>0, <1>1, <2>1, <2>2
<1>2. ASSUME NEW x \in Held', NEW n \in Names
      PROVE  x.instances[n] \notin Unborn'
  <2>1. NoId \notin Unborn
    BY CatalogAssumption DEF Unborn
  <2>2. CASE x.instances[n] = NoId
    BY <2>1, <2>2
  <2>3. CASE x.instances[n] # NoId
    BY <1>0, <2>3 DEF HeldBorn
  <2>4. QED
    BY <2>2, <2>3
<1>3. QED
  BY <1>1, <1>2 DEF OneHome, HeldBorn

\* So it is when no list says anything new.
LEMMA NoNewHomes ==
    ASSUME OneHome, HeldBorn, Unborn' \subseteq Unborn, \A x \in Held' : Known(x)
    PROVE  OneHome' /\ HeldBorn'
<1>1. ASSUME NEW x \in Held', NEW y \in Held', NEW m \in Names, NEW n \in Names,
             x.instances[m] # NoId, x.instances[m] = y.instances[n]
      PROVE  x.id = y.id /\ m = n
  <2>1. PICK u \in Held : u.id = x.id /\ u.instances[m] = x.instances[m]
    BY <1>1 DEF Known
  <2>2. PICK v \in Held : v.id = y.id /\ v.instances[n] = y.instances[n]
    BY <1>1 DEF Known
  <2>3. QED
    BY <1>1, <2>1, <2>2 DEF OneHome
<1>2. ASSUME NEW x \in Held', NEW n \in Names
      PROVE  x.instances[n] \notin Unborn'
  <2>1. NoId \notin Unborn
    BY CatalogAssumption DEF Unborn
  <2>2. QED
    BY <2>1 DEF HeldBorn, Known
<1>3. QED
  BY <1>1, <1>2 DEF OneHome, HeldBorn

\* What is held is known.
LEMMA HeldKnown == \A x \in Held : Known(x)
BY DEF Known

\* The copies of the PATCHes and of the POST say nothing new, but for what is
\* being added.
LEMMA CopiesKnown ==
    ASSUME Shapes, PostShapes, [Next]_vars, NEW x \in Held',
           \A s \in Existing' : x # systems'[s], x \notin stubs'
    PROVE  Known(x) \/ \E h \in Calling("system")' : AddInstance(h) /\ x = calls'[h].copy
<1>1. ASSUME NEW h \in Calling("system")', x = calls'[h].copy, ~AddInstance(h)
      PROVE  Known(x)
  <2>1. h \in Handlers
    BY DEF Calling
  <2>2. CASE CopyFromBefore(h)
    <3>1. calls[h].copy \in Held
      BY <2>2 DEF CopyFromBefore, Held
    <3>2. x.id = calls[h].copy.id /\ x.instances = calls[h].copy.instances
      BY <1>1, <2>2 DEF CopyFromBefore
    <3>3. QED
      BY <3>1, <3>2 DEF Known
  <2>3. CASE CopyLoaded(h)
    <3>1. calls'[h].of \in Systems
      <4>1. Shapes'
        BY ShapesStep
      <4>2. calls'[h] \in Calls \union {Idle} /\ calls'[h].stage # "idle"
            /\ calls'[h].kind = "system"
        BY <2>1, <4>1 DEF Shapes, CallShapes, Calling
      <4>3. QED
        BY <4>2, SystemCallRecord
    <3>2. x \in Held
      BY <1>1, <2>3, <3>1 DEF CopyLoaded, Held, Existing
    <3>3. QED
      BY <3>2, HeldKnown
  <2>4. QED
    BY <2>1, <2>2, <2>3, CopyOrigin
<1>2. ASSUME post' # NoPost, x = post'.copy, x # Gone
      PROVE  Known(x)
  <2>1. ASSUME NEW p \in Posts, PostFinds(p)
        PROVE  x \in Held
    <3>1. x = systems[p.system] /\ p.system \in Systems
      BY <1>2, <2>1, CatalogAssumption DEF PostFinds, NewSystems
    <3>2. QED
      BY <1>2, <3>1 DEF Held, Existing
  <2>2. CASE PostReads
    <3>1. post # NoPost /\ post' = [post EXCEPT !.stage = "read"]
      BY <1>2, <2>2 DEF PostReads, NoPost
    <3>2. post'.copy = post.copy
      BY <3>1 DEF PostShapes
    <3>3. x \in Held
      BY <1>2, <3>1, <3>2 DEF Held
    <3>4. QED
      BY <3>3, HeldKnown
  <2>3. CASE post' = post
    <3>1. x \in Held
      BY <1>2, <2>3 DEF Held
    <3>2. QED
      BY <3>1, HeldKnown
  <2>4. QED
    BY <1>2, <2>1, <2>2, <2>3, PostMoves, HeldKnown
<1>3. (\E h \in Calling("system")' : x = calls'[h].copy)
      \/ (post' # NoPost /\ x = post'.copy /\ x # Gone)
  BY DEF Held
<1>4. QED
  BY <1>1, <1>2, <1>3

\* A stub that is put back with a list that says nothing new.
LEMMA StubKnown ==
    ASSUME Shapes, NEW doc, doc.id \in Nat, PutBack(doc, StubList(doc)), NEW x \in stubs'
    PROVE  Known(x)
<1>1. CASE x \in stubs
  <2>1. x \in Held
    BY <1>1 DEF Held
  <2>2. QED
    BY <2>1, HeldKnown
<1>2. CASE x = [id |-> doc.id, instances |-> StubList(doc)]
  <2>1. CASE \E d \in stubs : d.id = doc.id
    <3>1. PICK d \in stubs : d.id = doc.id /\ StubList(doc) = d.instances
      BY <2>1 DEF StubList
    <3>2. d \in Held /\ x.id = d.id /\ x.instances = d.instances
      BY <1>2, <3>1 DEF Held
    <3>3. QED
      BY <3>2 DEF Known
  <2>2. CASE ~\E d \in stubs : d.id = doc.id
    BY <1>2, <2>2 DEF StubList, NoList, Known
  <2>3. QED
    BY <2>1, <2>2
<1>3. QED
  BY <1>1, <1>2 DEF PutBack

\* A list without one of its instances says nothing new.
LEMMA UnlistedKnown ==
    ASSUME Shapes, NEW i, NEW y \in Held, y \in SystemDocs \/ y \in Stubs
    PROVE  Known(Unlisted(y, i))
<1>1. Unlisted(y, i).id = y.id /\ Unlisted(y, i).instances = Without(y.instances, i)
  BY DEF Unlisted, SystemDocs, Stubs
<1>2. QED
  BY <1>1 DEF Known, Without

\* Steps that give out no instance.
LEMMA OldHomes ==
    ASSUME Shapes, PostShapes, [Next]_vars, \A h \in Handlers : ~AddInstance(h),
           ~PostNew, ~PostAgain, NEW x \in Held'
    PROVE  Known(x)
<1>1. systems \in [Systems -> SystemDocs \union {Gone}] /\ stubs \subseteq Stubs
  BY DEF Shapes, DocShapes
<1>2. ASSUME NEW s \in Existing', x = systems'[s]
      PROVE  Known(x)
  <2>1. s \in Systems /\ systems'[s] # Gone
    BY <1>2 DEF Existing
  <2>2. CASE systems'[s] = systems[s]
    <3>1. x \in Held
      BY <1>2, <2>1, <2>2 DEF Held, Existing
    <3>2. QED
      BY <3>1, HeldKnown
  <2>3. ASSUME NEW h \in Handlers, ReplaceCommands(h) \/ ReplaceText(h)
        PROVE  Known(x)
    <3>1. created' = created /\ created \in Nat
      BY <2>3 DEF ReplaceCommands, ReplaceText, Shapes, DocShapes
    <3>2. systems[s] # Gone /\ systems'[s].id = systems[s].id
      BY <2>1, <3>1, DocOrigin
    <3>3. s \in Existing /\ ~AddInstance(h)
      BY <2>1, <3>2 DEF Existing
    <3>4. systems'[s] = systems[s] \/ systems'[s].instances = systems[s].instances
      BY <2>3, <3>3, Patched
    <3>5. systems[s] \in Held
      BY <3>3 DEF Held
    <3>6. QED
      BY <1>2, <3>2, <3>4, <3>5 DEF Known
  <2>4. ASSUME NEW h \in Handlers, BartenderRemoves(h)
        PROVE  systems'[s] = systems[s]
    BY <1>1, <2>1, <2>4 DEF BartenderRemoves
  <2>5. ASSUME NEW i \in Ids, DeleteInstance(i)
        PROVE  Known(x)
    <3>1. systems[s] # Gone /\ systems'[s] = Unlisted(systems[s], i)
      BY <2>1, <2>5 DEF DeleteInstance
    <3>2. systems[s] \in Held /\ systems[s] \in SystemDocs
      BY <1>1, <2>1, <3>1 DEF Held, Existing
    <3>3. QED
      BY <1>2, <3>1, <3>2, UnlistedKnown
  <2>6. CASE Quiet
    BY <2>2, <2>6 DEF Quiet
  <2>7. QED
    BY <2>2, <2>3, <2>4, <2>5, <2>6, StepKinds
<1>3. ASSUME x \in stubs'
      PROVE  Known(x)
  <2>1. CASE x \in stubs
    <3>1. x \in Held
      BY <2>1 DEF Held
    <3>2. QED
      BY <3>1, HeldKnown
  <2>2. ASSUME NEW h \in Handlers, ReplaceCommands(h) \/ ReplaceText(h), x \notin stubs
        PROVE  Known(x)
    <3>1. calls[h].copy.id \in Nat
      BY <2>2, RunningCall DEF ReplaceCommands, ReplaceText, Running, SystemCalls, SystemDocs
    <3>2. PutBack(calls[h].copy, StubList(calls[h].copy))
      BY <1>3, <2>2 DEF ReplaceCommands, ReplaceText
    <3>3. QED
      BY <1>3, <3>1, <3>2, StubKnown
  <2>3. ASSUME NEW h \in Handlers, BartenderRemoves(h)
        PROVE  x \in stubs
    BY <1>3, <2>3 DEF BartenderRemoves
  <2>4. ASSUME NEW i \in Ids, DeleteInstance(i)
        PROVE  Known(x)
    <3>1. PICK d \in stubs : x = Unlisted(d, i)
      BY <1>3, <2>4 DEF DeleteInstance
    <3>2. d \in Held /\ d \in Stubs
      BY <1>1, <3>1 DEF Held
    <3>3. QED
      BY <3>1, <3>2, UnlistedKnown
  <2>5. CASE Quiet
    BY <1>3, <2>1, <2>5 DEF Quiet
  <2>6. QED
    BY <2>1, <2>2, <2>3, <2>4, <2>5, StepKinds
<1>4. QED
  BY <1>2, <1>3, CopiesKnown DEF Calling

\* Instances that are given out are not unborn any more.
LEMMA NewAreBorn ==
    ASSUME NEW named, NEW new, instances' = Born({new[n] : n \in named})
    PROVE  \A n \in named : new[n] \notin Unborn'
BY DEF Born, Unborn

\* A POST gives out instances.
LEMMA PostHomes ==
    ASSUME Shapes, PostShapes, OneHome, HeldBorn, [Next]_vars, PostNew \/ PostAgain
    PROVE  OneHome' /\ HeldBorn'
<1> DEFINE p == post.body
           named == NamedBy(p)
<1>1. post # NoPost /\ p.system \in Systems /\ named \in SUBSET Names
  <2>1. post # NoPost /\ p \in NewSystems
    BY CatalogAssumption DEF PostNew, PostAgain, PostShapes, NoPost
  <2>2. QED
    BY <2>1, CatalogAssumption DEF NewSystems, NamedBy
<1>2. systems \in [Systems -> SystemDocs \union {Gone}]
  BY DEF Shapes, DocShapes
<1>3. ASSUME NEW x \in Held', \A s \in Existing' : x # systems'[s], x \notin stubs'
      PROVE  Known(x)
  <2>1. \A h \in Handlers : ~AddInstance(h)
    BY <1>1, CatalogAssumption DEF AddInstance, Running, PostShapes
  <2>2. QED
    BY <1>3, <2>1, CopiesKnown DEF Calling
<1>4. ASSUME NEW s \in Existing', systems'[s] = systems[s]
      PROVE  Known(systems'[s])
  <2>1. systems[s] \in Held
    BY <1>4 DEF Existing, Held
  <2>2. QED
    BY <1>4, <2>1, HeldKnown
<1>5. ASSUME NEW x \in stubs
      PROVE  Known(x)
  BY HeldKnown DEF Held
<1>6. CASE PostNew
  <2>1. PICK new \in [named -> Unborn] :
            /\ Registered(NoList, named, new)
            /\ instances' = Born({new[n] : n \in named})
            /\ \E commands, max : systems' = [systems EXCEPT ![p.system] =
                   [id |-> created, commands |-> commands, max_instances |-> max,
                    instances |-> Relisted(NoList, named, new)]]
    BY <1>6 DEF PostNew
  <2>2. \A m, n \in named : new[m] = new[n] => m = n
    BY <2>1 DEF Registered
  <2> HIDE DEF p, named
  <2>3. ASSUME NEW x \in Held', NEW n \in Names, x.instances[n] # NoId, ~Known(x)
        PROVE  x.id = created /\ n \in named /\ new[n] = x.instances[n]
    <3>1. stubs' = stubs
      BY <1>6 DEF PostNew
    <3>2. PICK s \in Existing' : x = systems'[s]
      BY <1>3, <1>5, <2>3, <3>1
    <3>3. s = p.system
      BY <1>2, <1>4, <2>1, <2>3, <3>2 DEF Existing
    <3>4. x.id = created /\ x.instances = Relisted(NoList, named, new)
      BY <1>1, <1>2, <2>1, <3>2, <3>3
    <3>5. QED
      BY <2>3, <3>4 DEF Relisted, NoList
  <2>4. \A x \in Held', n \in Names : x.instances[n] # NoId =>
            \/ \E y \in Held : y.id = x.id /\ y.instances[n] = x.instances[n]
            \/ x.id = created /\ n \in named /\ new[n] = x.instances[n]
    BY <2>3 DEF Known
  <2>5. \A n \in named : new[n] \notin Unborn'
    BY <2>1, NewAreBorn
  <2>6. Unborn' \subseteq Unborn
    BY UnbornShrinks
  <2>7. new \in [named -> Unborn] /\ named \in SUBSET Names
    BY <1>1
  <2>8. GivesOut(created, named, new)
    BY <2>2, <2>4, <2>5, <2>7 DEF GivesOut
  <2>9. QED
    BY <2>6, <2>8, NewHomes
<1>7. CASE PostAgain
  <2> DEFINE old == post.copy.instances
             fresh == named \ NamesIn(old)
  <2>1. PICK new \in [fresh -> Unborn] :
            /\ Registered(old, named, new)
            /\ instances' = Born({new[n] : n \in DOMAIN new})
            /\ \/ /\ StillThere(p.system, post.copy)
                  /\ \E commands : systems' = [systems EXCEPT ![p.system].commands = commands,
                                             ![p.system].instances = Relisted(old, named, new)]
                  /\ UNCHANGED stubs
               \/ /\ PutBack(post.copy, Relisted(old, named, new))
                  /\ UNCHANGED systems
    BY <1>7 DEF PostAgain
  <2>2. \A m, n \in fresh : new[m] = new[n] => m = n
    BY <2>1 DEF Registered
  <2>3. post.copy \in Held /\ post.copy \in SystemDocs
    BY <1>1, <1>7 DEF PostAgain, PostShapes, Held
  <2>4. fresh \in SUBSET Names /\ DOMAIN new = fresh
    BY <1>1
  <2> HIDE DEF p, named, old, fresh
  <2>5. ASSUME NEW x \in Held', ~Known(x)
        PROVE  x.id = post.copy.id /\ x.instances = Relisted(old, named, new)
    <3>1. CASE \E s \in Existing' : x = systems'[s]
      <4>1. PICK s \in Existing' : x = systems'[s]
        BY <3>1
      <4>2. s = p.system /\ systems' # systems
        BY <1>2, <1>4, <2>1, <2>5, <4>1 DEF Existing
      <4>3. systems[s] \in SystemDocs /\ systems[s].id = post.copy.id
        BY <1>1, <1>2, <2>1, <4>2 DEF StillThere
      <4>4. PICK commands : systems'[s] = [systems[s] EXCEPT
                !.commands = commands, !.instances = Relisted(old, named, new)]
        BY <1>1, <1>2, <2>1, <4>2
      <4>5. QED
        BY <4>1, <4>3, <4>4 DEF SystemDocs
    <3>2. CASE x \in stubs'
      <4>1. x = [id |-> post.copy.id, instances |-> Relisted(old, named, new)]
        BY <1>5, <2>1, <2>5, <3>2 DEF PutBack
      <4>2. QED
        BY <4>1
    <3>3. QED
      BY <1>3, <2>5, <3>1, <3>2
  <2>6. ASSUME NEW x \in Held', NEW n \in Names, x.instances[n] # NoId, ~Known(x)
        PROVE  \/ \E y \in Held : y.id = x.id /\ y.instances[n] = x.instances[n]
               \/ x.id = post.copy.id /\ n \in fresh /\ new[n] = x.instances[n]
    <3>1. x.id = post.copy.id /\ x.instances[n] = Relisted(old, named, new)[n]
      BY <2>5, <2>6
    <3>2. CASE n \in fresh
      BY <2>4, <2>6, <3>1, <3>2 DEF Relisted, fresh
    <3>3. CASE n \notin fresh
      <4>1. x.instances[n] = old[n]
        BY <2>4, <2>6, <3>1, <3>3 DEF Relisted
      <4>2. QED
        BY <2>3, <3>1, <4>1 DEF old
    <3>4. QED
      BY <3>2, <3>3
  <2>7. \A x \in Held', n \in Names : x.instances[n] # NoId =>
            \/ \E y \in Held : y.id = x.id /\ y.instances[n] = x.instances[n]
            \/ x.id = post.copy.id /\ n \in fresh /\ new[n] = x.instances[n]
    BY <2>6 DEF Known
  <2>8. \A n \in fresh : new[n] \notin Unborn'
    BY <2>1, <2>4, NewAreBorn
  <2>9. Unborn' \subseteq Unborn
    BY UnbornShrinks
  <2>10. new \in [fresh -> Unborn]
    OBVIOUS
  <2>11. GivesOut(post.copy.id, fresh, new)
    BY <2>2, <2>4, <2>7, <2>8, <2>10 DEF GivesOut
  <2>12. QED
    BY <2>9, <2>11, NewHomes
<1>8. QED
  BY <1>6, <1>7

\* A PATCH that adds an instance.
LEMMA AddHomes ==
    ASSUME Shapes, PostShapes, OneHome, HeldBorn, [Next]_vars, NEW g \in Handlers, AddInstance(g)
    PROVE  OneHome' /\ HeldBorn'
<1> DEFINE c == calls[g]
           copy == calls[g].copy
           name == Head(calls[g].ops).value
<1>1. /\ c \in SystemCalls /\ c.ops # <<>> /\ g \in Calling("system") /\ ioloop = g
      /\ Head(c.ops).kind = "add"
      /\ calls \in [Handlers -> Calls \union {Idle}]
      /\ systems \in [Systems -> SystemDocs \union {Gone}]
  BY RunningCall DEF AddInstance, Running, Calling, Shapes, CallShapes, DocShapes
<1>2. copy \in SystemDocs /\ name \in Names /\ c.of \in Systems /\ copy \in Held
  <2>1. Head(c.ops) \in SystemOps
    BY <1>1 DEF SystemCalls
  <2>2. QED
    BY <1>1, <2>1 DEF SystemCalls, SystemOps, Held
<1>3. Unborn' \subseteq Unborn
  BY UnbornShrinks
<1>4. \A h \in Handlers : AddInstance(h) => h = g
  BY <1>1 DEF AddInstance, Running
<1>5. ASSUME NEW x \in Held', \/ \E s \in Existing' : x = systems'[s] /\ systems'[s] = systems[s]
                              \/ x \in stubs
      PROVE  Known(x)
  BY <1>5, HeldKnown DEF Held, Existing
<1>6. ASSUME End(g), UNCHANGED <<systems, stubs, instances>>
      PROVE  OneHome' /\ HeldBorn'
  <2>1. g \notin Calling("system")'
    BY <1>1, <1>6 DEF End, Calling, Idle
  <2>2. \A h \in Calling("system")' : ~AddInstance(h)
    BY <1>4, <2>1 DEF Calling
  <2>3. ASSUME NEW x \in Held'
        PROVE  Known(x)
    <3>1. CASE (\E s \in Existing' : x = systems'[s]) \/ x \in stubs'
      BY <1>5, <1>6, <3>1
    <3>2. QED
      BY <2>2, <3>1, CopiesKnown
  <2>4. QED
    BY <1>3, <2>3, NoNewHomes
<1>7. ASSUME NEW i \in Unborn, NEW listed, listed = [copy.instances EXCEPT ![name] = i],
             instances' = Born({i}),
             Step(g, [copy EXCEPT !.instances = listed]),
             \/ /\ StillThere(c.of, copy)
                /\ systems' = [systems EXCEPT ![c.of].instances = listed]
                /\ UNCHANGED stubs
             \/ PutBack(copy, listed) /\ UNCHANGED systems
      PROVE  OneHome' /\ HeldBorn'
  <2>1. ASSUME NEW x \in Held', ~Known(x)
        PROVE  x.id = copy.id /\ x.instances = listed
    <3>1. CASE \E s \in Existing' : x = systems'[s]
      <4>1. PICK s \in Existing' : x = systems'[s]
        BY <3>1
      <4>2. s = c.of /\ systems' # systems
        BY <1>1, <1>5, <1>7, <2>1, <4>1 DEF Existing
      <4>3. systems[s] \in SystemDocs /\ systems[s].id = copy.id
        BY <1>1, <1>2, <1>7, <4>2 DEF StillThere
      <4>4. systems'[s] = [systems[s] EXCEPT !.instances = listed]
        BY <1>1, <1>2, <1>7, <4>2
      <4>5. QED
        BY <4>1, <4>3, <4>4 DEF SystemDocs
    <3>2. CASE x \in stubs'
      <4>1. x = [id |-> copy.id, instances |-> listed]
        BY <1>5, <1>7, <2>1, <3>2 DEF PutBack
      <4>2. QED
        BY <4>1
    <3>3. CASE x = calls'[g].copy
      <4>1. calls'[g] = [c EXCEPT !.ops = Tail(@), !.copy = [copy EXCEPT !.instances = listed]]
        BY <1>1, <1>7 DEF Step
      <4>2. x = [copy EXCEPT !.instances = listed]
        BY <1>1, <3>3, <4>1 DEF SystemCalls
      <4>3. QED
        BY <1>2, <4>2 DEF SystemDocs
    <3>4. QED
      BY <1>4, <2>1, <3>1, <3>2, <3>3, CopiesKnown DEF Calling
  <2> DEFINE new == [n \in {name} |-> i]
  <2>2. new \in [{name} -> Unborn] /\ {name} \in SUBSET Names
        /\ \A m, n \in {name} : new[m] = new[n] => m = n
    BY <1>2
  <2>3. \A n \in {name} : new[n] \notin Unborn'
    BY <1>7 DEF Born, Unborn
  <2>4. ASSUME NEW x \in Held', NEW n \in Names, x.instances[n] # NoId, ~Known(x)
        PROVE  \/ \E y \in Held : y.id = x.id /\ y.instances[n] = x.instances[n]
               \/ x.id = copy.id /\ n \in {name} /\ new[n] = x.instances[n]
    <3>1. x.id = copy.id /\ x.instances = listed
      BY <2>1, <2>4
    <3>2. copy.instances \in Lists
      BY <1>2 DEF SystemDocs
    <3>3. CASE n = name
      BY <1>2, <1>7, <3>1, <3>2, <3>3 DEF Lists
    <3>4. CASE n # name
      <4>1. x.instances[n] = copy.instances[n]
        BY <1>7, <3>1, <3>2, <3>4 DEF Lists
      <4>2. QED
        BY <1>2, <3>1, <4>1
    <3>5. QED
      BY <3>3, <3>4
  <2>5. \A x \in Held', n \in Names : x.instances[n] # NoId =>
            \/ \E y \in Held : y.id = x.id /\ y.instances[n] = x.instances[n]
            \/ x.id = copy.id /\ n \in {name} /\ new[n] = x.instances[n]
    BY <2>4 DEF Known
  <2> HIDE DEF new, name, copy
  <2>6. GivesOut(copy.id, {name}, new)
    BY <2>2, <2>3, <2>5 DEF GivesOut
  <2>7. QED
    BY <1>3, <2>6, NewHomes
<1>8. QED
  BY <1>6, <1>7 DEF AddInstance

\* Every step keeps the homes.
LEMMA HomeStep ==
    ASSUME Shapes, PostShapes, OneHome, HeldBorn, [Next]_vars
    PROVE  OneHome' /\ HeldBorn'
<1>1. CASE \E h \in Handlers : AddInstance(h)
  BY <1>1, AddHomes
<1>2. CASE PostNew \/ PostAgain
  BY <1>2, PostHomes
<1>3. CASE (\A h \in Handlers : ~AddInstance(h)) /\ ~PostNew /\ ~PostAgain
  BY <1>3, OldHomes, UnbornShrinks, NoNewHomes
<1>4. QED
  BY <1>1, <1>2, <1>3

\* The instances that go with a removed system are on no other list.
LEMMA RemovedAlone ==
    ASSUME Shapes, PostShapes, OneHome, NEW h \in Handlers, BartenderRemoves(h),
           NEW x \in Held, x.id # rpc[h].of, NEW i \in IdsIn(x.instances)
    PROVE  instances'[i] = instances[i]
<1>1. x.instances \in Lists
  BY HeldTypes
<1>2. PICK n \in Names : x.instances[n] = i /\ i # NoId
  BY DEF IdsIn, NamesIn
<1>3. i \in Ids
  BY <1>1, <1>2 DEF Lists
<1>4. ASSUME NEW y \in Held, y.id = rpc[h].of, i \in IdsIn(y.instances)
      PROVE  FALSE
  <2>1. PICK m \in Names : y.instances[m] = i
    BY <1>4 DEF IdsIn, NamesIn
  <2>2. QED
    BY <1>2, <1>4, <2>1 DEF OneHome
<1>5. \A s \in Existing : systems[s] \in Held
  BY DEF Held
<1>6. \A d \in stubs : d \in Held
  BY DEF Held
<1> DEFINE meant == {s \in Existing : systems[s].id = rpc[h].of}
           left == {d \in stubs : d.id = rpc[h].of}
           listed == (UNION {IdsIn(systems[s].instances) : s \in meant})
                         \union (UNION {IdsIn(d.instances) : d \in left})
<1>7. i \notin listed
  <2>1. \A s \in meant : i \notin IdsIn(systems[s].instances)
    BY <1>4, <1>5
  <2>2. \A d \in left : i \notin IdsIn(d.instances)
    BY <1>4, <1>6
  <2> HIDE DEF meant, left
  <2>3. i \notin UNION {IdsIn(systems[s].instances) : s \in meant}
    BY <2>1
  <2>4. i \notin UNION {IdsIn(d.instances) : d \in left}
    BY <2>2
  <2>5. QED
    BY <2>3, <2>4
<1>8. instances' = [j \in Ids |-> IF j \in listed THEN "gone" ELSE instances[j]]
  BY DEF BartenderRemoves
<1> HIDE DEF listed
<1>9. QED
  BY <1>3, <1>7, <1>8

\* While a handler has the thread, nobody else does anything to calls, and the
\* documents of systems are only removed.
LEMMA RunsAlone ==
    ASSUME Shapes, PostShapes, [Next]_vars, NEW h \in Handlers, ioloop = h
    PROVE  \/ HandlerNext(h) /\ \A i \in Ids : ~PluginReports(h, i)
           \/ calls' = calls /\ (Quiet \/ \E g \in Handlers : BartenderRemoves(g))
<1>1. ioloop # NoHandler /\ post = NoPost /\ ~Free
  BY CatalogAssumption DEF PostShapes, Free
<1>2. ~PostNext
  BY <1>1 DEF PostNext, PostFinds, PostReads, PostRefused, PostNew, PostAgain, NoPost
<1>3. ASSUME NEW g \in Handlers, HandlerNext(g), g # h
      PROVE  calls' = calls
  <2>1. ~(ioloop = g)
    BY <1>3
  <2>2. CASE \/ ReadsList(g) \/ ReplaceCommands(g) \/ AddInstance(g) \/ ReplaceText(g)
             \/ Reload(g) \/ RemoveSystem(g) \/ AskStatus(g) \/ SaveInstance(g)
             \/ Unsupported(g) \/ Finished(g)
    BY <2>1, <2>2 DEF ReadsList, ReplaceCommands, AddInstance, ReplaceText, Reload, RemoveSystem,
       AskStatus, SaveInstance, Unsupported, Finished, Running
  <2>3. CASE Resume(g) \/ Lost(g)
    BY <1>1, <2>3 DEF Resume, Lost
  <2>4. CASE \/ \E body \in SystemBodies : AcceptSystemPatch(g, body[1], body[2])
             \/ \E s \in Systems : AcceptDelete(g, s)
             \/ \E i \in Ids, ops \in InstanceBodies : AcceptInstancePatch(g, i, ops)
    BY <1>1, <2>4 DEF AcceptSystemPatch, AcceptDelete, AcceptInstancePatch, Begin
  <2>5. ASSUME NEW i \in Ids, PluginReports(g, i)
        PROVE  calls' = calls
    BY <1>1, <2>5 DEF PluginReports, AcceptInstancePatch, Begin
  <2>6. QED
    BY <1>3, <2>2, <2>3, <2>4, <2>5 DEF HandlerNext
<1>4. HandlerNext(h) \/ calls' = calls
  BY <1>2, <1>3 DEF Next, BartenderNext, BartenderWrites, BartenderTells, BartenderReloads,
     BartenderRemoves, DeleteInstance, PluginObeys, vars
<1>5. ASSUME NEW g \in Handlers, ReplaceCommands(g) \/ ReplaceText(g) \/ AddInstance(g)
      PROVE  HandlerNext(h)
  <2>1. g = h
    BY <1>5 DEF ReplaceCommands, ReplaceText, AddInstance, Running
  <2>2. QED
    BY <1>5, <2>1 DEF HandlerNext
<1>6. ~PostNew /\ ~PostAgain /\ \A i \in Ids : ~DeleteInstance(i)
  BY <1>1, <1>2 DEF DeleteInstance, PostNext
<1>7. ASSUME NEW i \in Ids, PluginReports(h, i)
      PROVE  calls' = calls /\ Quiet
  BY <1>1, <1>7 DEF PluginReports, AcceptInstancePatch, Begin, Quiet, Alive, Unborn
<1>8. QED
  BY <1>4, <1>5, <1>6, <1>7, StepKinds

\* A PATCH has a list of instances that are there, if it has read it since it
\* last waited.
ReadInv ==
    \A h \in Calling("system") :
        /\ calls[h].stage = "waiting" => calls[h].read # "yes"
        /\ calls[h].stage = "running" /\ calls[h].read = "yes"
           /\ StillThere(calls[h].of, calls[h].copy) => Readable(calls[h].copy)

\* What is still there after an operation was there before.
LEMMA StillThereBefore ==
    ASSUME Shapes, [Next]_vars, created' = created, NEW s \in Systems, NEW doc,
           StillThere(s, doc)'
    PROVE  systems[s] # Gone /\ systems[s].id = systems'[s].id
<1>1. systems'[s] # Gone /\ created \in Nat
  BY DEF StillThere, Shapes, DocShapes
<1>2. QED
  BY <1>1, DocOrigin

\* The PATCH that runs keeps it.
LEMMA ReadByItself ==
    ASSUME Shapes, PostShapes, ReadInv, [Next]_vars, NEW h \in Handlers, HandlerNext(h),
           h \in Calling("system")', \A i \in Ids : ~PluginReports(h, i)
    PROVE  /\ calls'[h].stage = "waiting" => calls'[h].read # "yes"
           /\ calls'[h].stage = "running" /\ calls'[h].read = "yes"
              /\ StillThere(calls[h].of, calls[h].copy)' => Readable(calls[h].copy)'
<1> DEFINE c == calls[h]
           copy == calls[h].copy
<1>1. calls \in [Handlers -> Calls \union {Idle}] /\ instances \in [Ids -> Statuses \union {"unborn", "gone", "stub"}]
  BY DEF Shapes, CallShapes, DocShapes
<1>2. End(h) => h \notin Calling("system")'
  BY <1>1 DEF End, Calling, Idle
<1>3. ASSUME ReadsList(h) \/ ReplaceCommands(h) \/ AddInstance(h) \/ ReplaceText(h) \/ Reload(h)
      PROVE  /\ c \in SystemCalls /\ c.stage = "running" /\ h \in Calling("system")
             /\ c.of \in Systems /\ copy \in SystemDocs /\ created' = created
             /\ calls'[h].of = c.of /\ calls'[h].copy.id = copy.id
             /\ Alive \subseteq Alive'
  <2>1. c \in SystemCalls /\ c.stage = "running" /\ h \in Calling("system")
    BY <1>3, RunningCall DEF ReadsList, ReplaceCommands, AddInstance, ReplaceText, Reload, Running,
       Calling
  <2>2. created' = created /\ (instances' = instances \/ \E ids : instances' = Born(ids))
    BY <1>3 DEF ReadsList, ReplaceCommands, AddInstance, ReplaceText, Reload
  <2>3. Alive \subseteq Alive'
    BY <2>2 DEF Alive, Born
  <2>4. CopyFromBefore(h)
    BY <1>3, CopyOfPatch
  <2>5. QED
    BY <2>1, <2>2, <2>3, <2>4 DEF SystemCalls, CopyFromBefore
<1>4. ASSUME ReadsList(h) \/ ReplaceCommands(h) \/ AddInstance(h) \/ ReplaceText(h) \/ Reload(h),
             StillThere(calls[h].of, calls[h].copy)'
      PROVE  StillThere(c.of, copy)
  <2>1. systems[c.of] # Gone /\ systems[c.of].id = systems'[calls'[h].of].id
    BY <1>3, <1>4, StillThereBefore
  <2>2. QED
    BY <1>3, <1>4, <2>1 DEF StillThere
<1>5. CASE ReadsList(h)
  <2>1. calls'[h] = [c EXCEPT !.read = "yes"] /\ Readable(copy)
    BY <1>1, <1>2, <1>5 DEF ReadsList
  <2>2. calls'[h].copy = copy /\ calls'[h].stage = "running"
    BY <1>3, <1>5, <2>1 DEF SystemCalls
  <2>3. QED
    BY <1>3, <1>5, <2>1, <2>2 DEF Readable
<1>6. CASE ReplaceCommands(h)
  <2>1. PICK commands : Step(h, [copy EXCEPT !.commands = commands])
    BY <1>2, <1>6 DEF ReplaceCommands
  <2>2. calls'[h] = [c EXCEPT !.ops = Tail(@), !.copy = [copy EXCEPT !.commands = commands]]
    BY <1>1, <2>1 DEF Step
  <2>3. calls'[h].copy.instances = copy.instances /\ calls'[h].stage = "running"
        /\ calls'[h].read = c.read
    BY <1>3, <1>6, <2>2 DEF SystemCalls, SystemDocs
  <2>4. QED
    BY <1>3, <1>4, <1>6, <2>3 DEF ReadInv, Readable
<1>7. CASE AddInstance(h)
  <2>1. PICK i \in Unborn :
            /\ instances' = Born({i})
            /\ Step(h, [copy EXCEPT !.instances = [copy.instances EXCEPT ![Head(c.ops).value] = i]])
    BY <1>2, <1>7 DEF AddInstance
  <2> DEFINE list == [copy.instances EXCEPT ![Head(c.ops).value] = i]
  <2>2. calls'[h] = [c EXCEPT !.ops = Tail(@), !.copy = [copy EXCEPT !.instances = list]]
    BY <1>1, <2>1 DEF Step
  <2>3. calls'[h].copy.instances = list /\ calls'[h].stage = "running" /\ calls'[h].read = c.read
    BY <1>3, <1>7, <2>2 DEF SystemCalls, SystemDocs
  <2>4. i \in Alive'
    BY <2>1 DEF Born, Alive, Unborn
  <2>5. \A n \in Names : list[n] \in {i, copy.instances[n]}
    BY <1>3, <1>7 DEF SystemDocs, Lists
  <2> HIDE DEF list
  <2>6. c.read = "yes" /\ StillThere(c.of, copy) => Readable(copy)
    BY <1>3, <1>7 DEF ReadInv
  <2>7. ASSUME Readable(copy)
        PROVE  Readable(calls[h].copy)'
    BY <1>3, <1>7, <2>3, <2>4, <2>5, <2>7 DEF Readable, IdsIn, NamesIn
  <2>8. QED
    BY <1>4, <1>7, <2>3, <2>6, <2>7
<1>8. CASE ReplaceText(h)
  <2>1. calls'[h] = [c EXCEPT !.ops = Tail(@), !.copy = copy]
    BY <1>1, <1>8 DEF ReplaceText, Step
  <2>2. calls'[h].copy = copy /\ calls'[h].stage = "running" /\ calls'[h].read = c.read
    BY <1>3, <1>8, <2>1 DEF SystemCalls
  <2>3. QED
    BY <1>3, <1>4, <1>8, <2>2 DEF ReadInv, Readable
<1>9. CASE Reload(h)
  <2>1. calls'[h] = Waits(c)
    BY <1>1, <1>2, <1>9 DEF Reload, Ask, Waits
  <2>2. calls'[h].stage = "waiting" /\ calls'[h].read # "yes"
    BY <1>3, <1>9, <2>1 DEF Waits, SystemCalls
  <2>3. QED
    BY <2>2
<1>10. CASE Resume(h)
  <2>1. calls'[h] = [c EXCEPT !.stage = "running"] /\ c.stage = "waiting" /\ c \in Calls
    BY <1>1, <1>10 DEF Resume, Idle
  <2>2. calls'[h].stage = "running" /\ calls'[h].kind = c.kind /\ calls'[h].read = c.read
    BY <2>1 DEF Calls, SystemCalls, DeleteCalls, InstanceCalls
  <2>3. h \in Calling("system")
    BY <2>1, <2>2 DEF Calling
  <2>4. QED
    BY <2>1, <2>2, <2>3 DEF ReadInv
<1>11. ASSUME NEW body \in SystemBodies, AcceptSystemPatch(h, body[1], body[2])
       PROVE  calls'[h].read = "no"
  BY <1>1, <1>11 DEF AcceptSystemPatch, Begin
<1>12. ASSUME NEW s \in Systems, AcceptDelete(h, s)
       PROVE  FALSE
  BY <1>1, <1>12 DEF AcceptDelete, Begin, Calling
<1>13. ASSUME NEW i \in Ids, NEW ops, AcceptInstancePatch(h, i, ops)
       PROVE  FALSE
  BY <1>1, <1>13 DEF AcceptInstancePatch, Begin, Calling
<1>14. QED
  BY <1>5, <1>6, <1>7, <1>8, <1>9, <1>10, <1>11, <1>12, <1>13, OtherCallStays
     DEF HandlerNext

\* Whatever others do, it stays so.
LEMMA ReadStep ==
    ASSUME Shapes, PostShapes, OneHome, ReadInv, [Next]_vars
    PROVE  ReadInv'
<1> SUFFICES ASSUME NEW h \in Calling("system")'
             PROVE  /\ calls'[h].stage = "waiting" => calls'[h].read # "yes"
                    /\ calls'[h].stage = "running" /\ calls'[h].read = "yes"
                       /\ StillThere(calls[h].of, calls[h].copy)' => Readable(calls[h].copy)'
  BY DEF ReadInv
<1>1. h \in Handlers
  BY DEF Calling
<1>2. CASE HandlerNext(h) /\ \A i \in Ids : ~PluginReports(h, i)
  BY <1>1, <1>2, ReadByItself
<1>3. ASSUME NEW i \in Ids, PluginReports(h, i)
      PROVE  calls'[h] = calls[h]
  BY <1>1, <1>3 DEF PluginReports, AcceptInstancePatch, Begin, Calling, Shapes, CallShapes
<1>4. CASE calls'[h] = calls[h]
  <2>1. h \in Calling("system") /\ calls[h].of \in Systems
    BY <1>1, <1>4, SystemCallKind DEF Calling
  <2>2. ASSUME calls[h].stage = "running", calls[h].read = "yes",
               StillThere(calls[h].of, calls[h].copy)',
               Quiet \/ \E g \in Handlers : BartenderRemoves(g)
        PROVE  Readable(calls[h].copy)'
    <3> DEFINE s == calls[h].of
    <3>2. ASSUME Quiet
          PROVE  Readable(calls[h].copy)'
      BY <1>4, <2>1, <2>2, <3>2 DEF Quiet, ReadInv, StillThere, Readable
    <3>3. ASSUME NEW g \in Handlers, BartenderRemoves(g)
          PROVE  Readable(calls[h].copy)'
      <4>0. systems'[s] # Gone /\ systems'[s].id = calls[h].copy.id
        BY <1>4, <2>2 DEF StillThere
      <4>1. systems'[s] = systems[s] /\ ~(s \in Existing /\ systems[s].id = rpc[g].of)
        BY <2>1, <3>3, <4>0 DEF BartenderRemoves
      <4>2. StillThere(s, calls[h].copy) /\ s \in Existing
        BY <2>1, <4>0, <4>1 DEF StillThere, Existing
      <4>3. calls[h].copy.id # rpc[g].of /\ calls[h].copy \in Held
        BY <2>1, <4>1, <4>2 DEF StillThere, Held
      <4>4. Readable(calls[h].copy)
        BY <2>1, <2>2, <4>2 DEF ReadInv
      <4>5. \A i \in IdsIn(calls[h].copy.instances) : instances'[i] = instances[i]
        BY <3>3, <4>3, RemovedAlone
      <4>6. QED
        BY <1>4, <4>4, <4>5 DEF Readable, Alive
    <3>4. QED
      BY <2>2, <3>2, <3>3
  <2>3. ASSUME calls[h].stage = "running"
        PROVE  ioloop = h
    BY <1>1, <2>3 DEF Shapes, CallShapes
  <2>4. calls[h].stage = "waiting" => calls[h].read # "yes"
    BY <2>1 DEF ReadInv
  <2>5. QED
    BY <1>1, <1>2, <1>4, <2>2, <2>3, <2>4, RunsAlone
<1>5. QED
  BY <1>1, <1>2, <1>3, <1>4, OneMoves

\* A step that lists an instance that is gone.
LEMMA UnlistedStep ==
    ASSUME Shapes, PostShapes, PostCopy, OneHome, ReadInv, [Next]_vars,
           NEW s \in Systems, systems'[s] # Gone, NEW i \in IdsIn(systems'[s].instances),
           instances'[i] = "gone"
    PROVE  \/ systems[s] # Gone /\ i \in IdsIn(systems[s].instances) /\ instances[i] = "gone"
           \/ \E h \in Handlers : ReadBeforeWait(h) /\ calls[h].of = s
<1>1. systems \in [Systems -> SystemDocs \union {Gone}]
      /\ instances \in [Ids -> Statuses \union {"unborn", "gone", "stub"}]
  BY DEF Shapes, DocShapes
<1>2. PICK n \in Names : systems'[s].instances[n] = i /\ i # NoId
  BY DEF IdsIn, NamesIn
<1>3. i \in Ids
  <2>1. systems'[s] \in SystemDocs
    BY ShapesStep DEF Shapes, DocShapes
  <2>2. QED
    BY <1>2, <2>1 DEF SystemDocs, Lists
<1> DEFINE Before == systems[s] # Gone /\ i \in IdsIn(systems[s].instances)
<1>4. (systems[s] # Gone /\ systems[s].instances[n] = i) => Before
  BY <1>2 DEF IdsIn, NamesIn
<1>5. \A ids : instances' = Born(ids) => instances[i] = "gone" /\ i \notin ids
  BY <1>3 DEF Born
<1>6. CASE PostNew \/ PostAgain
  <2> DEFINE p == post.body
             named == NamedBy(p)
  <2>1. post # NoPost /\ p.system \in Systems
    <3>1. post # NoPost /\ p \in NewSystems
      BY <1>6, CatalogAssumption DEF PostNew, PostAgain, PostShapes, NoPost
    <3>2. QED
      BY <3>1, CatalogAssumption DEF NewSystems
  <2>2. instances[i] = "gone"
    <3>1. \E ids : instances' = Born(ids)
      BY <1>6 DEF PostNew, PostAgain
    <3>2. QED
      BY <1>5, <3>1
  <2>3. CASE systems'[s] = systems[s]
    BY <1>2, <1>4, <2>2, <2>3
  <2>4. CASE PostNew /\ systems'[s] # systems[s]
    <3>0. PostNew
      BY <2>4
    <3>1. PICK new \in [named -> Unborn] :
              /\ instances' = Born({new[k] : k \in named})
              /\ \E commands, max : systems' = [systems EXCEPT ![p.system] =
                     [id |-> created, commands |-> commands, max_instances |-> max,
                      instances |-> Relisted(NoList, named, new)]]
      BY ONLY <3>0 DEF PostNew
    <3>2. systems'[s].instances = Relisted(NoList, named, new)
      BY <1>1, <2>1, <2>4, <3>1
    <3>3. n \in named /\ new[n] = i
      BY <1>2, <3>1, <3>2 DEF Relisted
    <3>4. QED
      BY <1>5, <3>1, <3>3
  <2>5. CASE PostAgain /\ systems'[s] # systems[s]
    <3> DEFINE old == post.copy.instances
               fresh == named \ NamesIn(old)
    <3>1. PICK new \in [fresh -> Unborn] :
              /\ instances' = Born({new[k] : k \in fresh})
              /\ \/ /\ StillThere(p.system, post.copy)
                    /\ \E commands : systems' = [systems EXCEPT ![p.system].commands = commands,
                                         ![p.system].instances = Relisted(old, named, new)]
                 \/ systems' = systems
      BY <2>5 DEF PostAgain
    <3>2. s = p.system /\ StillThere(s, post.copy) /\ post.copy # Gone
      BY <1>1, <2>1, <2>5, <3>1 DEF PostAgain, PostShapes
    <3>3. systems[s] = post.copy /\ systems[s] # Gone /\ systems[s] \in SystemDocs
      BY <1>1, <2>1, <3>2 DEF PostCopy
    <3>4. PICK commands : systems'[s] = [systems[s] EXCEPT !.commands = commands,
                                            !.instances = Relisted(old, named, new)]
      BY <1>1, <2>5, <3>1, <3>2
    <3>5. systems'[s].instances = Relisted(old, named, new)
      BY <3>3, <3>4 DEF SystemDocs
    <3>6. n \notin fresh
      <4>1. ASSUME n \in fresh
            PROVE  FALSE
        <5>1. new[n] = i
          BY <1>2, <3>1, <3>5, <4>1 DEF Relisted
        <5>2. QED
          BY <1>5, <3>1, <4>1, <5>1
      <4>2. QED
        BY <4>1
    <3>7. old[n] = i
      BY <1>2, <3>1, <3>5, <3>6 DEF Relisted
    <3>8. QED
      BY <1>4, <2>2, <3>3, <3>7
  <2>6. QED
    BY <1>6, <2>3, <2>4, <2>5
<1>7. ASSUME NEW h \in Handlers, ReplaceCommands(h) \/ ReplaceText(h)
      PROVE  Before /\ instances[i] = "gone"
  <2>1. created' = created /\ created \in Nat /\ instances' = instances
    BY <1>7 DEF ReplaceCommands, ReplaceText, Shapes, DocShapes
  <2>2. systems[s] # Gone
    BY <2>1, DocOrigin
  <2>3. s \in Existing /\ ~AddInstance(h)
    BY <1>7, <2>2 DEF Existing, ReplaceCommands, ReplaceText, AddInstance
  <2>4. systems'[s] = systems[s] \/ systems'[s].instances = systems[s].instances
    BY <1>7, <2>3, Patched
  <2>5. QED
    BY <1>2, <1>4, <2>1, <2>2, <2>4
<1>8. ASSUME NEW h \in Handlers, AddInstance(h)
      PROVE  \/ Before /\ instances[i] = "gone"
             \/ ReadBeforeWait(h) /\ calls[h].of = s
  <2> DEFINE c == calls[h]
             copy == calls[h].copy
             name == Head(calls[h].ops).value
  <2>1. /\ c \in SystemCalls /\ c.stage = "running" /\ c.kind = "system" /\ c.read # "no"
        /\ h \in Calling("system") /\ c.of \in Systems /\ copy \in SystemDocs
    BY <1>8, RunningCall DEF AddInstance, Running, Calling, SystemCalls
  <2>2. CASE systems'[s] = systems[s]
    <3>1. instances' = instances \/ \E ids : instances' = Born(ids)
      BY <1>8 DEF AddInstance
    <3>2. QED
      BY <1>2, <1>4, <1>5, <2>2, <3>1
  <2>3. CASE systems'[s] # systems[s]
    <3>1. PICK j \in Unborn :
              /\ instances' = Born({j})
              /\ StillThere(c.of, copy)
              /\ systems' = [systems EXCEPT ![c.of].instances = [copy.instances EXCEPT ![name] = j]]
      BY <1>8, <2>3 DEF AddInstance
    <3>2. s = c.of /\ systems'[s] = [systems[s] EXCEPT
                          !.instances = [copy.instances EXCEPT ![name] = j]]
      BY <1>1, <2>1, <2>3, <3>1
    <3>3. systems[s] \in SystemDocs
      BY <1>1, <3>1, <3>2 DEF StillThere
    <3>4. systems'[s].instances = [copy.instances EXCEPT ![name] = j]
      BY <3>2, <3>3 DEF SystemDocs
    <3>5. i # j /\ instances[i] = "gone"
      BY <1>5, <3>1
    <3>6. copy.instances[n] = i
      BY <1>2, <2>1, <3>4, <3>5 DEF SystemDocs, Lists
    <3>7. ~Readable(copy)
      BY <1>2, <3>5, <3>6 DEF Readable, IdsIn, NamesIn, Alive
    <3>8. c.read # "yes"
      BY <2>1, <3>1, <3>7 DEF ReadInv
    <3>9. c.read = "stale"
      BY <2>1, <3>8 DEF SystemCalls
    <3>10. QED
      BY <2>1, <3>2, <3>9 DEF ReadBeforeWait
  <2>4. QED
    BY <2>2, <2>3
<1>9. ASSUME NEW h \in Handlers, BartenderRemoves(h)
      PROVE  Before /\ instances[i] = "gone"
  <2>1. systems'[s] = systems[s] /\ ~(s \in Existing /\ systems[s].id = rpc[h].of)
    BY <1>1, <1>9 DEF BartenderRemoves
  <2>2. systems[s] \in Held /\ systems[s].id # rpc[h].of /\ i \in IdsIn(systems[s].instances)
    BY <2>1 DEF Held, Existing
  <2>3. instances'[i] = instances[i]
    BY <1>9, <2>2, RemovedAlone
  <2>4. QED
    BY <2>1, <2>2, <2>3
<1>10. ASSUME NEW j \in Ids, DeleteInstance(j)
       PROVE  Before /\ instances[i] = "gone"
  <2>1. systems[s] # Gone /\ systems'[s] = Unlisted(systems[s], j)
    BY <1>10 DEF DeleteInstance
  <2>2. systems[s] \in SystemDocs
    BY <1>1, <2>1
  <2>3. systems'[s].instances = Without(systems[s].instances, j)
    BY <2>1, <2>2 DEF Unlisted, SystemDocs
  <2>4. systems[s].instances[n] = i /\ i # j
    BY <1>2, <2>3 DEF Without
  <2>5. instances'[i] = instances[i]
    BY <1>1, <1>3, <1>10, <2>4 DEF DeleteInstance
  <2>6. QED
    BY <1>4, <2>1, <2>4, <2>5
<1>11. CASE Quiet
  <2>1. systems'[s] = systems[s] /\ i \notin Alive' /\ i \notin Unborn'
    BY <1>3, <1>11 DEF Quiet, Alive, Unborn
  <2>2. instances[i] = "gone"
    BY <1>3, <1>11, <2>1 DEF Quiet, Alive, Unborn
  <2>3. QED
    BY <1>2, <1>4, <2>1, <2>2
<1>12. QED
  BY <1>6, <1>7, <1>8, <1>9, <1>10, <1>11, StepKinds

\* An instance that is removed is on no list from then on, and neither a
\* registration nor a PATCH puts it back, unless the PATCH had read the list
\* before a wait.
THEOREM RemovedInstancesStayUnlisted == Spec => RemovedStayUnlisted
<1> DEFINE Kept ==
        \A s \in Systems : systems'[s] # Gone =>
           \A i \in IdsIn(systems'[s].instances) : instances'[i] = "gone" =>
               \/ systems[s] # Gone /\ i \in IdsIn(systems[s].instances) /\ instances[i] = "gone"
               \/ \E h \in Handlers : ReadBeforeWait(h) /\ calls[h].of = s
<1>1. Init => OneHome /\ HeldBorn /\ ReadInv
  <2> SUFFICES ASSUME Init PROVE OneHome /\ HeldBorn /\ ReadInv
    OBVIOUS
  <2>1. Held = {} /\ Calling("system") = {}
    BY DEF Init, Held, Existing, Calling, Idle
  <2>2. QED
    BY <2>1 DEF OneHome, HeldBorn, ReadInv
<1>2. Shapes /\ PostShapes /\ PostCopy /\ OneHome /\ ReadInv /\ [Next]_vars => [Kept]_vars
  BY UnlistedStep
<1>3. QED
  BY <1>1, <1>2, HomeStep, ReadStep, AlwaysPostCopy, PTL DEF Spec, RemovedStayUnlisted

-----------------------------------------------------------------------------
(***************************************************************************)
(* StatusSettles: the status of an instance is what its plugin is, unless  *)
(* Bartender or the plugin is still at work on it.  While a report is under*)
(* way, its handler has the thread: what it has read of the status is still*)
(* there, or Bartender has written since, and the plugin has yet to hear of*)
(* that.                                                                   *)
(***************************************************************************)

\* Bartender is asked to give instance i a status, by handler h.
Asking(h, i) ==
    rpc[h].stage \in {"sent", "written"} /\ rpc[h].what \in AskedOps /\ rpc[h].of = i

\* There is something that the plugin of i has yet to hear of.
Pending(i) == plugin[i].told # <<>> \/ \E h \in Handlers : Asking(h, i)

\* Handler h is at work on instance i, and brings what its plugin reports.
CallOn(h, i) == h \in Calling("instance") /\ calls[h].of = i
ReportCall(h, i) ==
    CallOn(h, i) /\ \E k \in DOMAIN calls[h].ops : calls[h].ops[k] \in ReportedOps

\* The status that goes with what the plugin is.
Settled(i) == IF plugin[i].state = "new" THEN "INITIALIZING" ELSE plugin[i].state

SettledInv ==
    \A i \in Ids :
        i \in Whole /\ ~Pending(i) /\ ~Reporting(i) => instances[i] = Settled(i)

ReportInv ==
    \A i \in Ids :
        /\ plugin[i].owes # "nothing" => plugin[i].owes = plugin[i].state
        /\ \A h \in Handlers : ReportCall(h, i) =>
               /\ calls[h].stage = "running" /\ calls[h].ops = <<plugin[i].state>>
               /\ calls[h].copy = instances[i] \/ Pending(i) \/ i \notin Whole

\* Nobody is at work on an instance that is not there yet.
UnbornInv ==
    \A i \in Unborn :
        /\ plugin[i].told = <<>> /\ plugin[i].owes = "nothing" /\ plugin[i].state = "new"
        /\ \A h \in Handlers : ~Asking(h, i) /\ ~CallOn(h, i)

StatusInv == SettledInv /\ ReportInv /\ UnbornInv

\* A plugin reports as its specification says, in these terms.
LEMMA ReportingIs ==
    ASSUME NEW i
    PROVE  Reporting(i) <=> plugin[i].owes # "nothing" \/ \E h \in Handlers : ReportCall(h, i)
BY DEF Reporting, ReportCall, CallOn, Calling, ReportedOps

\* And so after a step.
LEMMA ReportingIsNext ==
    ASSUME NEW i
    PROVE  Reporting(i)' <=>
               plugin'[i].owes # "nothing" \/ \E h \in Handlers : ReportCall(h, i)'
BY DEF Reporting, ReportCall, CallOn, Calling, ReportedOps

\* The invariant says what StatusSettles says.
LEMMA StatusInvSettles ==
    ASSUME StatusInv
    PROVE  StatusSettles
<1> SUFFICES ASSUME NEW i \in Whole, plugin[i].told = <<>>, ~Reporting(i),
                    \A h \in Handlers :
                        /\ rpc[h].stage \in {"sent", "written"}
                        /\ rpc[h].what \in {"INITIALIZING", "STOPPING", "STARTING"}
                        => rpc[h].of # i
             PROVE  instances[i] = Settled(i)
  BY DEF StatusSettles, Settled
<1>1. ~Pending(i) /\ i \in Ids
  BY DEF Pending, Asking, AskedOps, Whole
<1>2. QED
  BY <1>1 DEF StatusInv, SettledInv

\* It holds at the start.
LEMMA StatusInit == Init => StatusInv
<1> SUFFICES ASSUME Init PROVE StatusInv
  OBVIOUS
<1>1. \A h \in Handlers : \A i : ~Asking(h, i) /\ ~CallOn(h, i) /\ ~ReportCall(h, i)
  BY DEF Init, Asking, CallOn, ReportCall, Calling, NoRpc, Idle
<1>2. QED
  BY <1>1 DEF Init, StatusInv, SettledInv, ReportInv, UnbornInv, Whole, Statuses, Unborn

\* A handler that brings a report has the thread, and nothing else to do.
LEMMA ReportCallRuns ==
    ASSUME Shapes, StatusInv, NEW h \in Handlers, NEW i \in Ids, ReportCall(h, i)
    PROVE  /\ ioloop = h /\ plugin[i].state \in ReportedOps
           /\ calls[h].ops = <<plugin[i].state>> /\ Head(calls[h].ops) \in ReportedOps
           /\ calls[h].ops # <<>> /\ Tail(calls[h].ops) = <<>>
<1>1. calls[h].stage = "running" /\ calls[h].ops = <<plugin[i].state>>
  BY DEF StatusInv, ReportInv
<1>2. plugin[i].state \in ReportedOps
  <2>1. PICK k \in DOMAIN calls[h].ops : calls[h].ops[k] \in ReportedOps
    BY DEF ReportCall
  <2>2. k = 1
    BY <1>1, <2>1
  <2>3. QED
    BY <1>1, <2>1, <2>2
<1>3. ioloop = h
  BY <1>1 DEF Shapes, CallShapes
<1>4. QED
  BY <1>1, <1>2, <1>3

\* A step that neither reports nor takes what is pending keeps the invariant:
\* an instance it makes has the status of a new one.
LEMMA StatusKept ==
    ASSUME StatusInv, plugin' = plugin, Unborn' \subseteq Unborn,
           \A i \in Ids : \/ instances'[i] = instances[i] \/ i \notin Whole'
                          \/ i \in Unborn /\ instances'[i] = "INITIALIZING",
           \A h \in Handlers, i \in Ids :
               /\ Asking(h, i) => Asking(h, i)' \/ i \notin Whole'
               /\ Asking(h, i)' => Asking(h, i) \/ i \notin Unborn'
               /\ CallOn(h, i)' => CallOn(h, i) \/ i \notin Unborn'
               /\ ReportCall(h, i)' <=> ReportCall(h, i)
               /\ ReportCall(h, i) => calls'[h] = calls[h]
    PROVE  StatusInv'
<1>1. \A i \in Ids : Pending(i) => Pending(i)' \/ i \notin Whole'
  BY DEF Pending
<1>2. \A i \in Ids : Reporting(i)' <=> Reporting(i)
  BY ReportingIs, ReportingIsNext
<1>3. \A i \in Ids : Settled(i)' = Settled(i)
  BY DEF Settled
<1>4. \A i \in Ids : i \in Whole' /\ instances'[i] = instances[i] => i \in Whole
  BY DEF Whole
<1>5. \A i \in Unborn : Settled(i) = "INITIALIZING" /\ \A h \in Handlers : ~ReportCall(h, i)
  BY DEF StatusInv, UnbornInv, Settled, ReportCall
<1>6. SettledInv'
  <2> SUFFICES ASSUME NEW i \in Ids, i \in Whole', ~Pending(i)', ~Reporting(i)'
               PROVE  instances'[i] = Settled(i)'
    BY DEF SettledInv
  <2>1. CASE instances'[i] = instances[i]
    BY <1>1, <1>2, <1>3, <1>4, <2>1 DEF StatusInv, SettledInv
  <2>2. CASE i \in Unborn /\ instances'[i] = "INITIALIZING"
    BY <1>3, <1>5, <2>2
  <2>3. QED
    BY <2>1, <2>2
<1>7. ReportInv'
  <2>1. ASSUME NEW i \in Ids, NEW h \in Handlers, ReportCall(h, i)'
        PROVE  /\ calls'[h].stage = "running" /\ calls'[h].ops = <<plugin'[i].state>>
               /\ calls'[h].copy = instances'[i] \/ Pending(i)' \/ i \notin Whole'
    <3>1. ReportCall(h, i) /\ calls'[h] = calls[h]
      BY <2>1
    <3>2. i \notin Unborn
      BY <1>5, <3>1
    <3>3. instances'[i] = instances[i] \/ i \notin Whole'
      BY <3>2
    <3>4. /\ calls[h].stage = "running" /\ calls[h].ops = <<plugin[i].state>>
          /\ calls[h].copy = instances[i] \/ Pending(i) \/ i \notin Whole
      BY <3>1 DEF StatusInv, ReportInv
    <3>5. QED
      BY <1>1, <1>4, <3>1, <3>3, <3>4
  <2>2. QED
    BY <2>1 DEF StatusInv, ReportInv
<1>8. UnbornInv'
  BY DEF StatusInv, UnbornInv, Unborn
<1>9. QED
  BY <1>6, <1>7, <1>8 DEF StatusInv

\* In particular when only one handler, and its request, move.
LEMMA StatusKeptBy ==
    ASSUME StatusInv, plugin' = plugin, Unborn' \subseteq Unborn,
           \A i \in Ids : \/ instances'[i] = instances[i] \/ i \notin Whole'
                          \/ i \in Unborn /\ instances'[i] = "INITIALIZING",
           NEW h \in Handlers,
           \A g \in Handlers \ {h} : calls'[g] = calls[g] /\ rpc'[g] = rpc[g],
           \A i \in Ids :
               /\ Asking(h, i) => Asking(h, i)' \/ i \notin Whole'
               /\ Asking(h, i)' => Asking(h, i) \/ i \notin Unborn'
               /\ CallOn(h, i)' => CallOn(h, i) \/ i \notin Unborn'
               /\ ReportCall(h, i)' <=> ReportCall(h, i)
               /\ ReportCall(h, i) => calls'[h] = calls[h]
    PROVE  StatusInv'
<1>1. ASSUME NEW g \in Handlers \ {h}, NEW i \in Ids
      PROVE  /\ Asking(g, i)' <=> Asking(g, i)
             /\ CallOn(g, i)' <=> CallOn(g, i)
             /\ ReportCall(g, i)' <=> ReportCall(g, i)
             /\ calls'[g] = calls[g]
  BY DEF Asking, CallOn, ReportCall, Calling
<1>2. \A g \in Handlers, i \in Ids :
          /\ Asking(g, i) => Asking(g, i)' \/ i \notin Whole'
          /\ Asking(g, i)' => Asking(g, i) \/ i \notin Unborn'
          /\ CallOn(g, i)' => CallOn(g, i) \/ i \notin Unborn'
          /\ ReportCall(g, i)' <=> ReportCall(g, i)
          /\ ReportCall(g, i) => calls'[g] = calls[g]
  BY <1>1
<1>3. QED
  BY <1>2, StatusKept

\* What becomes of the call of a handler that has the thread.
LEMMA CallMoves ==
    ASSUME Shapes, NEW h \in Handlers, ioloop = h,
           \/ End(h) \/ (\E copy : Step(h, copy)) \/ (\E what, of : Ask(h, what, of))
    PROVE  /\ \A g \in Handlers \ {h} : calls'[g] = calls[g]
           /\ \/ calls'[h] = Idle
              \/ /\ calls'[h].kind = calls[h].kind /\ calls'[h].of = calls[h].of
                 /\ calls'[h].ops = Tail(calls[h].ops)
<1>1. calls \in [Handlers -> Calls \union {Idle}] /\ calls[h] \in Calls
  BY RunningCall DEF Shapes, CallShapes
<1>2. \/ calls' = [calls EXCEPT ![h] = Idle]
      \/ \E copy : calls' = [calls EXCEPT ![h].ops = Tail(@), ![h].copy = copy]
      \/ calls' = [calls EXCEPT ![h].stage = "waiting", ![h].ops = Tail(@),
                                ![h].read = IF @ = "no" THEN "no" ELSE "stale"]
  BY DEF End, Step, Ask
<1>3. \A g \in Handlers \ {h} : calls'[g] = calls[g]
  BY <1>1, <1>2
<1>4. \/ calls'[h] = Idle
      \/ \E copy : calls'[h] = [calls[h] EXCEPT !.ops = Tail(@), !.copy = copy]
      \/ calls'[h] = Waits(calls[h])
  BY <1>1, <1>2 DEF Waits
<1>5. calls[h] \in SystemCalls \/ calls[h] \in DeleteCalls \/ calls[h] \in InstanceCalls
  BY <1>1 DEF Calls
<1>6. QED
  BY <1>3, <1>4, <1>5 DEF SystemCalls, DeleteCalls, InstanceCalls, Waits

\* A handler of another kind of call has nothing to do with instances.
LEMMA StatusOfOthers ==
    ASSUME Shapes, StatusInv, [Next]_vars, NEW h \in Handlers,
           \/ ReadsList(h) \/ ReplaceCommands(h) \/ AddInstance(h) \/ ReplaceText(h) \/ Reload(h)
           \/ RemoveSystem(h)
           \/ \E body \in SystemBodies : AcceptSystemPatch(h, body[1], body[2])
           \/ \E s \in Systems : AcceptDelete(h, s)
    PROVE  StatusInv'
<1>1. plugin' = plugin /\ Unborn' \subseteq Unborn
  BY UnbornShrinks DEF ReadsList, ReplaceCommands, AddInstance, ReplaceText, Reload, RemoveSystem,
     AcceptSystemPatch, AcceptDelete
<1>2. \A i \in Ids : instances'[i] = instances[i] \/ (i \in Unborn /\ instances'[i] = "INITIALIZING")
  BY DEF ReadsList, ReplaceCommands, AddInstance, ReplaceText, Reload, RemoveSystem, AcceptSystemPatch,
     AcceptDelete, Born
<1>3. /\ \A g \in Handlers \ {h} : calls'[g] = calls[g] /\ rpc'[g] = rpc[g]
      /\ \A i \in Ids : ~CallOn(h, i) /\ ~CallOn(h, i)' /\ ~Asking(h, i) /\ ~Asking(h, i)'
  <2>1. CASE \/ ReadsList(h) \/ ReplaceCommands(h) \/ AddInstance(h) \/ ReplaceText(h) \/ Reload(h)
             \/ RemoveSystem(h)
    <3>1. ioloop = h /\ calls[h].kind \in {"system", "delete"}
      BY <2>1 DEF ReadsList, ReplaceCommands, AddInstance, ReplaceText, Reload, RemoveSystem, Running
    <3>2. rpc[h] = NoRpc /\ calls[h].stage = "running" /\ rpc \in [Handlers -> Rpcs \union {NoRpc}]
      BY <3>1, RunningCall DEF Shapes, CallShapes
    <3>3. \/ End(h) \/ (\E copy : Step(h, copy)) \/ (\E what, of : Ask(h, what, of))
          \/ calls' = [calls EXCEPT ![h].read = "yes"]
      BY <2>1 DEF ReadsList, ReplaceCommands, AddInstance, ReplaceText, Reload, RemoveSystem
    <3>4. /\ \A g \in Handlers \ {h} : calls'[g] = calls[g]
          /\ calls'[h] = Idle \/ calls'[h].kind = calls[h].kind
      <4>1. CASE calls' = [calls EXCEPT ![h].read = "yes"]
        <5>1. calls'[h] = [calls[h] EXCEPT !.read = "yes"] /\ calls[h] \in Calls
          BY <3>1, <4>1, RunningCall DEF Shapes, CallShapes
        <5>2. calls[h] \in SystemCalls \/ calls[h] \in DeleteCalls
          BY <3>1, <5>1 DEF Calls, InstanceCalls
        <5>3. calls'[h].kind = calls[h].kind
          BY <5>1, <5>2 DEF SystemCalls, DeleteCalls
        <5>4. QED
          BY <4>1, <5>3 DEF Shapes, CallShapes
      <4>2. CASE End(h) \/ (\E copy : Step(h, copy)) \/ (\E what, of : Ask(h, what, of))
        BY <3>1, <4>2, CallMoves
      <4>3. QED
        BY <3>3, <4>1, <4>2
    <3>5. \A i \in Ids : ~CallOn(h, i) /\ ~CallOn(h, i)'
      BY <3>1, <3>4 DEF CallOn, Calling, Idle
    <3>6. \/ rpc' = rpc
          \/ \E what \in {"reload", "remove"} : \E of :
                 rpc' = [rpc EXCEPT ![h] = [stage |-> "sent", what |-> what, of |-> of]]
      BY <2>1 DEF ReadsList, ReplaceCommands, AddInstance, ReplaceText, Reload, RemoveSystem, Ask
    <3>7. \A g \in Handlers \ {h} : rpc'[g] = rpc[g]
      BY <3>2, <3>6
    <3>8. rpc'[h] = NoRpc \/ rpc'[h].what \in {"reload", "remove"}
      BY <3>2, <3>6
    <3>9. \A i \in Ids : ~Asking(h, i) /\ ~Asking(h, i)'
      BY <3>2, <3>8 DEF Asking, NoRpc, AskedOps
    <3>10. QED
      BY <3>4, <3>5, <3>7, <3>9
  <2>2. ASSUME NEW call, Begin(h, call), call.kind # "instance", rpc' = rpc
        PROVE  /\ \A g \in Handlers \ {h} : calls'[g] = calls[g] /\ rpc'[g] = rpc[g]
               /\ \A i \in Ids : ~CallOn(h, i) /\ ~CallOn(h, i)' /\ ~Asking(h, i) /\ ~Asking(h, i)'
    BY <2>2 DEF Begin, CallOn, Calling, Asking, Shapes, CallShapes
  <2>3. ASSUME NEW s, NEW ops, AcceptSystemPatch(h, s, ops)
        PROVE  /\ \A g \in Handlers \ {h} : calls'[g] = calls[g] /\ rpc'[g] = rpc[g]
               /\ \A i \in Ids : ~CallOn(h, i) /\ ~CallOn(h, i)' /\ ~Asking(h, i) /\ ~Asking(h, i)'
    BY <2>2, <2>3 DEF AcceptSystemPatch
  <2>4. ASSUME NEW s, AcceptDelete(h, s)
        PROVE  /\ \A g \in Handlers \ {h} : calls'[g] = calls[g] /\ rpc'[g] = rpc[g]
               /\ \A i \in Ids : ~CallOn(h, i) /\ ~CallOn(h, i)' /\ ~Asking(h, i) /\ ~Asking(h, i)'
    BY <2>2, <2>4 DEF AcceptDelete
  <2>5. QED
    BY <2>1, <2>3, <2>4
<1>4. \A i \in Ids : ~ReportCall(h, i) /\ ~ReportCall(h, i)'
  BY <1>3 DEF ReportCall
<1>5. QED
  BY <1>1, <1>2, <1>3, <1>4, StatusKeptBy

\* The handlers' frame, and an operation nobody knows, cut no report short.
LEMMA StatusOfFrame ==
    ASSUME Shapes, StatusInv, [Next]_vars, NEW h \in Handlers,
           Resume(h) \/ Lost(h) \/ Finished(h) \/ Unsupported(h)
    PROVE  StatusInv'
<1>1. plugin' = plugin /\ instances' = instances /\ Unborn' = Unborn
  BY DEF Resume, Lost, Finished, Unsupported, Unborn
<1>2. calls \in [Handlers -> Calls \union {Idle}] /\ rpc \in [Handlers -> Rpcs \union {NoRpc}]
  BY DEF Shapes, CallShapes
<1>3. \A i \in Ids : ~ReportCall(h, i)
  <2> SUFFICES ASSUME NEW i \in Ids, ReportCall(h, i) PROVE FALSE
    OBVIOUS
  <2>1. /\ calls[h].stage = "running" /\ calls[h].kind = "instance"
        /\ calls[h].ops # <<>> /\ Head(calls[h].ops) \in ReportedOps
    BY ReportCallRuns, RunningCall DEF ReportCall, CallOn, Calling
  <2>2. QED
    BY <2>1 DEF Resume, Lost, Finished, Unsupported, Running, ReportedOps
<1>4. CASE Resume(h)
  <2>1. calls[h] \in Calls /\ calls[h].stage = "waiting"
    BY <1>2, <1>4 DEF Resume, Idle
  <2>2. /\ calls'[h] = [calls[h] EXCEPT !.stage = "running"] /\ rpc'[h] = NoRpc
        /\ rpc[h].stage = "answered"
        /\ \A g \in Handlers \ {h} : calls'[g] = calls[g] /\ rpc'[g] = rpc[g]
    BY <1>2, <1>4 DEF Resume
  <2>3. calls'[h].kind = calls[h].kind /\ calls'[h].of = calls[h].of /\ calls'[h].ops = calls[h].ops
    BY <2>1, <2>2 DEF Calls, SystemCalls, DeleteCalls, InstanceCalls
  <2>4. \A i \in Ids : CallOn(h, i)' => CallOn(h, i)
    BY <2>1, <2>3 DEF CallOn, Calling
  <2>5. \A i \in Ids : ~ReportCall(h, i)'
    BY <1>3, <2>3, <2>4 DEF ReportCall
  <2>6. \A i \in Ids : ~Asking(h, i) /\ ~Asking(h, i)'
    BY <2>2 DEF Asking, NoRpc
  <2>7. QED
    BY <1>1, <1>3, <2>2, <2>4, <2>5, <2>6, StatusKeptBy
<1>5. CASE Lost(h) \/ Finished(h) \/ Unsupported(h)
  <2>1. /\ calls'[h] = Idle
        /\ \A g \in Handlers \ {h} : calls'[g] = calls[g] /\ rpc'[g] = rpc[g]
    BY <1>2, <1>5 DEF Lost, Finished, Unsupported, End
  <2>2. rpc'[h] = rpc[h] \/ (rpc[h].stage = "answered" /\ rpc'[h] = NoRpc)
    BY <1>2, <1>5 DEF Lost, Finished, Unsupported
  <2>3. \A i \in Ids : Asking(h, i)' <=> Asking(h, i)
    BY <2>2 DEF Asking, NoRpc
  <2>4. \A i \in Ids : ~CallOn(h, i)' /\ ~ReportCall(h, i)'
    BY <2>1 DEF CallOn, ReportCall, Calling, Idle
  <2>5. QED
    BY <1>1, <1>3, <2>1, <2>3, <2>4, StatusKeptBy
<1>6. QED
  BY <1>4, <1>5

\* Asking Bartender leaves something pending.
LEMMA StatusOfAsking ==
    ASSUME Shapes, StatusInv, [Next]_vars, NEW h \in Handlers, AskStatus(h)
    PROVE  StatusInv'
<1>1. /\ plugin' = plugin /\ instances' = instances /\ Unborn' = Unborn
      /\ rpc \in [Handlers -> Rpcs \union {NoRpc}]
  BY DEF AskStatus, Unborn, Shapes, CallShapes
<1>2. /\ ioloop = h /\ calls[h].ops # <<>> /\ Head(calls[h].ops) \notin ReportedOps
      /\ calls[h] \in InstanceCalls /\ rpc[h] = NoRpc /\ calls[h].stage = "running"
  BY RunningCall DEF AskStatus, Running, ReportedOps
<1>3. \A i \in Ids : ~ReportCall(h, i)
  BY <1>2, ReportCallRuns
<1>4. calls[h].ops \in Seq(InstanceOps) /\ calls[h].of \in Ids
      /\ calls[h].kind = "instance"
  BY <1>2 DEF InstanceCalls
<1>5. /\ \A g \in Handlers \ {h} : calls'[g] = calls[g]
      /\ \/ calls'[h] = Idle
         \/ /\ calls'[h].kind = calls[h].kind /\ calls'[h].of = calls[h].of
            /\ calls'[h].ops = Tail(calls[h].ops)
  BY <1>2, CallMoves DEF AskStatus
<1>6. \A i \in Ids : CallOn(h, i)' => CallOn(h, i)
  BY <1>2, <1>4, <1>5 DEF CallOn, Calling, Idle
<1>7. \A i \in Ids : ~ReportCall(h, i)'
  <2> SUFFICES ASSUME NEW i \in Ids, ReportCall(h, i)' PROVE FALSE
    OBVIOUS
  <2>1. CallOn(h, i) /\ calls'[h].ops = Tail(calls[h].ops)
    BY <1>5, <1>6 DEF ReportCall, CallOn, Calling, Idle
  <2>2. PICK k \in DOMAIN Tail(calls[h].ops) : Tail(calls[h].ops)[k] \in ReportedOps
    BY <2>1 DEF ReportCall
  <2>3. k + 1 \in DOMAIN calls[h].ops /\ Tail(calls[h].ops)[k] = calls[h].ops[k + 1]
    BY <1>2, <1>4, <2>2
  <2>4. QED
    BY <1>3, <2>1, <2>2, <2>3 DEF ReportCall
<1>8. \/ rpc' = rpc
      \/ rpc' = [rpc EXCEPT ![h] = [stage |-> "sent", what |-> Head(calls[h].ops),
                                    of |-> calls[h].of]]
  BY DEF AskStatus, Ask
<1>9. \A g \in Handlers \ {h} : rpc'[g] = rpc[g]
  BY <1>1, <1>8
<1>10. ASSUME NEW i \in Ids
       PROVE  ~Asking(h, i) /\ (Asking(h, i)' => i \notin Unborn')
  <2>1. ~Asking(h, i)
    BY <1>2 DEF Asking, NoRpc
  <2>2. ASSUME Asking(h, i)'
        PROVE  i = calls[h].of
    BY <1>1, <1>2, <1>8, <2>2 DEF Asking, NoRpc
  <2>3. i = calls[h].of => CallOn(h, i)
    BY <1>2, <1>4 DEF CallOn, Calling
  <2>4. CallOn(h, i) => i \notin Unborn
    BY DEF StatusInv, UnbornInv
  <2>5. QED
    BY <1>1, <2>1, <2>2, <2>3, <2>4
<1>11. QED
  BY <1>1, <1>3, <1>5, <1>6, <1>7, <1>9, <1>10, StatusKeptBy

\* When no handler has the thread, no report is under way.
LEMMA NoReportWhenFree ==
    ASSUME Shapes, StatusInv, ioloop = NoHandler
    PROVE  \A h \in Handlers, i \in Ids : ~ReportCall(h, i)
BY ReportCallRuns, CatalogAssumption

\* The bodies of clients carry no report.
OnlyPluginsReport ==
    \A ops \in InstanceBodies : \A k \in DOMAIN ops : ops[k] \notin ReportedOps

\* A PATCH of a client, which is about an instance that is there.
LEMMA StatusOfClients ==
    ASSUME Shapes, StatusInv, [Next]_vars, NEW h \in Handlers, NEW i \in Ids, NEW ops,
           \A k \in DOMAIN ops : ops[k] \notin ReportedOps,
           AcceptInstancePatch(h, i, ops), plugin' = plugin
    PROVE  StatusInv'
<1> DEFINE call == [stage |-> "running", kind |-> "instance", of |-> i,
                    copy |-> instances[i], read |-> "no", ops |-> ops]
<1>1. /\ instances' = instances /\ Unborn' = Unborn /\ rpc' = rpc /\ i \notin Unborn
      /\ ioloop = NoHandler /\ calls' = [calls EXCEPT ![h] = call]
      /\ calls \in [Handlers -> Calls \union {Idle}]
  BY DEF AcceptInstancePatch, Begin, Free, Alive, Unborn, Shapes, CallShapes
<1>2. calls'[h] = call /\ \A g \in Handlers \ {h} : calls'[g] = calls[g] /\ rpc'[g] = rpc[g]
  BY <1>1
<1>3. \A j \in Ids : ~ReportCall(h, j) /\ ~ReportCall(h, j)'
  BY <1>1, <1>2, NoReportWhenFree DEF ReportCall
<1>4. \A j \in Ids : CallOn(h, j)' => j = i
  BY <1>2 DEF CallOn
<1>5. \A j \in Ids : Asking(h, j)' <=> Asking(h, j)
  BY <1>1 DEF Asking
<1>6. QED
  BY <1>1, <1>2, <1>3, <1>4, <1>5, StatusKeptBy

\* A report of a plugin, which its handler then has in hand.
LEMMA StatusOfReports ==
    ASSUME Shapes, StatusInv, NEW h \in Handlers, NEW i \in Ids, PluginReports(h, i)
    PROVE  StatusInv'
<1>1. /\ instances' = instances /\ Unborn' = Unborn /\ Whole' = Whole /\ rpc' = rpc
      /\ calls \in [Handlers -> Calls \union {Idle}] /\ plugin \in [Ids -> Plugins]
      /\ plugin' = [plugin EXCEPT ![i].owes = "nothing"]
      /\ plugin[i].owes # "nothing"
  BY DEF PluginReports, AcceptInstancePatch, Whole, Unborn, Shapes, CallShapes, PluginShapes
<1>2. /\ plugin'[i].owes = "nothing" /\ plugin'[i].told = plugin[i].told
      /\ plugin'[i].state = plugin[i].state
      /\ \A j \in Ids \ {i} : plugin'[j] = plugin[j]
      /\ plugin[i].owes \in ReportedOps
  BY <1>1 DEF Plugins
<1>3. \A j \in Ids : Settled(j)' = Settled(j)
  BY <1>2 DEF Settled
<1>4. \A j \in Ids : (\A g \in Handlers : Asking(g, j)' <=> Asking(g, j)) /\ (Pending(j)' <=> Pending(j))
  BY <1>1, <1>2 DEF Asking, Pending
<1>5. i \notin Unborn /\ plugin[i].state = plugin[i].owes
  BY <1>1 DEF StatusInv, UnbornInv, ReportInv
<1>6. CASE i \notin Alive /\ UNCHANGED <<systems, stubs, created, instances, post, calls, rpc, ioloop, made>>
  <2>1. \A g \in Handlers, j \in Ids :
            (ReportCall(g, j)' <=> ReportCall(g, j)) /\ (CallOn(g, j)' <=> CallOn(g, j))
    BY <1>6 DEF ReportCall, CallOn, Calling
  <2>2. \A j \in Ids \ {i} : Reporting(j)' <=> Reporting(j)
    BY <1>2, <2>1, ReportingIs, ReportingIsNext
  <2>3. SettledInv'
    <3>1. i \notin Whole
      BY <1>6 DEF Alive, Whole, Statuses
    <3>2. QED
      BY <1>1, <1>3, <1>4, <2>2, <3>1 DEF StatusInv, SettledInv
  <2>4. ReportInv'
    BY <1>1, <1>2, <1>4, <1>6, <2>1 DEF StatusInv, ReportInv
  <2>5. UnbornInv'
    <3>1. \A j \in Unborn : j # i /\ j \in Ids
      BY <1>5 DEF Unborn
    <3>2. QED
      BY <1>1, <1>2, <1>4, <2>1, <3>1 DEF StatusInv, UnbornInv
  <2>6. QED
    BY <2>3, <2>4, <2>5 DEF StatusInv
<1>7. CASE AcceptInstancePatch(h, i, <<plugin[i].owes>>)
  <2> DEFINE call == [stage |-> "running", kind |-> "instance", of |-> i,
                      copy |-> instances[i], read |-> "no", ops |-> <<plugin[i].owes>>]
  <2>1. ioloop = NoHandler /\ calls' = [calls EXCEPT ![h] = call]
    BY <1>7 DEF AcceptInstancePatch, Begin, Free
  <2>2. calls'[h] = call /\ \A g \in Handlers \ {h} : calls'[g] = calls[g]
    BY <1>1, <2>1
  <2>3. \A g \in Handlers, j \in Ids : ~ReportCall(g, j)
    BY <2>1, NoReportWhenFree
  <2>4. \A g \in Handlers \ {h} : \A j \in Ids :
            ~ReportCall(g, j)' /\ (CallOn(g, j)' => CallOn(g, j))
    BY <2>2, <2>3 DEF ReportCall, CallOn, Calling
  <2>5. \A j \in Ids : (CallOn(h, j)' => j = i) /\ (ReportCall(h, j)' => j = i)
    BY <2>2 DEF ReportCall, CallOn
  <2>6. ReportCall(h, i)'
    <3>1. CallOn(h, i)'
      BY <2>2 DEF CallOn, Calling
    <3>2. 1 \in DOMAIN calls'[h].ops /\ calls'[h].ops[1] \in ReportedOps
      BY <1>2, <2>2
    <3>3. QED
      BY <3>1, <3>2 DEF ReportCall
  <2>7. SettledInv'
    <3> SUFFICES ASSUME NEW j \in Ids, j \in Whole', ~Pending(j)', ~Reporting(j)'
                 PROVE  instances'[j] = Settled(j)'
      BY DEF SettledInv
    <3>1. j # i
      BY <2>6, ReportingIsNext
    <3>2. ~Reporting(j)
      BY <1>2, <2>3, <3>1, ReportingIs, ReportingIsNext
    <3>3. QED
      BY <1>1, <1>3, <1>4, <3>2 DEF StatusInv, SettledInv
  <2>8. ReportInv'
    <3>1. ASSUME NEW g \in Handlers, NEW j \in Ids, ReportCall(g, j)'
          PROVE  /\ calls'[g].stage = "running" /\ calls'[g].ops = <<plugin'[j].state>>
                 /\ calls'[g].copy = instances'[j]
      <4>1. g = h /\ j = i
        BY <2>4, <2>5, <3>1
      <4>2. QED
        BY <1>1, <1>2, <1>5, <2>2, <4>1
    <3>2. \A j \in Ids : plugin'[j].owes # "nothing" => plugin'[j].owes = plugin'[j].state
      BY <1>2 DEF StatusInv, ReportInv
    <3>3. QED
      BY <3>1, <3>2 DEF ReportInv
  <2>9. UnbornInv'
    <3>1. \A j \in Unborn : j # i /\ j \in Ids
      BY <1>5 DEF Unborn
    <3>2. QED
      BY <1>1, <1>2, <1>4, <2>4, <2>5, <3>1 DEF StatusInv, UnbornInv
  <2>10. QED
    BY <2>7, <2>8, <2>9 DEF StatusInv
<1>8. QED
  BY <1>6, <1>7 DEF PluginReports

\* A plugin that does what it is told owes a report.
LEMMA StatusOfObeying ==
    ASSUME Shapes, StatusInv, NEW i \in Ids, PluginObeys(i)
    PROVE  StatusInv'
<1> DEFINE order == Head(plugin[i].told)
<1>1. /\ UNCHANGED <<instances, calls, rpc>> /\ Unborn' = Unborn /\ Whole' = Whole
      /\ plugin \in [Ids -> Plugins] /\ plugin[i].told # <<>>
      /\ plugin' = [plugin EXCEPT ![i] =
             [told |-> Tail(plugin[i].told), owes |-> order, state |-> order]]
  BY DEF PluginObeys, Whole, Unborn, Shapes, PluginShapes
<1>2. order \in ReportedOps
  <2>1. plugin[i].told \in Seq(ReportedOps)
    BY <1>1 DEF Plugins
  <2>2. QED
    BY <1>1, <2>1
<1>3. /\ plugin'[i].owes = order /\ plugin'[i].state = order /\ order # "nothing"
      /\ \A j \in Ids \ {i} : plugin'[j] = plugin[j]
  BY <1>1, <1>2 DEF ReportedOps
<1>4. \A g \in Handlers, j \in Ids :
          /\ ReportCall(g, j)' <=> ReportCall(g, j)
          /\ CallOn(g, j)' <=> CallOn(g, j)
          /\ Asking(g, j)' <=> Asking(g, j)
  BY <1>1 DEF ReportCall, CallOn, Calling, Asking
<1>5. \A g \in Handlers : ~ReportCall(g, i)
  BY ReportingIs DEF PluginObeys
<1>6. \A j \in Ids \ {i} : /\ Pending(j)' <=> Pending(j)
                           /\ Reporting(j)' <=> Reporting(j)
                           /\ Settled(j)' = Settled(j)
  BY <1>3, <1>4, ReportingIs, ReportingIsNext DEF Pending, Settled
<1>7. SettledInv'
  <2>1. Reporting(i)'
    BY <1>3, ReportingIsNext
  <2>2. QED
    BY <1>1, <1>6, <2>1 DEF StatusInv, SettledInv
<1>8. ReportInv'
  <2>1. ASSUME NEW g \in Handlers, NEW j \in Ids, ReportCall(g, j)'
        PROVE  /\ calls'[g].stage = "running" /\ calls'[g].ops = <<plugin'[j].state>>
               /\ calls'[g].copy = instances'[j] \/ Pending(j)' \/ j \notin Whole'
    <3>1. j # i /\ ReportCall(g, j)
      BY <1>4, <1>5, <2>1
    <3>2. QED
      BY <1>1, <1>3, <1>6, <3>1 DEF StatusInv, ReportInv
  <2>2. \A j \in Ids : plugin'[j].owes # "nothing" => plugin'[j].owes = plugin'[j].state
    BY <1>3 DEF StatusInv, ReportInv
  <2>3. QED
    BY <2>1, <2>2 DEF ReportInv
<1>9. UnbornInv'
  <2>1. \A j \in Unborn : j # i /\ j \in Ids
    BY <1>1 DEF StatusInv, UnbornInv, Unborn
  <2>2. QED
    BY <1>1, <1>3, <1>4, <2>1 DEF StatusInv, UnbornInv
<1>10. QED
  BY <1>7, <1>8, <1>9 DEF StatusInv

\* The report is saved: the status is then what the plugin is, unless something
\* is pending.
LEMMA StatusOfSaving ==
    ASSUME Shapes, StatusInv, [Next]_vars, NEW h \in Handlers, SaveInstance(h)
    PROVE  StatusInv'
<1> DEFINE i == calls[h].of
           op == Head(calls[h].ops)
<1>1. /\ ioloop = h /\ calls[h].ops # <<>> /\ calls[h] \in InstanceCalls
      /\ calls[h].stage = "running" /\ rpc' = rpc /\ plugin' = plugin
      /\ calls \in [Handlers -> Calls \union {Idle}]
      /\ instances \in [Ids -> Statuses \union {"unborn", "gone", "stub"}]
      /\ op \in {"heartbeat", "RUNNING", "STOPPED"}
  BY RunningCall DEF SaveInstance, Running, Shapes, CallShapes, DocShapes
<1>2. i \in Ids /\ calls[h].ops \in Seq(InstanceOps) /\ calls[h].kind = "instance"
  BY <1>1 DEF InstanceCalls
<1>3. PICK new \in SavedAs(instances[i], op, calls[h].copy) :
          instances' = [instances EXCEPT ![i] = new] /\ \E copy : Step(h, copy)
  BY DEF SaveInstance, SavesStatus
<1>4. /\ i \in Whole' => i \in Whole
      /\ i \in Whole => new = IF op \in {"heartbeat", calls[h].copy} THEN instances[i] ELSE op
  BY <1>1, <1>2, <1>3 DEF SavedAs, Whole, Statuses
<1>5. \A g \in Handlers \ {h} : calls'[g] = calls[g]
  BY <1>1, <1>3, CallMoves
<1>6. calls'[h].kind = "instance" /\ calls'[h].of = i /\ calls'[h].ops = Tail(calls[h].ops)
  <2>1. PICK copy : calls' = [calls EXCEPT ![h].ops = Tail(@), ![h].copy = copy]
    BY <1>3 DEF Step
  <2>2. calls'[h] = [calls[h] EXCEPT !.ops = Tail(@), !.copy = copy]
    BY <1>1, <2>1
  <2>3. QED
    BY <1>1, <2>2 DEF InstanceCalls
<1>7. CallOn(h, i) /\ i \notin Unborn
  <2>1. CallOn(h, i)
    BY <1>1, <1>2 DEF CallOn, Calling
  <2>2. QED
    BY <2>1 DEF StatusInv, UnbornInv
<1>8. \A j \in Ids : CallOn(h, j)' => j = i
  BY <1>6 DEF CallOn
<1>9. CASE op = "heartbeat"
  <2>1. /\ Unborn' = Unborn
        /\ \A j \in Ids : instances'[j] = instances[j] \/ j \notin Whole'
    <3>1. instances'[i] = instances[i] \/ i \notin Whole'
      BY <1>1, <1>2, <1>3, <1>4, <1>9
    <3>2. new # "unborn" /\ instances[i] # "unborn"
      BY <1>2, <1>3, <1>7 DEF SavedAs, Statuses, Unborn
    <3>3. QED
      BY <1>1, <1>2, <1>3, <3>1, <3>2 DEF Unborn
  <2>2. \A j \in Ids : ~ReportCall(h, j)
    BY <1>9, ReportCallRuns DEF ReportedOps
  <2>3. ASSUME NEW j \in Ids, ReportCall(h, j)'
        PROVE  FALSE
    <3>1. j = i
      BY <1>8, <2>3 DEF ReportCall
    <3>2. PICK k \in DOMAIN Tail(calls[h].ops) : Tail(calls[h].ops)[k] \in ReportedOps
      BY <1>6, <2>3 DEF ReportCall
    <3>3. k + 1 \in DOMAIN calls[h].ops /\ Tail(calls[h].ops)[k] = calls[h].ops[k + 1]
      BY <1>1, <1>2, <3>2
    <3>4. QED
      BY <1>7, <2>2, <3>1, <3>2, <3>3 DEF ReportCall
  <2>4. \A j \in Ids : (Asking(h, j)' <=> Asking(h, j)) /\ (CallOn(h, j)' => CallOn(h, j))
    BY <1>1, <1>7, <1>8 DEF Asking
  <2>5. QED
    BY <1>1, <1>5, <2>1, <2>2, <2>3, <2>4, StatusKeptBy
<1>10. CASE op # "heartbeat"
  <2>1. ReportCall(h, i)
    <3>1. 1 \in DOMAIN calls[h].ops /\ calls[h].ops[1] = op /\ op \in ReportedOps
      BY <1>1, <1>2, <1>10 DEF ReportedOps
    <3>2. QED
      BY <1>7, <3>1 DEF ReportCall
  <2>2. op = plugin[i].state /\ op \in ReportedOps /\ Tail(calls[h].ops) = <<>>
    BY <1>2, <2>1, ReportCallRuns
  <2>3. \A g \in Handlers, j \in Ids : ~ReportCall(g, j)'
    <3>1. ASSUME NEW g \in Handlers \ {h}, NEW j \in Ids, ReportCall(g, j)'
          PROVE  FALSE
      <4>1. ReportCall(g, j)
        BY <1>5, <3>1 DEF ReportCall, CallOn, Calling
      <4>2. QED
        BY <1>1, <4>1, ReportCallRuns
    <3>2. \A j \in Ids : ~ReportCall(h, j)'
      BY <1>6, <2>2 DEF ReportCall
    <3>3. QED
      BY <3>1, <3>2
  <2>4. \A j \in Ids : /\ Pending(j)' <=> Pending(j)
                       /\ Settled(j)' = Settled(j)
    BY <1>1 DEF Pending, Asking, Settled
  <2>5. \A j \in Ids \ {i} : instances'[j] = instances[j]
    BY <1>1, <1>3
  <2>6. Unborn' = Unborn
    <3>1. new # "unborn" /\ instances[i] # "unborn"
      BY <1>2, <1>3, <1>7 DEF SavedAs, Statuses, Unborn
    <3>2. QED
      BY <1>1, <1>2, <1>3, <3>1 DEF Unborn
  <2>7. ASSUME i \in Whole, ~Pending(i)
        PROVE  instances'[i] = op
    <3>1. calls[h].copy = instances[i]
      BY <1>2, <2>1, <2>7 DEF StatusInv, ReportInv
    <3>2. new = op
      BY <1>4, <1>10, <2>7, <3>1
    <3>3. QED
      BY <1>1, <1>2, <1>3, <3>2
  <2>8. SettledInv'
    <3> SUFFICES ASSUME NEW j \in Ids, j \in Whole', ~Pending(j)', ~Reporting(j)'
                 PROVE  instances'[j] = Settled(j)'
      BY DEF SettledInv
    <3>1. CASE j = i
      BY <1>4, <2>2, <2>4, <2>7, <3>1 DEF Settled, ReportedOps
    <3>2. CASE j # i
      <4>1. \A g \in Handlers : ~ReportCall(g, j)
        <5>1. ASSUME NEW g \in Handlers, ReportCall(g, j)
              PROVE  FALSE
          <6>1. g = h
            BY <1>1, <5>1, ReportCallRuns
          <6>2. QED
            BY <3>2, <5>1, <6>1 DEF ReportCall, CallOn
        <5>2. QED
          BY <5>1
      <4>2. ~Reporting(j)
        BY <1>1, <4>1, ReportingIs, ReportingIsNext
      <4>3. QED
        BY <2>4, <2>5, <3>2, <4>2 DEF StatusInv, SettledInv, Whole
    <3>3. QED
      BY <3>1, <3>2
  <2>9. ReportInv'
    BY <1>1, <2>3 DEF StatusInv, ReportInv
  <2>10. UnbornInv'
    <3>1. \A g \in Handlers, j \in Ids : /\ Asking(g, j)' <=> Asking(g, j)
                                         /\ CallOn(g, j)' => CallOn(g, j)
      BY <1>1, <1>5, <1>7, <1>8 DEF Asking, CallOn, Calling
    <3>2. QED
      BY <1>1, <2>6, <3>1 DEF StatusInv, UnbornInv, Unborn
  <2>11. QED
    BY <2>8, <2>9, <2>10 DEF StatusInv
<1>11. QED
  BY <1>9, <1>10

\* Nothing but the documents of instances changes, and only to be made or to go.
LEMMA StatusOfDocuments ==
    ASSUME StatusInv, UNCHANGED <<calls, rpc, plugin>>, Unborn' \subseteq Unborn,
           \A i \in Ids : \/ instances'[i] = instances[i] \/ i \notin Whole'
                          \/ i \in Unborn /\ instances'[i] = "INITIALIZING"
    PROVE  StatusInv'
<1>1. \A h \in Handlers, i \in Ids :
          /\ Asking(h, i)' <=> Asking(h, i)
          /\ CallOn(h, i)' <=> CallOn(h, i)
          /\ ReportCall(h, i)' <=> ReportCall(h, i)
          /\ calls'[h] = calls[h]
  BY DEF Asking, CallOn, ReportCall, Calling
<1>2. plugin' = plugin
  OBVIOUS
<1>3. QED
  BY <1>1, <1>2, StatusKept

\* Bartender answers: what it was asked for is no longer pending.
LEMMA AnswerMoves ==
    ASSUME Shapes, NEW h \in Handlers, rpc[h].stage \in {"sent", "written"}, Answers(h)
    PROVE  /\ \A g \in Handlers \ {h} : rpc'[g] = rpc[g]
           /\ \A i \in Ids : ~Asking(h, i)'
<1>1. rpc \in [Handlers -> Rpcs \union {NoRpc}]
  BY DEF Shapes, CallShapes
<1>2. rpc[h] \in SystemRpcs \/ rpc[h] \in StatusRpcs
  BY <1>1 DEF Rpcs, NoRpc
<1>3. \A g \in Handlers \ {h} : rpc'[g] = rpc[g]
  BY <1>1 DEF Answers
<1>4. rpc'[h] = NoRpc \/ rpc'[h] = [rpc[h] EXCEPT !.stage = "answered"]
  BY <1>1 DEF Answers
<1>5. rpc'[h].stage \notin {"sent", "written"}
  BY <1>2, <1>4 DEF NoRpc, SystemRpcs, StatusRpcs
<1>6. QED
  BY <1>3, <1>5 DEF Asking

\* Bartender answers without a change of status: nothing that was pending for
\* an instance that is there is lost.
LEMMA StatusOfAnswering ==
    ASSUME Shapes, StatusInv, NEW h \in Handlers, rpc[h].stage \in {"sent", "written"},
           Answers(h), UNCHANGED <<calls, plugin>>, Unborn' \subseteq Unborn,
           \A i \in Ids : instances'[i] = instances[i] \/ i \notin Whole',
           \A i \in Ids : Asking(h, i) => i \notin Whole'
    PROVE  StatusInv'
<1>1. /\ \A g \in Handlers \ {h} : calls'[g] = calls[g] /\ rpc'[g] = rpc[g]
      /\ \A i \in Ids : ~Asking(h, i)'
  BY AnswerMoves
<1>2. \A i \in Ids : /\ CallOn(h, i)' => CallOn(h, i)
                     /\ ReportCall(h, i)' <=> ReportCall(h, i)
                     /\ calls'[h] = calls[h]
  BY DEF CallOn, ReportCall, Calling
<1>3. plugin' = plugin
  OBVIOUS
<1>4. QED
  BY <1>1, <1>2, <1>3, StatusKeptBy

\* Bartender writes a status: the plugin has yet to hear of it.
LEMMA StatusOfWriting ==
    ASSUME Shapes, StatusInv, NEW h \in Handlers, BartenderWrites(h)
    PROVE  StatusInv'
<1> DEFINE i == rpc[h].of
<1>1. rpc[h] \in StatusRpcs /\ rpc \in [Handlers -> Rpcs \union {NoRpc}]
  <2>1. rpc \in [Handlers -> Rpcs \union {NoRpc}]
    BY DEF Shapes, CallShapes
  <2>2. rpc[h] \in SystemRpcs \/ rpc[h] \in StatusRpcs
    BY <2>1 DEF BartenderWrites, Rpcs, NoRpc
  <2>3. QED
    BY <2>1, <2>2 DEF BartenderWrites, SystemRpcs
<1>2. i \in Ids /\ rpc[h].what \in AskedOps
  BY <1>1 DEF StatusRpcs
<1>3. CASE i \in Alive
  <2>1. /\ instances' = [instances EXCEPT ![i] = IF @ = "stub" THEN @ ELSE rpc[h].what]
        /\ rpc' = [rpc EXCEPT ![h] = [rpc[h] EXCEPT !.stage = "written"]]
        /\ UNCHANGED <<calls, plugin>>
        /\ instances \in [Ids -> Statuses \union {"unborn", "gone", "stub"}]
    BY <1>1, <1>3 DEF BartenderWrites, Shapes, DocShapes
  <2>2. Whole' = Whole /\ Unborn' = Unborn
    BY <1>2, <1>3, <2>1 DEF Alive, Whole, Unborn, AskedOps, Statuses
  <2>3. \A g \in Handlers, j \in Ids : Asking(g, j)' <=> Asking(g, j)
    <3>1. /\ rpc'[h].stage = "written" /\ rpc'[h].what = rpc[h].what /\ rpc'[h].of = rpc[h].of
          /\ rpc[h].stage = "sent"
          /\ \A g \in Handlers \ {h} : rpc'[g] = rpc[g]
      BY <1>1, <2>1 DEF StatusRpcs, BartenderWrites
    <3>2. QED
      BY <3>1 DEF Asking
  <2>4. Asking(h, i)
    BY <1>2 DEF Asking, BartenderWrites
  <2>5. \A j \in Ids : /\ Pending(j)' <=> Pending(j)
                       /\ Settled(j)' = Settled(j)
    BY <2>1, <2>3 DEF Pending, Settled
  <2>6. Pending(i)
    BY <2>4 DEF Pending
  <2>7. \A g \in Handlers, j \in Ids : /\ CallOn(g, j)' <=> CallOn(g, j)
                                       /\ ReportCall(g, j)' <=> ReportCall(g, j)
    BY <2>1 DEF CallOn, ReportCall, Calling
  <2>8. \A j \in Ids : Reporting(j)' <=> Reporting(j)
    BY <2>1, <2>7, ReportingIs, ReportingIsNext
  <2>9. \A j \in Ids \ {i} : instances'[j] = instances[j]
    BY <2>1
  <2>10. SettledInv'
    BY <1>2, <2>2, <2>5, <2>6, <2>8, <2>9 DEF StatusInv, SettledInv
  <2>11. ReportInv'
    BY <1>2, <2>1, <2>2, <2>5, <2>6, <2>7, <2>9 DEF StatusInv, ReportInv
  <2>12. UnbornInv'
    <3>1. \A j \in Unborn : j \in Ids
      BY DEF Unborn
    <3>2. QED
      BY <2>1, <2>2, <2>3, <2>7, <3>1 DEF StatusInv, UnbornInv
  <2>13. QED
    BY <2>10, <2>11, <2>12 DEF StatusInv
<1>4. CASE i \notin Alive
  <2>1. Answers(h) /\ UNCHANGED <<calls, plugin>> /\ instances' = instances /\ Whole' = Whole
        /\ Unborn' = Unborn /\ rpc[h].stage = "sent"
    BY <1>4 DEF BartenderWrites, Whole, Unborn
  <2>2. \A j \in Ids : Asking(h, j) => j \notin Whole'
    BY <1>4, <2>1 DEF Asking, Alive, Whole, Statuses
  <2>3. QED
    BY <2>1, <2>2, StatusOfAnswering
<1>5. QED
  BY <1>3, <1>4

\* Bartender tells the plugin, which has yet to do it.
LEMMA StatusOfTelling ==
    ASSUME Shapes, StatusInv, NEW h \in Handlers, BartenderTells(h)
    PROVE  StatusInv'
<1> DEFINE order == IF rpc[h].what = "STOPPING" THEN "STOPPED" ELSE "RUNNING"
<1>1. rpc[h] \in StatusRpcs /\ rpc \in [Handlers -> Rpcs \union {NoRpc}]
  <2>1. rpc \in [Handlers -> Rpcs \union {NoRpc}]
    BY DEF Shapes, CallShapes
  <2>2. rpc[h] \in SystemRpcs \/ rpc[h] \in StatusRpcs
    BY <2>1 DEF BartenderTells, Rpcs, NoRpc
  <2>3. QED
    BY <2>1, <2>2 DEF BartenderTells, SystemRpcs
<1>2. PICK i \in Ids : i = rpc[h].of /\ Asking(h, i)
  BY <1>1 DEF StatusRpcs, Asking, BartenderTells
<1>3. /\ UNCHANGED <<instances, calls>> /\ Whole' = Whole /\ Unborn' = Unborn
      /\ plugin' = [plugin EXCEPT ![i] = [plugin[i] EXCEPT !.told = Append(@, order)]]
      /\ plugin \in [Ids -> Plugins] /\ Answers(h) /\ rpc[h].stage = "written"
  BY <1>2 DEF BartenderTells, Whole, Unborn, Shapes, PluginShapes
<1> HIDE DEF order
<1>4. /\ plugin'[i].owes = plugin[i].owes /\ plugin'[i].state = plugin[i].state
      /\ plugin'[i].told = Append(plugin[i].told, order)
      /\ plugin[i].told \in Seq(ReportedOps)
      /\ \A j \in Ids \ {i} : plugin'[j] = plugin[j]
  BY <1>2, <1>3 DEF Plugins
<1>5. Pending(i)'
  <2>1. plugin'[i].told # <<>>
    BY <1>4
  <2>2. QED
    BY <2>1 DEF Pending
<1>6. i \notin Unborn
  BY <1>2 DEF StatusInv, UnbornInv
<1>7. \A g \in Handlers, j \in Ids : j # i => (Asking(g, j)' <=> Asking(g, j))
  <2>1. \A g \in Handlers \ {h} : rpc'[g] = rpc[g]
    BY <1>3, AnswerMoves
  <2>2. \A j \in Ids : ~Asking(h, j)' /\ (Asking(h, j) => j = i)
    BY <1>2, <1>3, AnswerMoves DEF Asking
  <2>3. QED
    BY <2>1, <2>2 DEF Asking
<1>8. \A g \in Handlers, j \in Ids : /\ CallOn(g, j)' <=> CallOn(g, j)
                                     /\ ReportCall(g, j)' <=> ReportCall(g, j)
  BY <1>3 DEF CallOn, ReportCall, Calling
<1>9. \A j \in Ids : /\ Settled(j)' = Settled(j)
                     /\ Reporting(j)' <=> Reporting(j)
  BY <1>4, <1>8, ReportingIs, ReportingIsNext DEF Settled
<1>10. \A j \in Ids \ {i} : Pending(j)' <=> Pending(j)
  BY <1>4, <1>7 DEF Pending
<1>11. SettledInv'
  BY <1>3, <1>5, <1>9, <1>10 DEF StatusInv, SettledInv
<1>12. ReportInv'
  <2>1. \A j \in Ids : plugin'[j].owes = plugin[j].owes /\ plugin'[j].state = plugin[j].state
    BY <1>4
  <2>2. QED
    BY <1>3, <1>5, <1>8, <1>10, <2>1 DEF StatusInv, ReportInv
<1>13. UnbornInv'
  <2>1. \A j \in Unborn : j # i /\ j \in Ids
    BY <1>6 DEF Unborn
  <2>2. QED
    BY <1>3, <1>4, <1>7, <1>8, <2>1 DEF StatusInv, UnbornInv
<1>14. QED
  BY <1>11, <1>12, <1>13 DEF StatusInv

\* Bartender's other work is about systems.
LEMMA StatusOfSystems ==
    ASSUME Shapes, StatusInv, [Next]_vars, NEW h \in Handlers,
           BartenderReloads(h) \/ BartenderRemoves(h)
    PROVE  StatusInv'
<1>1. /\ rpc[h].stage = "sent" /\ rpc[h].what \notin AskedOps /\ Answers(h)
      /\ UNCHANGED <<calls, plugin>>
  BY DEF BartenderReloads, BartenderRemoves, AskedOps
<1>2. Unborn' \subseteq Unborn
  BY UnbornShrinks
<1>3. \A i \in Ids : instances'[i] = instances[i] \/ i \notin Whole'
  <2>1. CASE BartenderReloads(h)
    BY <2>1 DEF BartenderReloads
  <2>2. CASE BartenderRemoves(h)
    <3>1. PICK listed : instances' = [i \in Ids |-> IF i \in listed THEN "gone" ELSE instances[i]]
      BY <2>2 DEF BartenderRemoves
    <3>2. QED
      BY <3>1 DEF Whole, Statuses
  <2>3. QED
    BY <2>1, <2>2
<1>4. \A i \in Ids : ~Asking(h, i)
  BY <1>1 DEF Asking
<1>5. QED
  BY <1>1, <1>2, <1>3, <1>4, StatusOfAnswering

\* Every step keeps the invariant.
LEMMA StatusStep ==
    ASSUME OnlyPluginsReport, Shapes, StatusInv, [Next]_vars
    PROVE  StatusInv'
<1>1. CASE PostNext
  <2>1. UNCHANGED <<calls, rpc, plugin>> /\ \E ids : instances' = Born(ids) /\ ids \subseteq Unborn
    <3>1. CASE (\E p \in Posts : PostFinds(p)) \/ PostReads \/ PostRefused
      <4>1. UNCHANGED <<instances, calls, rpc, plugin>>
        BY <3>1 DEF PostFinds, PostReads, PostRefused
      <4>2. instances' = Born({})
        BY <4>1 DEF Born, Shapes, DocShapes
      <4>3. QED
        BY <4>1, <4>2
    <3>2. CASE PostNew
      <4>1. PICK new \in [NamedBy(post.body) -> Unborn] :
                instances' = Born({new[n] : n \in NamedBy(post.body)})
        BY ONLY <3>2 DEF PostNew
      <4>2. {new[n] : n \in NamedBy(post.body)} \subseteq Unborn
        BY <4>1
      <4>3. UNCHANGED <<calls, rpc, plugin>>
        BY ONLY <3>2 DEF PostNew
      <4>4. QED
        BY <4>1, <4>2, <4>3
    <3>3. CASE PostAgain
      <4>1. PICK new \in [NamedBy(post.body) \ NamesIn(post.copy.instances) -> Unborn] :
                instances' = Born({new[n] : n \in DOMAIN new})
        BY ONLY <3>3 DEF PostAgain
      <4>2. {new[n] : n \in DOMAIN new} \subseteq Unborn
        BY <4>1
      <4>3. UNCHANGED <<calls, rpc, plugin>>
        BY ONLY <3>3 DEF PostAgain
      <4>4. QED
        BY <4>1, <4>2, <4>3
    <3>4. QED
      BY <1>1, <3>1, <3>2, <3>3 DEF PostNext
  <2>2. \A i \in Ids : instances'[i] = instances[i] \/ (i \in Unborn /\ instances'[i] = "INITIALIZING")
    BY <2>1 DEF Born
  <2>3. QED
    BY <2>1, <2>2, UnbornShrinks, StatusOfDocuments
<1>2. ASSUME NEW i \in Ids, DeleteInstance(i)
      PROVE  StatusInv'
  <2>1. \A j \in Ids : instances'[j] = instances[j] \/ j \notin Whole'
    BY <1>2 DEF DeleteInstance, Whole, Statuses, Shapes, DocShapes
  <2>2. UNCHANGED <<calls, rpc, plugin>>
    BY <1>2 DEF DeleteInstance
  <2>3. QED
    BY <2>1, <2>2, UnbornShrinks, StatusOfDocuments
<1>3. ASSUME NEW h \in Handlers, HandlerNext(h)
      PROVE  StatusInv'
  <2>1. ASSUME NEW i \in Ids, NEW ops \in InstanceBodies, AcceptInstancePatch(h, i, ops),
               UNCHANGED plugin
        PROVE  StatusInv'
    BY <2>1, StatusOfClients DEF OnlyPluginsReport
  <2>2. QED
    BY <1>3, <2>1, StatusOfOthers, StatusOfFrame, StatusOfAsking, StatusOfReports, StatusOfSaving
       DEF HandlerNext
<1>4. CASE UNCHANGED vars
  BY <1>4, StatusOfDocuments DEF vars, Unborn
<1>5. QED
  BY <1>1, <1>2, <1>3, <1>4, StatusOfObeying, StatusOfWriting, StatusOfTelling, StatusOfSystems
     DEF Next, BartenderNext

\* When nobody is at work on an instance any more, its status is what the
\* plugin was last told to be and is, if reports come from plugins only.
THEOREM StatusesSettle ==
    ASSUME OnlyPluginsReport
    PROVE  Spec => []StatusSettles
<1>1. Shapes /\ StatusInv /\ [Next]_vars => StatusInv'
  BY StatusStep
<1>2. QED
  BY <1>1, StatusInit, AlwaysShapes, StatusInvSettles, PTL DEF Spec

=============================================================================
