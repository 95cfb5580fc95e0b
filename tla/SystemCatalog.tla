---------------------------- MODULE SystemCatalog ----------------------------
(***************************************************************************)
(* Systems and instances: controllers/system_list_api.py, system_api.py    *)
(* and instance_api.py, with Bartender and the plugins around them.        *)
(*                                                                         *)
(* A plugin registers its system (a name and a version) and is given       *)
(* instance documents; to start and stop, brew-view asks Bartender, which  *)
(* writes the status and tells the plugin, which reports with a PATCH.     *)
(* The handlers of PATCH and of SystemAPI.delete load a document, and wait *)
(* for Bartender with it in hand: others then change what they have read.  *)
(* ioloop is the handler that has Tornado's only thread, if any: one that  *)
(* waits has let go of it, and a POST, which never waits, has it from the  *)
(* find to the save.  Bartender needs no leave to write, or to remove.     *)
(*                                                                         *)
(* mongoengine (external, 0.15.3) reads the instances a list names when    *)
(* the list is first looked at, one that is gone having no name, and keeps *)
(* what it has read.  A save writes the fields that changed, and puts back *)
(* a document that was removed with these alone: a stub.                   *)
(***************************************************************************)
EXTENDS Integers, FiniteSets, Sequences

CONSTANTS
    Systems,        \* a name and a version each
    Released,       \* those without "dev" in the version
    Names,          \* of instances, "default" among them
    Ids,            \* of instance documents
    NoId,
    CommandLists,
    NoCommands,     \* the empty one
    Gone,           \* no document
    Posts,          \* POSTed systems
    SystemBodies,   \* <<s, ops>>: bodies PATCHed to system s
    InstanceBodies, \* bodies PATCHed to an instance, a plugin's reports aside
    Handlers,       \* calls under way at a time (bound)
    NoHandler,
    Surroundings,   \* "unreachable", "losses": the calls to Bartender fail
    MaxMessages,    \* waiting for one plugin (bound)
    MaxCalls        \* PATCHes and DELETEs of clients in a behaviour (bound)

\* What an operation asks for; a value when it needs one.  "INITIALIZING" to
\* "STARTING" as /status, or initialize, stop and start, ask Bartender.
SystemOps ==
    [kind : {"commands"}, value : CommandLists]
        \union [kind : {"add"}, value : Names]
        \union [kind : {"text", "reload", "unsupported"}]

InstanceOps ==
    {"INITIALIZING", "STOPPING", "STARTING", "RUNNING", "STOPPED", "heartbeat",
     "unsupported"}

NewSystems ==
    [system : Systems, commands : CommandLists, instances : SUBSET Names,
     max_instances : Nat \union {-1}]

\* max_instances 0 stands for None.
ASSUME CatalogAssumption ==
    /\ Released \subseteq Systems
    /\ IsFiniteSet(Names) /\ "default" \in Names
    /\ NoId \notin Ids
    /\ NoCommands \in CommandLists
    /\ Posts \subseteq NewSystems
    /\ SystemBodies \subseteq Systems \X Seq(SystemOps)
    /\ InstanceBodies \subseteq Seq(InstanceOps)
    /\ NoHandler \notin Handlers
    /\ Surroundings \subseteq {"unreachable", "losses"}
    /\ MaxMessages \in Nat /\ MaxCalls \in Nat

VARIABLES
    systems,        \* Mongo: the System documents
    stubs,          \* Mongo: those a save has put back, without a name
    created,        \* how many there have been
    instances,      \* Mongo: the status of each Instance document
    post,           \* the POST of a system under way
    calls,          \* PATCH and DELETE handlers under way
    rpc,            \* their call to Bartender, which may outlive them
    ioloop,         \* the handler that runs
    made,           \* client calls so far
    plugin          \* the process behind each instance document

vars == <<systems, stubs, created, instances, post, calls, rpc, ioloop, made, plugin>>

Lists == [Names -> Ids \union {NoId}]

SystemDocs ==
    [id : Nat, commands : CommandLists, instances : Lists, max_instances : Nat \union {-1}]

Statuses == {"INITIALIZING", "RUNNING", "STOPPING", "STOPPED", "STARTING"}

Existing == {s \in Systems : systems[s] # Gone}
Alive == {i \in Ids : instances[i] \notin {"unborn", "gone"}}
Whole == {i \in Ids : instances[i] \in Statuses}    \* no stub of an Instance
Unborn == {i \in Ids : instances[i] = "unborn"}

NamesIn(listed) == {n \in Names : listed[n] # NoId}
IdsIn(listed) == {listed[n] : n \in NamesIn(listed)}

Idle == [stage |-> "idle"]
NoRpc == [stage |-> "none"]
NoPost == [stage |-> "none"]
NoList == [n \in Names |-> NoId]

\* Nobody has the thread.
Free == ioloop = NoHandler /\ post = NoPost

Calling(kind) == {h \in Handlers : calls[h].stage # "idle" /\ calls[h].kind = kind}

Init ==
    /\ systems = [s \in Systems |-> Gone]
    /\ stubs = {}
    /\ created = 0
    /\ instances = [i \in Ids |-> "unborn"]
    /\ post = NoPost
    /\ calls = [h \in Handlers |-> Idle]
    /\ rpc = [h \in Handlers |-> NoRpc]
    /\ ioloop = NoHandler
    /\ made = 0
    /\ plugin = [i \in Ids |-> [told |-> <<>>, owes |-> "nothing", state |-> "new"]]
-----------------------------------------------------------------------------
(***************************************************************************)
(* What a handler does with a System it has loaded.                        *)
(***************************************************************************)

\* The document is still there: one that is registered again after a removal
\* is another, with another id.
StillThere(s, doc) == systems[s] # Gone /\ systems[s].id = doc.id

\* What a save of it, where only the fields in the stub have changed, leaves of
\* one that was removed.
PutBack(doc, list) ==
    stubs' = {d \in stubs : d.id # doc.id} \union {[id |-> doc.id, instances |-> list]}

\* The list of the stub there is, when the save leaves the list alone.
StubList(doc) ==
    IF \E d \in stubs : d.id = doc.id
    THEN (CHOOSE d \in stubs : d.id = doc.id).instances ELSE NoList

\* Each instance that is listed is there to be read.
Readable(doc) == IdsIn(doc.instances) \subseteq Alive

\* One that is gone has no name, one that is a stub may have none.
Unreadable(doc) == ~(IdsIn(doc.instances) \subseteq Whole)

\* Mutant of CommandsRefused: a system under development is taken for released
\* and the other way round.
CommandsRefusedDev(s, doc, commands) ==
    s \notin Released /\ doc.commands # NoCommands /\ doc.commands # commands

\* The commands of a released version must not differ from those it has.
CommandsRefused(s, doc, commands) ==
    s \in Released /\ doc.commands # NoCommands /\ doc.commands # commands
-----------------------------------------------------------------------------
(***************************************************************************)
(* SystemListAPI.post: there is no yield while it holds system_lock, and   *)
(* Bartender may remove the system between what it does.                   *)
(***************************************************************************)

\* The instances it names.
NamedBy(p) == IF p.instances = {} THEN {"default"} ELSE p.instances

\* find_unique: a stub has no name to be found by.
PostFinds(p) ==
    /\ Free
    /\ post' = [stage |-> "found", body |-> p, copy |-> systems[p.system]]
    /\ UNCHANGED <<systems, stubs, created, instances, calls, rpc, ioloop, made, plugin>>

\* has_instance, on the instances listed.
PostReads ==
    /\ post.stage = "found" /\ post.copy # Gone
    /\ \/ Readable(post.copy) /\ post' = [post EXCEPT !.stage = "read"]
       \/ Unreadable(post.copy) /\ post' = NoPost
    /\ UNCHANGED <<systems, stubs, created, instances, calls, rpc, ioloop, made, plugin>>

\* ModelValidationError
PostRefused ==
    /\ post.stage = "found"
    /\ IF post.copy = Gone
       THEN post.body.instances = {} /\ post.body.max_instances \notin {0, 1}
       ELSE CommandsRefused(post.body.system, post.copy, post.body.commands)
    /\ post' = NoPost
    /\ UNCHANGED <<systems, stubs, created, instances, calls, rpc, ioloop, made, plugin>>

\* The instances named, each with the document old has for it or a new one.
Registered(old, named, new) ==
    /\ new \in [named \ NamesIn(old) -> Unborn]
    /\ \A m, n \in DOMAIN new : new[m] = new[n] => m = n

Relisted(old, named, new) ==
    [n \in Names |-> IF n \notin named THEN NoId
                     ELSE IF n \in DOMAIN new THEN new[n] ELSE old[n]]

Born(ids) == [i \in Ids |-> IF i \in ids THEN "INITIALIZING" ELSE instances[i]]

\* _create_new_system and deep_save
PostNew ==
    LET p == post.body
        named == NamedBy(p)
        max == IF p.max_instances = 0 \/ p.instances = {}
               THEN Cardinality(named) ELSE p.max_instances
    IN  /\ post.stage = "found" /\ post.copy = Gone
        /\ p.instances # {} \/ p.max_instances \in {0, 1}
        /\ \E new \in [named -> Unborn] :
               /\ Registered(NoList, named, new)
               /\ instances' = Born({new[n] : n \in named})
               /\ systems' = [systems EXCEPT ![p.system] =
                      [id |-> created, commands |-> p.commands, max_instances |-> max,
                       instances |-> Relisted(NoList, named, new)]]
        /\ created' = created + 1
        /\ post' = NoPost
        /\ UNCHANGED <<stubs, calls, rpc, ioloop, made, plugin>>

\* Mutant of PostAgain: every instance is given a new document.
PostAgainAnew ==
    LET p == post.body
        named == NamedBy(p)
    IN  /\ post.stage = "read"
        /\ ~CommandsRefused(p.system, post.copy, p.commands)
        /\ StillThere(p.system, post.copy)
        /\ \E new \in [named -> Unborn] :
               /\ Registered(NoList, named, new)
               /\ instances' = Born({new[n] : n \in named})
               /\ systems' = [systems EXCEPT ![p.system].commands = p.commands,
                                             ![p.system].instances = Relisted(NoList, named, new)]
        /\ post' = NoPost
        /\ UNCHANGED <<stubs, created, calls, rpc, ioloop, made, plugin>>

\* _update_existing_system and deep_save; an instance that is no longer named
\* leaves the list, its document stays.
PostAgain ==
    LET p == post.body
        old == post.copy.instances
        named == NamedBy(p)
    IN  /\ post.stage = "read"
        /\ ~CommandsRefused(p.system, post.copy, p.commands)
        /\ \E new \in [named \ NamesIn(old) -> Unborn] :
               /\ Registered(old, named, new)
               /\ instances' = Born({new[n] : n \in DOMAIN new})
               /\ \/ /\ StillThere(p.system, post.copy)
                     /\ systems' = [systems EXCEPT
                            ![p.system].commands = p.commands,
                            ![p.system].instances = Relisted(old, named, new)]
                     /\ UNCHANGED stubs
                  \/ /\ ~StillThere(p.system, post.copy)
                     /\ PutBack(post.copy, Relisted(old, named, new))
                     /\ UNCHANGED systems
        /\ post' = NoPost
        /\ UNCHANGED <<created, calls, rpc, ioloop, made, plugin>>
-----------------------------------------------------------------------------
(***************************************************************************)
(* The frame of a handler that may wait for Bartender.                     *)
(***************************************************************************)

Begin(h, call) ==
    /\ Free
    /\ calls[h].stage = "idle" /\ rpc[h].stage = "none"
    /\ calls' = [calls EXCEPT ![h] = call]
    /\ ioloop' = h

ByClient == made < MaxCalls /\ made' = made + 1

Running(h, kind) == ioloop = h /\ calls[h].kind = kind /\ calls[h].ops # <<>>

\* The next operation, once this one is done, with what it made of the copy.
Step(h, copy) ==
    /\ calls' = [calls EXCEPT ![h].ops = Tail(@), ![h].copy = copy]
    /\ UNCHANGED ioloop

\* The handler answers, with a result or with what it raised.
End(h) ==
    /\ calls' = [calls EXCEPT ![h] = Idle]
    /\ ioloop' = NoHandler

\* thrift_context connects, the call goes out, and the handler waits.  What it
\* has read of the list is stale from then on.
Ask(h, what, of) ==
    \/ /\ calls' = [calls EXCEPT ![h].stage = "waiting", ![h].ops = Tail(@),
                                 ![h].read = IF @ = "no" THEN "no" ELSE "stale"]
       /\ rpc' = [rpc EXCEPT ![h] = [stage |-> "sent", what |-> what, of |-> of]]
       /\ ioloop' = NoHandler
    \/ /\ "unreachable" \in Surroundings
       /\ End(h)
       /\ UNCHANGED rpc

\* Bartender has answered, and the handler goes on.
Resume(h) ==
    /\ Free
    /\ calls[h].stage = "waiting" /\ rpc[h].stage = "answered"
    /\ calls' = [calls EXCEPT ![h].stage = "running"]
    /\ rpc' = [rpc EXCEPT ![h] = NoRpc]
    /\ ioloop' = h
    /\ UNCHANGED <<systems, stubs, created, instances, post, made, plugin>>

\* The answer does not come: a timeout, or a connection that broke.
Lost(h) ==
    /\ "losses" \in Surroundings
    /\ Free
    /\ calls[h].stage = "waiting"
    /\ calls' = [calls EXCEPT ![h] = Idle]
    /\ rpc' = [rpc EXCEPT ![h] = IF @.stage = "answered" THEN NoRpc ELSE @]
    /\ UNCHANGED <<systems, stubs, created, instances, post, ioloop, made, plugin>>

\* No operation is left.
Finished(h) ==
    /\ ioloop = h /\ calls[h].ops = <<>>
    /\ End(h)
    /\ UNCHANGED <<systems, stubs, created, instances, post, rpc, made, plugin>>
-----------------------------------------------------------------------------
(***************************************************************************)
(* SystemAPI.patch: what it reads after a wait is what it loaded before.   *)
(***************************************************************************)

AcceptSystemPatch(h, s, ops) ==
    /\ systems[s] # Gone
    /\ Begin(h, [stage |-> "running", kind |-> "system", of |-> s,
                 copy |-> systems[s], read |-> "no", ops |-> ops])
    /\ ByClient
    /\ UNCHANGED <<systems, stubs, created, instances, post, rpc, plugin>>

\* Mutant of ReadsList: nobody asks for the names.
ReadsListBlindly(h) ==
    /\ Running(h, "system") /\ calls[h].read = "no"
    /\ Head(calls[h].ops).kind \in {"commands", "text", "add"}
    /\ calls' = [calls EXCEPT ![h].read = "yes"]
    /\ UNCHANGED <<systems, stubs, created, instances, post, rpc, ioloop, made, plugin>>

\* instance_names, or the clean of a save, asks for the names of the instances
\* listed, unless the copy has them from an operation before.
ReadsList(h) ==
    /\ Running(h, "system") /\ calls[h].read = "no"
    /\ Head(calls[h].ops).kind \in {"commands", "text", "add"}
    /\ \/ /\ Readable(calls[h].copy)
          /\ calls' = [calls EXCEPT ![h].read = "yes"]
          /\ UNCHANGED ioloop
       \/ Unreadable(calls[h].copy) /\ End(h)
    /\ UNCHANGED <<systems, stubs, created, instances, post, rpc, made, plugin>>

ReplaceCommands(h) ==
    LET s == calls[h].of
        copy == calls[h].copy
        commands == Head(calls[h].ops).value
    IN  /\ Running(h, "system") /\ Head(calls[h].ops).kind = "commands"
        /\ \/ /\ ~CommandsRefused(s, copy, commands) /\ calls[h].read # "no"
              /\ Step(h, [copy EXCEPT !.commands = commands])
              /\ \/ /\ StillThere(s, copy)
                    /\ systems' = [systems EXCEPT ![s].commands = commands]
                    /\ UNCHANGED stubs
                 \/ /\ ~StillThere(s, copy)
                    /\ PutBack(copy, StubList(copy))
                    /\ UNCHANGED systems
           \/ /\ CommandsRefused(s, copy, commands)
              /\ End(h)
              /\ UNCHANGED <<systems, stubs>>
        /\ UNCHANGED <<created, instances, post, rpc, made, plugin>>

\* Mutant of Full: the instance about to be added is not counted.
FullBeyond(doc) == -1 < doc.max_instances /\ doc.max_instances < Cardinality(NamesIn(doc.instances))

Full(doc) == -1 < doc.max_instances /\ doc.max_instances < Cardinality(NamesIn(doc.instances)) + 1

AddRefused(doc, name) == Full(doc) \/ name \in NamesIn(doc.instances)

\* The list is written whole, as it is in the copy.
AddInstance(h) ==
    LET s == calls[h].of
        copy == calls[h].copy
        name == Head(calls[h].ops).value
    IN  /\ Running(h, "system") /\ Head(calls[h].ops).kind = "add"
        /\ calls[h].read # "no"
        /\ \/ /\ ~AddRefused(copy, name)
              /\ \E i \in Unborn :
                     LET listed == [copy.instances EXCEPT ![name] = i]
                     IN  /\ instances' = Born({i})
                         /\ Step(h, [copy EXCEPT !.instances = listed])
                         /\ \/ /\ StillThere(s, copy)
                               /\ systems' = [systems EXCEPT ![s].instances = listed]
                               /\ UNCHANGED stubs
                            \/ /\ ~StillThere(s, copy)
                               /\ PutBack(copy, listed)
                               /\ UNCHANGED systems
           \/ /\ AddRefused(copy, name)
              /\ End(h)
              /\ UNCHANGED <<systems, stubs, instances>>
        /\ UNCHANGED <<created, post, rpc, made, plugin>>

\* Description, display name, icon and metadata are saved at once; a text that
\* is the old one is no change.
ReplaceText(h) ==
    LET s == calls[h].of  copy == calls[h].copy
    IN  /\ Running(h, "system") /\ Head(calls[h].ops).kind = "text"
        /\ calls[h].read # "no"
        /\ Step(h, copy)
        /\ UNCHANGED stubs \/ (~StillThere(s, copy) /\ PutBack(copy, StubList(copy)))
        /\ UNCHANGED <<systems, created, instances, post, rpc, made, plugin>>

Reload(h) ==
    /\ Running(h, "system") /\ Head(calls[h].ops).kind = "reload"
    /\ Ask(h, "reload", calls[h].copy.id)
    /\ UNCHANGED <<systems, stubs, created, instances, post, made, plugin>>

\* What came before it in the body stays saved.
Unsupported(h) ==
    /\ \/ Running(h, "system") /\ Head(calls[h].ops).kind = "unsupported"
       \/ Running(h, "instance") /\ Head(calls[h].ops) = "unsupported"
    /\ End(h)
    /\ UNCHANGED <<systems, stubs, created, instances, post, rpc, made, plugin>>

\* SystemAPI.delete, which leaves the deleting to Bartender.
AcceptDelete(h, s) ==
    /\ systems[s] # Gone
    /\ Begin(h, [stage |-> "running", kind |-> "delete", of |-> s,
                 copy |-> systems[s], read |-> "no", ops |-> <<"remove">>])
    /\ ByClient
    /\ UNCHANGED <<systems, stubs, created, instances, post, rpc, plugin>>

RemoveSystem(h) ==
    /\ Running(h, "delete")
    /\ Ask(h, "remove", calls[h].copy.id)
    /\ UNCHANGED <<systems, stubs, created, instances, post, made, plugin>>
-----------------------------------------------------------------------------
(***************************************************************************)
(* InstanceAPI.                                                            *)
(***************************************************************************)

AcceptInstancePatch(h, i, ops) ==
    /\ i \in Alive
    /\ Begin(h, [stage |-> "running", kind |-> "instance", of |-> i,
                 copy |-> instances[i], read |-> "no", ops |-> ops])
    /\ UNCHANGED <<systems, stubs, created, instances, post, rpc>>

AskStatus(h) ==
    /\ Running(h, "instance")
    /\ Head(calls[h].ops) \in {"INITIALIZING", "STOPPING", "STARTING"}
    /\ Ask(h, Head(calls[h].ops), calls[h].of)
    /\ UNCHANGED <<systems, stubs, created, instances, post, made, plugin>>

\* Mutant of SavesStatus: the whole document is written.
SavesWhole(h) ==
    /\ instances' = [instances EXCEPT ![calls[h].of] =
           IF Head(calls[h].ops) = "heartbeat" THEN calls[h].copy ELSE Head(calls[h].ops)]
    /\ Step(h, calls[h].copy)

\* Mutant of SavesStatus: the operation is taken for a status.
SavesOperation(h) ==
    /\ instances' = [instances EXCEPT ![calls[h].of] = Head(calls[h].ops)]
    /\ Step(h, calls[h].copy)

\* What an instance.save() makes of a status, where the handler knows of one: a
\* heartbeat leaves it alone, and a status the handler has read is no change.
\* A document that was deleted is put back with what has changed, if anything
\* has; what such a stub says of the status is not followed.
SavedAs(status, op, known) ==
    {new \in Statuses \union {"gone", "stub"} :
        \/ status \in Statuses /\ new = IF op \in {"heartbeat", known} THEN status ELSE op
        \/ status = "stub" /\ new = "stub"
        \/ status = "gone" /\ new = "stub" /\ op # known
        \/ status = "gone" /\ new = "gone" /\ op # "heartbeat" /\ known \in {op, "stub"}}

SavesStatus(h) ==
    LET op == Head(calls[h].ops)
        known == calls[h].copy
    IN  /\ \E new \in SavedAs(instances[calls[h].of], op, known) :
               instances' = [instances EXCEPT ![calls[h].of] = new]
        /\ Step(h, IF op = "heartbeat" THEN known ELSE op)

SaveInstance(h) ==
    /\ Running(h, "instance")
    /\ Head(calls[h].ops) \in {"heartbeat", "RUNNING", "STOPPED"}
    /\ SavesStatus(h)
    /\ UNCHANGED <<systems, stubs, created, post, rpc, made, plugin>>

\* Mongo takes a deleted Instance out of the lists that name it.
Without(list, i) == [n \in Names |-> IF list[n] = i THEN NoId ELSE list[n]]

Unlisted(doc, i) == [doc EXCEPT !.instances = Without(@, i)]

DeleteInstance(i) ==
    /\ Free
    /\ i \in Alive
    /\ instances' = [instances EXCEPT ![i] = "gone"]
    /\ systems' = [s \in Systems |-> IF systems[s] = Gone THEN Gone ELSE Unlisted(systems[s], i)]
    /\ stubs' = {Unlisted(d, i) : d \in stubs}
    /\ UNCHANGED <<created, post, calls, rpc, ioloop, made, plugin>>
-----------------------------------------------------------------------------
(***************************************************************************)
(* Bartender (external): it writes the status, then tells the plugin, then *)
(* answers, whether anyone still listens or not.                           *)
(***************************************************************************)

Answers(h) ==
    rpc' = [rpc EXCEPT ![h] =
        IF calls[h].stage = "waiting" THEN [@ EXCEPT !.stage = "answered"] ELSE NoRpc]

BartenderWrites(h) ==
    /\ rpc[h].stage = "sent"
    /\ rpc[h].what \in {"INITIALIZING", "STOPPING", "STARTING"}
    /\ IF rpc[h].of \in Alive
       THEN /\ instances' = [instances EXCEPT ![rpc[h].of] =
                   IF @ = "stub" THEN @ ELSE rpc[h].what]
            /\ rpc' = [rpc EXCEPT ![h].stage = "written"]
       ELSE Answers(h) /\ UNCHANGED instances
    /\ UNCHANGED <<systems, stubs, created, post, calls, ioloop, made, plugin>>

BartenderTells(h) ==
    /\ rpc[h].stage = "written"
    /\ Len(plugin[rpc[h].of].told) < MaxMessages
    /\ plugin' = [plugin EXCEPT ![rpc[h].of].told =
           Append(@, IF rpc[h].what = "STOPPING" THEN "STOPPED" ELSE "RUNNING")]
    /\ Answers(h)
    /\ UNCHANGED <<systems, stubs, created, instances, post, calls, ioloop, made>>

\* Reloading changes no document; removing takes what the system lists then.
BartenderReloads(h) ==
    /\ rpc[h].stage = "sent" /\ rpc[h].what = "reload"
    /\ Answers(h)
    /\ UNCHANGED <<systems, stubs, created, instances, post, calls, ioloop, made, plugin>>

BartenderRemoves(h) ==
    /\ rpc[h].stage = "sent" /\ rpc[h].what = "remove"
    /\ LET meant == {s \in Existing : systems[s].id = rpc[h].of}
           left == {d \in stubs : d.id = rpc[h].of}
           listed == (UNION {IdsIn(systems[s].instances) : s \in meant})
                         \union (UNION {IdsIn(d.instances) : d \in left})
       IN  /\ systems' = [s \in Systems |-> IF s \in meant THEN Gone ELSE systems[s]]
           /\ stubs' = stubs \ left
           /\ instances' = [i \in Ids |-> IF i \in listed THEN "gone" ELSE instances[i]]
    /\ Answers(h)
    /\ UNCHANGED <<created, post, calls, ioloop, made, plugin>>
-----------------------------------------------------------------------------
(***************************************************************************)
(* A plugin (external) does what it is told, and reports each time before  *)
(* it goes on.                                                             *)
(***************************************************************************)

Reporting(i) ==
    \/ plugin[i].owes # "nothing"
    \/ \E h \in Calling("instance") :
           /\ calls[h].of = i
           /\ \E k \in DOMAIN calls[h].ops : calls[h].ops[k] \in {"RUNNING", "STOPPED"}

PluginObeys(i) ==
    /\ plugin[i].told # <<>> /\ ~Reporting(i)
    /\ plugin' = [plugin EXCEPT ![i] =
           [told |-> Tail(@.told), owes |-> Head(@.told), state |-> Head(@.told)]]
    /\ UNCHANGED <<systems, stubs, created, instances, post, calls, rpc, ioloop, made>>

\* When its document is gone it is answered 404.
PluginReports(h, i) ==
    /\ plugin[i].owes # "nothing"
    /\ \/ AcceptInstancePatch(h, i, <<plugin[i].owes>>)
       \/ i \notin Alive /\ UNCHANGED <<systems, stubs, created, instances, post, calls, rpc, ioloop, made>>
    /\ plugin' = [plugin EXCEPT ![i].owes = "nothing"]
    /\ UNCHANGED made
-----------------------------------------------------------------------------

HandlerNext(h) ==
    \/ \E body \in SystemBodies : AcceptSystemPatch(h, body[1], body[2])
    \/ \E s \in Systems : AcceptDelete(h, s)
    \/ \E i \in Ids :
           \/ \E ops \in InstanceBodies : AcceptInstancePatch(h, i, ops) /\ ByClient /\ UNCHANGED plugin
           \/ PluginReports(h, i)
    \/ ReadsList(h) \/ ReplaceCommands(h) \/ AddInstance(h) \/ ReplaceText(h) \/ Reload(h)
    \/ RemoveSystem(h) \/ AskStatus(h) \/ SaveInstance(h) \/ Unsupported(h)
    \/ Resume(h) \/ Lost(h) \/ Finished(h)

BartenderNext(h) ==
    BartenderWrites(h) \/ BartenderTells(h) \/ BartenderReloads(h) \/ BartenderRemoves(h)

PostNext ==
    (\E p \in Posts : PostFinds(p)) \/ PostReads \/ PostRefused \/ PostNew \/ PostAgain

Next ==
    \/ PostNext
    \/ \E h \in Handlers : HandlerNext(h) \/ BartenderNext(h)
    \/ \E i \in Ids : DeleteInstance(i) \/ PluginObeys(i)

Spec == Init /\ [][Next]_vars
-----------------------------------------------------------------------------
(***************************************************************************)
(* Correctness.                                                            *)
(***************************************************************************)

TypeOK ==
    /\ \A s \in Existing : systems[s] \in SystemDocs
    /\ \A d \in stubs : d \in [id : Nat, instances : Lists]
    /\ instances \in [Ids -> Statuses \union {"unborn", "gone", "stub"}]
    /\ post.stage \in {"none", "found", "read"}
    /\ post.stage = "none" \/ (ioloop = NoHandler /\ post.copy \in SystemDocs \union {Gone})
    /\ ioloop \in Handlers \union {NoHandler}
    /\ \A h \in Handlers :
           /\ calls[h].stage \in {"idle", "running", "waiting"}
           /\ calls[h].stage = "running" <=> ioloop = h
           /\ rpc[h].stage \in {"none", "sent", "written", "answered"}
           /\ calls[h].stage = "waiting" => rpc[h].stage # "none"
    /\ \A i \in Ids :
           /\ plugin[i].told \in Seq({"RUNNING", "STOPPED"})
           /\ plugin[i].owes \in {"nothing", "RUNNING", "STOPPED"}
           /\ plugin[i].state \in {"new", "RUNNING", "STOPPED"}

\* A PATCH that has waited since it read the list.
ReadBeforeWait(h) ==
    /\ calls[h].stage = "running" /\ calls[h].kind = "system"
    /\ calls[h].read = "stale"

\* An instance that is removed is on no list from then on, and no registration
\* and no PATCH that overlaps with the removal puts it back: but for a PATCH
\* that had read the list before a wait, which writes what it read.
RemovedStayUnlisted ==
    [][\A s \in Systems : systems'[s] # Gone =>
           \A i \in IdsIn(systems'[s].instances) : instances'[i] = "gone" =>
               \/ systems[s] # Gone /\ i \in IdsIn(systems[s].instances) /\ instances[i] = "gone"
               \/ \E h \in Handlers : ReadBeforeWait(h) /\ calls[h].of = s]_vars

WithinLimit(doc) ==
    doc = Gone \/ doc.max_instances = -1
        \/ Cardinality(NamesIn(doc.instances)) <= doc.max_instances

\* No PATCH takes a system past the number of instances it allows, however it
\* waits and overlaps with others: only a POST, which looks at no limit, does.
LimitKeptByPatch ==
    [][\A s \in Systems :
           WithinLimit(systems[s]) /\ ~WithinLimit(systems'[s]) => ioloop = NoHandler]_vars

\* A PATCH that has waited, with a copy that others have outdated.
Outdated(h) ==
    /\ calls[h].stage = "running" /\ calls[h].kind = "system"
    /\ StillThere(calls[h].of, calls[h].copy)
    /\ calls[h].copy # systems[calls[h].of]

\* The commands of a released version stay as they are until it is removed,
\* unless a PATCH comes back from a wait with others than these: those it read
\* before there were any, or those another such PATCH has replaced.
ReleasedCommandsFixed ==
    [][\A s \in Released \intersect Existing :
           systems[s].commands # NoCommands /\ systems'[s] # Gone =>
               \/ systems'[s].commands = systems[s].commands
               \/ \E h \in Handlers :
                      /\ Outdated(h) /\ calls[h].of = s
                      /\ calls[h].copy.commands # systems[s].commands]_vars

\* A plugin that registers again keeps the documents of its instances, to
\* whose ids it and its queues are bound, unless such a PATCH puts the list
\* back to what it was.
IdentityKept ==
    [][\A s \in Existing : systems'[s] # Gone =>
           \A n \in NamesIn(systems[s].instances) \intersect NamesIn(systems'[s].instances) :
               \/ systems'[s].instances[n] = systems[s].instances[n]
               \/ \E h \in Handlers : Outdated(h) /\ calls[h].of = s]_vars

\* When nobody is at work on an instance any more, its status is what the
\* plugin was last told to be and is: no handler that waited for Bartender
\* writes back the status it had read.  Of a stub nothing is said.
StatusSettles ==
    \A i \in Whole :
        /\ plugin[i].told = <<>> /\ ~Reporting(i)
        /\ \A h \in Handlers :
               /\ rpc[h].stage \in {"sent", "written"}
               /\ rpc[h].what \in {"INITIALIZING", "STOPPING", "STARTING"}
               => rpc[h].of # i
        => instances[i] = (IF plugin[i].state = "new" THEN "INITIALIZING" ELSE plugin[i].state)

\* SystemAPI.delete "will always delete the system regardless of whether the
\* Bartender operation succeeds": when it ends, the documents it found are not
\* there any more.
DeleteDeletes ==
    [][\A h \in Calling("delete") : calls'[h].stage = "idle" =>
           \A s \in Systems : systems'[s] # Gone => systems'[s].id # calls[h].copy.id]_vars

=============================================================================
