-------------------------- MODULE MCSystemCatalog --------------------------
(***************************************************************************)
(* The instance of SystemCatalog that TLC checks: a released system of up  *)
(* to two instances.                                                       *)
(***************************************************************************)
EXTENDS SystemCatalog, TLC

MCNames == {"default", "other"}
MCSystems == {"echo"}
MCCommandLists == {"none", "say", "shout"}

New(commands, named, max) ==
    [system |-> "echo", commands |-> commands, instances |-> named, max_instances |-> max]

MCPosts ==
    {New("none", {}, 0), New("say", {}, 3), New("shout", {"default", "other"}, 2)}

SystemOp(kind, value) == [kind |-> kind, value |-> value]

\* PATCHes that read the list before they wait, and after it.
MCSystemBodies ==
    {<<"echo", <<[kind |-> "reload"], SystemOp("commands", "shout")>> >>,
     <<"echo", <<[kind |-> "text"], [kind |-> "reload"], SystemOp("add", "other")>> >>,
     <<"echo", <<[kind |-> "reload"], SystemOp("add", "other"), [kind |-> "unsupported"]>> >>}

MCInstanceBodies ==
    {<<"INITIALIZING", "heartbeat">>, <<"STOPPING", "unsupported">>}

MCSymmetry == Permutations(Handlers) \union Permutations(Ids)

=============================================================================
