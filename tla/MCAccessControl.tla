-------------------------- MODULE MCAccessControl --------------------------
(***************************************************************************)
(* The instance of AccessControl that TLC checks: the roles of a fresh     *)
(* database, and one more.                                                 *)
(***************************************************************************)
EXTENDS AccessControl

MCRoles == {"bg-admin", "bg-anonymous", "role"}
MCProtected == {"bg-admin", "bg-anonymous"}
MCPermissions == {"bg-all", "bg-role-update"}
MCUsers == {"admin", "anonymous"}

Op(path, operation, value) == [path |-> path, operation |-> operation, value |-> value]

MCFirstRoles ==
    [r \in MCRoles |->
        CASE r = "bg-admin" -> [permissions |-> [p \in MCPermissions |-> IF p = "bg-all" THEN 1 ELSE 0],
                                roles |-> NoBag(MCRoles)]
          [] r = "bg-anonymous" -> [permissions |-> NoBag(MCPermissions), roles |-> NoBag(MCRoles)]
          [] OTHER -> Gone]

MCFirstUsers ==
    [u \in MCUsers |->
        [r \in MCRoles |->
            IF <<u, r>> \in {<<"admin", "bg-admin">>, <<"anonymous", "bg-anonymous">>}
            THEN 1 ELSE 0]]

\* No body nests a role in itself.
Nestings ==
    {<<r, <<Op("/roles", "add", <<n>>)>> >> : r \in MCRoles, n \in MCRoles}

MCRoleBodies ==
    {b \in Nestings : b[1] # b[2][1].value[1]}
        \union {<<r, <<Op("/roles", "set", <<"role">>), Op("/roles", "remove", <<"role">>),
                       Op("/description", "update", <<"text">>)>> >> : r \in {"bg-admin", "bg-anonymous"}}
        \union {<<"role", <<Op("/roles", "set", <<"bg-admin", "bg-anonymous">>),
                            Op("/permissions", "remove", <<"bg-role-update">>)>> >>,
                <<"bg-anonymous", <<Op("/permissions", "add", <<"bg-role-update">>)>> >>,
                <<"bg-anonymous", <<Op("/permissions", "set", <<>>), Op("unsupported", "add", <<"text">>)>> >>}

\* Every body that nests one role in another, in itself too.
MCAnyNesting == Nestings

MCNewRoles ==
    {<<"role", {"bg-role-update"}, ns>> : ns \in {{}, {"bg-anonymous"}}}

MCNewUsers ==
    {<<"anonymous", {"bg-anonymous", "role"}>>, <<"admin", {"bg-admin"}>>}

MCUserBodies ==
    {<<"anonymous", <<Op("/roles", "add", <<"role">>)>> >>,
     <<"anonymous", <<Op("/roles", "remove", <<"bg-anonymous">>)>> >>,
     <<"admin", <<Op("/roles", "set", <<"role">>)>> >>}

=============================================================================
