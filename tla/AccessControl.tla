--------------------------- MODULE AccessControl ---------------------------
(***************************************************************************)
(* Roles, users and tokens of brew-view: controllers/roles_api.py,         *)
(* users_api.py and token_api.py, authorization.py, and the cookie of      *)
(* base_handler.py.                                                        *)
(*                                                                         *)
(* A role holds permissions and nests other roles; a user has roles.  Who  *)
(* does not log in acts as the anonymous principal, which brew-view keeps  *)
(* in memory with its permissions worked out.  A login freezes the user's  *)
(* permissions in a refresh token, from which access tokens are made.      *)
(* Lists in Mongo (permissions, nested roles, the roles of a user) may     *)
(* hold a value more than once: they are bags, [values -> copies].         *)
(***************************************************************************)
EXTENDS Integers, FiniteSets, Sequences

CONSTANTS
    Roles,          \* names a role may have
    Protected,      \* those RoleAPI.delete refuses: bg-admin, bg-anonymous...
    Permissions,    \* the permissions of this instance, "bg-all" among them
    Users,          \* user names
    Anonymous,      \* the user whose roles a guest has
    Tokens,         \* ids of refresh tokens
    RoleBodies,     \* <<r, ops>>: bodies PATCHed to role r
    UserBodies,     \* <<u, ops>>: bodies PATCHed to user u
    NewRoles,       \* <<r, permissions, nested roles>>: roles POSTed
    NewUsers,       \* <<u, roles>>: users POSTed
    Auth,           \* config.auth: "open", "locked" (no guests) or "guest"
    Lifetime,       \* of a refresh token, in ticks
    MaxCopies,      \* copies of a value in one list (bound)
    Gone,           \* no document
    FirstRoles,     \* what the database holds at first
    FirstUsers

\* "set" has a list of names as its value, any other operation one name.
PatchOps ==
    {op \in [path : {"/permissions", "/roles", "/description", "unsupported"},
             operation : {"add", "remove", "set", "update", "unsupported"},
             value : Seq(STRING)] :
        op.operation # "set" => Len(op.value) = 1}

\* The roles nested directly in r.
Nested(docs, r) ==
    IF docs[r] = Gone THEN {} ELSE {n \in Roles : docs[r].roles[n] > 0}

\* Among any roles, one nests none of the others and not itself.
Acyclic(docs) ==
    \A S \in (SUBSET Roles) \ {{}} : \E r \in S : Nested(docs, r) \intersect S = {}

Bags(Values) == [Values -> 0 .. MaxCopies]
RoleDocs == [permissions : Bags(Permissions), roles : Bags(Roles)]

ASSUME AccessAssumption ==
    /\ IsFiniteSet(Roles)
    /\ Protected \subseteq Roles
    /\ "bg-all" \in Permissions
    /\ Anonymous \in Users
    /\ Auth \in {"open", "locked", "guest"}
    /\ RoleBodies \subseteq Roles \X Seq(PatchOps)
    /\ UserBodies \subseteq Users \X Seq(PatchOps)
    /\ NewRoles \subseteq Roles \X (SUBSET Permissions) \X (SUBSET Roles)
    /\ NewUsers \subseteq Users \X (SUBSET Roles)
    /\ Lifetime \in Nat \ {0}
    /\ MaxCopies \in Nat \ {0}
    /\ Gone \notin RoleDocs \union Bags(Roles) \union Users
    /\ FirstRoles \in [Roles -> RoleDocs \union {Gone}]
    /\ FirstUsers \in [Users -> Bags(Roles) \union {Gone}]
    /\ Acyclic(FirstRoles)
    /\ \A r \in Roles, n \in Roles : n \in Nested(FirstRoles, r) => FirstRoles[n] # Gone
    /\ \A u \in Users, n \in Roles :
           FirstUsers[u] # Gone /\ FirstRoles[n] = Gone => FirstUsers[u][n] = 0

VARIABLES
    roles,          \* Mongo: the Role documents
    users,          \* Mongo: the Principal documents (their roles)
    tokens,         \* a login, then the refresh and access token it made
    anonymous       \* brew_view.anonymous_principal.permissions

vars == <<roles, users, tokens, anonymous>>

Members(bag) == {x \in DOMAIN bag : bag[x] > 0}
NoBag(Values) == [x \in Values |-> 0]

ExistingRoles == {r \in Roles : roles[r] # Gone}
ExistingUsers == {u \in Users : users[u] # Gone}
-----------------------------------------------------------------------------
(***************************************************************************)
(* Nesting.                                                                *)
(***************************************************************************)

\* What a walk through nested roles meets from rs on: the least set that
\* holds rs and is closed under nesting.
Reach(docs, rs) ==
    {r \in Roles :
        \A S \in SUBSET Roles :
            rs \subseteq S /\ (\A s \in S : Nested(docs, s) \subseteq S)
                => r \in S}

Below(docs, r) == Reach(docs, Nested(docs, r))

\* A walk from rs comes back to where it was, and so never ends.
Endless(docs, rs) == \E r \in Reach(docs, rs) : r \in Below(docs, r)

\* Mutant of CycleDetected: only the roles nested directly are compared.
CycleDetectedNear(base, new) == base \in Nested(roles, new)

\* ensure_no_cycles raises "Cycle Detected!", or recurses for ever on a cycle
\* that is already there.  It looks at the roles below new, never at new.
CycleDetected(base, new) ==
    base \in Below(roles, new) \/ Endless(roles, {new})

\* Mutant of Coalesced: names of roles are added to the permissions.
CoalescedNames(docs, rs) == Reach(docs, rs)

\* coalesce_permissions
Coalesced(docs, rs) ==
    UNION {Members(docs[r].permissions) :
              r \in {q \in Reach(docs, rs) : docs[q] # Gone}}

\* The permissions anonymous_principal() works out.
AnonymousRoles == IF users[Anonymous] = Gone THEN {} ELSE Members(users[Anonymous])

AnonymousPermissions(docs) ==
    IF Auth = "guest" THEN Coalesced(docs, AnonymousRoles)
    ELSE IF Auth = "locked" THEN {}
    ELSE {"bg-all"}

\* It raises when the guest's roles recurse, or when there is no such user.
AnonymousFails(docs) ==
    Auth = "guest" /\ (Endless(docs, AnonymousRoles) \/ users[Anonymous] = Gone)
-----------------------------------------------------------------------------
(***************************************************************************)
(* Who may call.                                                           *)
(***************************************************************************)

\* check_permission
Allows(permissions, required) ==
    "bg-all" \in permissions \/ required \in permissions

\* A refresh token as _refresh_token and the cookie see it: they differ at the
\* very instant of expiry.
Refreshable(t) == tokens[t].state = "issued" /\ tokens[t].age < Lifetime
CookieValid(t) ==
    /\ tokens[t].state = "issued"
    /\ tokens[t].cookie
    /\ tokens[t].age <= Lifetime
    /\ tokens[t].user \in ExistingUsers
    /\ ~Endless(roles, Members(users[tokens[t].user]))

\* get_current_user: a bearer token, the cookie, or nothing.
Callers ==
    {anonymous}
        \union {tokens[t].permissions : t \in {u \in Tokens : tokens[u].access = "valid"}}
        \union {Coalesced(roles, Members(users[tokens[t].user])) :
                    t \in {u \in Tokens : CookieValid(u)}}

Authenticated(required) == \E p \in Callers : Allows(p, required)
-----------------------------------------------------------------------------
(***************************************************************************)
(* One PATCH body on a list, as a function of the list before it.          *)
(***************************************************************************)

Copies(value, x) == {i \in DOMAIN value : value[i] = x}
Positions(ops, path) == {i \in DOMAIN ops : ops[i].path = path}

\* How many copies of x the list holds when the loop has come to operation i:
\* those of the last "set" or of the document, with what came after it.
CopiesBefore(bag, ops, path, i, x) ==
    LET before == {k \in Positions(ops, path) : k < i}
        sets == {k \in before : ops[k].operation = "set"}
        since == {k \in before : \A s \in sets : s < k}
        count(operation) == Cardinality(
            {k \in since : ops[k].operation = operation /\ ops[k].value[1] = x})
        last == {s \in sets : \A k \in sets : k <= s}
        start == IF sets = {} THEN bag[x]
                 ELSE Cardinality(UNION {Copies(ops[s].value, x) : s \in last})
    IN  start + count("add") - count("remove")

Patched(bag, ops, path) ==
    [x \in DOMAIN bag |-> CopiesBefore(bag, ops, path, Len(ops) + 1, x)]

\* "add", "remove" or "set" with a value that cannot be: an operation that is
\* none of these, a name that does not exist, a removal of what is not there.
ListOpRaises(bag, ops, path, i, known) ==
    \/ ops[i].operation \notin {"add", "remove", "set"}
    \/ \E k \in DOMAIN ops[i].value : ops[i].value[k] \notin known
    \/ /\ ops[i].operation = "remove"
       /\ CopiesBefore(bag, ops, path, i, ops[i].value[1]) = 0

\* RoleAPI.patch raises at operation i.
RoleOpRaises(r, ops, i) ==
    CASE ops[i].path = "/permissions" ->
             ListOpRaises(roles[r].permissions, ops, "/permissions", i, Permissions)
      [] ops[i].path = "/roles" ->
             \/ ListOpRaises(roles[r].roles, ops, "/roles", i, ExistingRoles)
             \/ /\ ops[i].operation \in {"add", "set"}
                /\ \E k \in DOMAIN ops[i].value : CycleDetected(r, ops[i].value[k])
      [] ops[i].path = "/description" -> ops[i].operation # "update"
      [] OTHER -> TRUE
-----------------------------------------------------------------------------
(***************************************************************************)
(* Roles.                                                                  *)
(***************************************************************************)

\* Mutant of PatchRole: the anonymous principal is left as it is.
PatchRoleOnly(r, ops) ==
    /\ roles[r] # Gone
    /\ Authenticated("bg-role-update")
    /\ \A i \in DOMAIN ops : ~RoleOpRaises(r, ops, i)
    /\ roles' = [roles EXCEPT ![r] =
           [permissions |-> Patched(@.permissions, ops, "/permissions"),
            roles |-> Patched(@.roles, ops, "/roles")]]
    /\ UNCHANGED <<users, tokens, anonymous>>

\* RoleAPI.patch: one save after all operations, none if one raises; then the
\* anonymous principal is worked out afresh, unless that fails.
PatchRole(r, ops) ==
    /\ roles[r] # Gone
    /\ Authenticated("bg-role-update")
    /\ \A i \in DOMAIN ops : ~RoleOpRaises(r, ops, i)
    /\ LET role == [permissions |-> Patched(roles[r].permissions, ops, "/permissions"),
                   roles |-> Patched(roles[r].roles, ops, "/roles")]
       IN  /\ role \in RoleDocs
           /\ roles' = [roles EXCEPT ![r] = role]
    /\ anonymous' = IF AnonymousFails(roles') THEN anonymous
                    ELSE AnonymousPermissions(roles')
    /\ UNCHANGED <<users, tokens>>

\* RolesAPI.post; a name that is taken is refused by the unique index.  The
\* new role has no id yet, so that ensure_no_cycles finds it equal to no other
\* and can at most recurse for ever.
PostRole(r, permissions, nested) ==
    /\ roles[r] = Gone
    /\ Authenticated("bg-role-create")
    /\ nested \subseteq ExistingRoles
    /\ \A n \in nested : ~Endless(roles, {n})
    /\ roles' = [roles EXCEPT ![r] =
           [permissions |-> [p \in Permissions |-> IF p \in permissions THEN 1 ELSE 0],
            roles |-> [n \in Roles |-> IF n \in nested THEN 1 ELSE 0]]]
    /\ UNCHANGED <<users, tokens, anonymous>>

\* Mongo takes a deleted role out of every list that names it.
Pulled(bag, r) == [bag EXCEPT ![r] = 0]

\* RoleAPI.delete
DeleteRole(r) ==
    /\ roles[r] # Gone
    /\ Authenticated("bg-role-delete")
    /\ r \notin Protected
    /\ roles' = [q \in Roles |->
           IF q = r \/ roles[q] = Gone THEN Gone
           ELSE [roles[q] EXCEPT !.roles = Pulled(@, r)]]
    /\ users' = [u \in Users |->
           IF users[u] = Gone THEN Gone ELSE Pulled(users[u], r)]
    /\ UNCHANGED <<tokens, anonymous>>
-----------------------------------------------------------------------------
(***************************************************************************)
(* Users.                                                                  *)
(***************************************************************************)

\* UserAPI.patch on the roles, for which even the user needs the permission.
PatchUser(u, ops) ==
    /\ users[u] # Gone
    /\ Authenticated("bg-user-update")
    /\ \A i \in DOMAIN ops :
           /\ ops[i].path = "/roles"
           /\ ~ListOpRaises(users[u], ops, "/roles", i, ExistingRoles)
    /\ Patched(users[u], ops, "/roles") \in Bags(Roles)
    /\ users' = [users EXCEPT ![u] = Patched(@, ops, "/roles")]
    /\ UNCHANGED <<roles, tokens, anonymous>>

\* Mutant of PostUser: the roles are taken by name, unseen.
PostUserUnseen(u, given) ==
    /\ users[u] = Gone
    /\ Authenticated("bg-user-create")
    /\ users' = [users EXCEPT ![u] = [r \in Roles |-> IF r \in given THEN 1 ELSE 0]]
    /\ UNCHANGED <<roles, tokens, anonymous>>

\* UsersAPI.post; a name that is taken is refused by the unique index.
PostUser(u, given) ==
    /\ users[u] = Gone
    /\ Authenticated("bg-user-create")
    /\ given \subseteq ExistingRoles
    /\ users' = [users EXCEPT ![u] = [r \in Roles |-> IF r \in given THEN 1 ELSE 0]]
    /\ UNCHANGED <<roles, tokens, anonymous>>

\* UserAPI.delete; the user's refresh tokens stay, and keep the id of a user
\* that is gone, whoever takes the name.
DeleteUser(u) ==
    /\ users[u] # Gone
    /\ Authenticated("bg-user-delete")
    /\ users' = [users EXCEPT ![u] = Gone]
    /\ tokens' = [t \in Tokens |->
           IF tokens[t].user = u /\ tokens[t].state # "none"
           THEN [tokens[t] EXCEPT !.user = Gone] ELSE tokens[t]]
    /\ UNCHANGED <<roles, anonymous>>
-----------------------------------------------------------------------------
(***************************************************************************)
(* Tokens.                                                                 *)
(***************************************************************************)

NoToken ==
    [state |-> "none", user |-> Anonymous, roles |-> {}, permissions |-> {},
     age |-> 0, cookie |-> FALSE, access |-> "none"]

\* generate_tokens: the roles the principal was loaded with, as they are now.
Issued(token, remember_me) ==
    [token EXCEPT !.state = "issued", !.roles = {},
                  !.permissions = Coalesced(roles, token.roles),
                  !.cookie = remember_me, !.access = "valid"]

Loaded(u) == [NoToken EXCEPT !.state = "verifying", !.user = u, !.roles = Members(users[u])]

\* It raises on a role that has been deleted and on roles that recurse.
IssueFails(token) ==
    \/ \E r \in token.roles : roles[r] = Gone
    \/ Endless(roles, token.roles)

\* TokenListAPI.post loads the principal, then verifies in another process.
Login(t, u) ==
    /\ tokens[t].state = "none"
    /\ users[u] # Gone
    /\ ~(Auth = "guest" /\ u = Anonymous)
    /\ tokens' = [tokens EXCEPT ![t] = Loaded(u)]
    /\ UNCHANGED <<roles, users, anonymous>>

\* A guest may log in without a password, hence without a wait.
GuestLogin(t, remember_me) ==
    /\ tokens[t].state = "none"
    /\ Auth = "guest"
    /\ users[Anonymous] # Gone
    /\ ~IssueFails(Loaded(Anonymous))
    /\ tokens' = [tokens EXCEPT ![t] = Issued(Loaded(Anonymous), remember_me)]
    /\ UNCHANGED <<roles, users, anonymous>>

Verified(t, remember_me) ==
    /\ tokens[t].state = "verifying"
    /\ ~IssueFails(tokens[t])
    /\ tokens' = [tokens EXCEPT ![t] = Issued(@, remember_me)]
    /\ UNCHANGED <<roles, users, anonymous>>

\* The password is wrong, or the tokens cannot be made.
LoginFails(t) ==
    /\ tokens[t].state = "verifying"
    /\ tokens' = [tokens EXCEPT ![t] = NoToken]
    /\ UNCHANGED <<roles, users, anonymous>>

\* TokenAPI.get, TokenListAPI.get and patch: a new access token, with the
\* permissions the refresh token was made with.
Refresh(t) ==
    /\ Refreshable(t)
    /\ tokens' = [tokens EXCEPT ![t].access = "valid"]
    /\ UNCHANGED <<roles, users, anonymous>>

\* TokenAPI.delete and TokenListAPI.delete; only the latter clears the cookie.
\* Nothing takes an access token back.
Logout(t, clears) ==
    /\ tokens[t].state = "issued"
    /\ tokens' = [tokens EXCEPT ![t].state = "deleted",
                                ![t].cookie = @ /\ ~clears]
    /\ UNCHANGED <<roles, users, anonymous>>

\* Mutant of CookieUse: the expiry is put off before it is looked at.
CookieRevives(t) ==
    /\ tokens[t].state = "issued"
    /\ tokens[t].cookie
    /\ tokens' = [tokens EXCEPT ![t].age = 0]
    /\ UNCHANGED <<roles, users, anonymous>>

\* _get_user_from_cookie: every call made with the cookie puts the expiry off.
CookieUse(t) ==
    /\ CookieValid(t)
    /\ tokens' = [tokens EXCEPT ![t].age = 0]
    /\ UNCHANGED <<roles, users, anonymous>>

\* Time passes: the refresh token ages, an access token runs out.
Ages(t) ==
    /\ tokens[t].state = "issued" /\ tokens[t].age <= Lifetime
    /\ tokens' = [tokens EXCEPT ![t].age = @ + 1]
    /\ UNCHANGED <<roles, users, anonymous>>

AccessExpires(t) ==
    /\ tokens[t].access = "valid"
    /\ tokens' = [tokens EXCEPT ![t].access = "expired"]
    /\ UNCHANGED <<roles, users, anonymous>>

\* startup: load_anonymous(); logins under way are lost.
Restart ==
    /\ ~AnonymousFails(roles)
    /\ anonymous' = AnonymousPermissions(roles)
    /\ tokens' = [t \in Tokens |->
           IF tokens[t].state = "verifying" THEN NoToken ELSE tokens[t]]
    /\ UNCHANGED <<roles, users>>
-----------------------------------------------------------------------------
Init ==
    /\ roles = FirstRoles
    /\ users = FirstUsers
    /\ tokens = [t \in Tokens |-> NoToken]
    /\ anonymous = AnonymousPermissions(roles)

\* No body nests a role in itself.
NoSelfNesting ==
    \A body \in RoleBodies : \A i \in DOMAIN body[2] :
        /\ body[2][i].path = "/roles"
        /\ body[2][i].operation \in {"add", "set"}
        => \A k \in DOMAIN body[2][i].value : body[2][i].value[k] # body[1]

RoleNext ==
    \/ \E body \in RoleBodies : PatchRole(body[1], body[2])
    \/ \E new \in NewRoles : PostRole(new[1], new[2], new[3])
    \/ \E r \in Roles : DeleteRole(r)

UserNext ==
    \/ \E body \in UserBodies : PatchUser(body[1], body[2])
    \/ \E new \in NewUsers : PostUser(new[1], new[2])
    \/ \E u \in Users : DeleteUser(u)

TokenNext ==
    \E t \in Tokens :
        \/ \E u \in Users : Login(t, u)
        \/ \E remember_me \in BOOLEAN :
               GuestLogin(t, remember_me) \/ Verified(t, remember_me)
        \/ \E clears \in BOOLEAN : Logout(t, clears)
        \/ LoginFails(t)
        \/ Refresh(t)
        \/ CookieUse(t)
        \/ Ages(t)
        \/ AccessExpires(t)

Next == RoleNext \/ UserNext \/ TokenNext \/ Restart

Spec == Init /\ [][Next]_vars
-----------------------------------------------------------------------------
(***************************************************************************)
(* Correctness.                                                            *)
(***************************************************************************)

TokenRecords ==
    [state : {"none", "verifying", "issued", "deleted"},
     user : Users \union {Gone},
     roles : SUBSET Roles, permissions : SUBSET Permissions,
     age : 0 .. Lifetime + 1, cookie : BOOLEAN,
     access : {"none", "valid", "expired"}]

\* Types.
TypeOK ==
    /\ roles \in [Roles -> RoleDocs \union {Gone}]
    /\ users \in [Users -> Bags(Roles) \union {Gone}]
    /\ tokens \in [Tokens -> TokenRecords]
    /\ anonymous \in SUBSET Permissions

\* There are no nested role cycles, so that coalesce_permissions and
\* ensure_no_cycles end.
NestingAcyclic == Acyclic(roles)

\* Whatever a role or a user has among its roles exists, so that working out
\* permissions never meets a reference to nothing.
NoDanglingRoles ==
    /\ \A r \in Roles : Nested(roles, r) \subseteq ExistingRoles
    /\ \A u \in ExistingUsers : Members(users[u]) \subseteq ExistingRoles

GuestUpToDate == anonymous = AnonymousPermissions(roles)

\* The anonymous principal in memory goes out of date in two ways only, which
\* the code does not tell it of: a role is deleted, or the anonymous user is
\* changed.  Creating, nesting and changing roles never leaves it behind.
GuestGoesStaleUntold ==
    [][GuestUpToDate /\ ~GuestUpToDate' =>
           \/ \E r \in ExistingRoles : roles'[r] = Gone
           \/ users'[Anonymous] # users[Anonymous]]_vars

\* A refresh token that is past its expiry, or deleted, is never accepted
\* again: no use of the cookie revives it, no access token is made from it.
DeadTokensStayDead ==
    [][\A t \in Tokens :
           tokens[t].state = "deleted" \/ tokens[t].age > Lifetime =>
               /\ ~Refreshable(t)'
               /\ ~CookieValid(t)'
               /\ tokens'[t].access = "valid" => tokens[t].access = "valid"]_vars

=============================================================================
