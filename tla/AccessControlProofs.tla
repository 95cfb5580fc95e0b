------------------------ MODULE AccessControlProofs ------------------------
(***************************************************************************)
(* Theorems about AccessControl.  Whatever roles and users are created,    *)
(* changed and deleted, nesting stays free of cycles and no list names a   *)
(* role that is not there - as long as no body nests a role in itself.     *)
(* Then the anonymous principal goes out of date in the two ways the       *)
(* property names only.  A dead refresh token is dead for good.            *)
(***************************************************************************)
EXTENDS AccessControl, FiniteSetTheorems, TLAPS

-----------------------------------------------------------------------------
(***************************************************************************)
(* Reach.                                                                  *)
(***************************************************************************)

\* A set closed under nesting that holds rs holds all that is reached from rs.
LEMMA ReachLeast ==
    ASSUME NEW docs, NEW rs, NEW S \in SUBSET Roles,
           rs \subseteq S, \A s \in S : Nested(docs, s) \subseteq S
    PROVE  Reach(docs, rs) \subseteq S
BY DEF Reach

\* What is reached holds rs and is closed under nesting.
LEMMA ReachClosed ==
    ASSUME NEW docs, NEW rs \in SUBSET Roles
    PROVE  /\ Reach(docs, rs) \subseteq Roles
           /\ rs \subseteq Reach(docs, rs)
           /\ \A r \in Reach(docs, rs) : Nested(docs, r) \subseteq Reach(docs, rs)
<1>1. Reach(docs, rs) \subseteq Roles /\ rs \subseteq Reach(docs, rs)
  BY DEF Reach
<1>2. ASSUME NEW r \in Reach(docs, rs), NEW n \in Nested(docs, r)
      PROVE  n \in Reach(docs, rs)
  <2>1. n \in Roles
    BY <1>2 DEF Nested
  <2>2. ASSUME NEW S \in SUBSET Roles,
               rs \subseteq S, \A s \in S : Nested(docs, s) \subseteq S
        PROVE  n \in S
    <3>1. r \in S
      BY <1>2, <2>2 DEF Reach
    <3>2. QED
      BY <1>2, <2>2, <3>1
  <2>3. QED
    BY <2>1, <2>2 DEF Reach
<1>3. QED
  BY <1>1, <1>2

\* From a role one reaches the role itself and what is below it.
LEMMA ReachOfOne ==
    ASSUME NEW docs, NEW n \in Roles
    PROVE  Reach(docs, {n}) \subseteq {n} \union Below(docs, n)
<1> DEFINE S == {n} \union Below(docs, n)
<1>1. Nested(docs, n) \in SUBSET Roles
  BY DEF Nested
<1>2. /\ Below(docs, n) \subseteq Roles
      /\ Nested(docs, n) \subseteq Below(docs, n)
      /\ \A r \in Below(docs, n) : Nested(docs, r) \subseteq Below(docs, n)
  BY <1>1, ReachClosed DEF Below
<1>3. S \in SUBSET Roles /\ {n} \subseteq S /\ \A s \in S : Nested(docs, s) \subseteq S
  BY <1>2
<1>4. QED
  BY <1>3, ReachLeast

\* The check is enough: nesting more roles in r leaves the nesting acyclic if
\* each new one is not r and has not r below it.
LEMMA NestingMore ==
    ASSUME NEW docs, NEW docs2, NEW r \in Roles, Acyclic(docs),
           \A q \in Roles : q # r => Nested(docs2, q) = Nested(docs, q),
           \A n \in Nested(docs2, r) :
               \/ n \in Nested(docs, r)
               \/ n # r /\ r \notin Below(docs, n)
    PROVE  Acyclic(docs2)
<1> SUFFICES ASSUME NEW S \in (SUBSET Roles) \ {{}}
             PROVE  \E q \in S : Nested(docs2, q) \intersect S = {}
  BY DEF Acyclic
<1>1. PICK q \in S : Nested(docs, q) \intersect S = {}
  BY DEF Acyclic
<1>2. CASE q # r
  BY <1>1, <1>2
<1>3. CASE q = r /\ Nested(docs2, r) \intersect S = {}
  BY <1>3
<1>4. CASE q = r /\ Nested(docs2, r) \intersect S # {}
  <2>1. PICK n \in Nested(docs2, r) \intersect S : TRUE
    BY <1>4
  <2>2. n \in Roles /\ n # r /\ r \notin Below(docs, n)
    BY <1>1, <1>4, <2>1
  <2> DEFINE T == S \intersect Reach(docs, {n})
  <2>3. n \in T
    BY <2>1, <2>2, ReachClosed
  <2>4. r \notin T
    BY <2>2, ReachOfOne
  <2>5. T \in (SUBSET Roles) \ {{}}
    BY <2>3
  <2>6. PICK p \in T : Nested(docs, p) \intersect T = {}
    BY <2>5 DEF Acyclic
  <2>7. Nested(docs, p) \subseteq Reach(docs, {n})
    BY <2>2, <2>6, ReachClosed
  <2>8. Nested(docs, p) \intersect S = {}
    BY <2>6, <2>7
  <2>9. p \in S /\ p \in Roles /\ p # r
    BY <2>4, <2>6
  <2>10. QED
    BY <2>8, <2>9
<1>5. QED
  BY <1>2, <1>3, <1>4

\* Nesting less leaves it acyclic.
LEMMA NestingLess ==
    ASSUME NEW docs, NEW docs2, Acyclic(docs),
           \A q \in Roles : Nested(docs2, q) \subseteq Nested(docs, q)
    PROVE  Acyclic(docs2)
BY DEF Acyclic
-----------------------------------------------------------------------------
(***************************************************************************)
(* PATCH bodies.                                                           *)
(***************************************************************************)

\* Counting over some of the positions of a sequence.
LEMMA CountPositions ==
    ASSUME NEW n \in Nat, NEW S \in SUBSET (1 .. n)
    PROVE  /\ Cardinality(S) \in Nat
           /\ Cardinality(S) > 0 => S # {}
<1>1. IsFiniteSet(S)
  <2>1. IsFiniteSet(1 .. n)
    BY FS_Interval
  <2>2. QED
    BY <2>1, FS_Subset
<1>2. Cardinality(S) \in Nat
  BY <1>1, FS_CardinalityType
<1>3. S = {} => Cardinality(S) = 0
  BY FS_EmptySet
<1>4. QED
  BY <1>2, <1>3

\* What a list holds after a body, it held before or the body put there.
LEMMA PatchedFrom ==
    ASSUME NEW bag \in Bags(Roles), NEW ops \in Seq(PatchOps), NEW path,
           NEW x \in Roles, Patched(bag, ops, path)[x] > 0
    PROVE  \/ bag[x] > 0
           \/ \E i \in DOMAIN ops :
                  /\ ops[i].path = path
                  /\ ops[i].operation \in {"add", "set"}
                  /\ \E k \in DOMAIN ops[i].value : ops[i].value[k] = x
<1> DEFINE before == {k \in Positions(ops, path) : k < Len(ops) + 1}
           sets == {k \in before : ops[k].operation = "set"}
           since == {k \in before : \A s \in sets : s < k}
           of(operation) == {k \in since :
               ops[k].operation = operation /\ ops[k].value[1] = x}
           last == {s \in sets : \A k \in sets : k <= s}
           copies == UNION {Copies(ops[s].value, x) : s \in last}
           start == IF sets = {} THEN bag[x] ELSE Cardinality(copies)
<1>1. Len(ops) \in Nat /\ DOMAIN ops = 1 .. Len(ops)
  OBVIOUS
<1>2. of("add") \in SUBSET (1 .. Len(ops)) /\ of("remove") \in SUBSET (1 .. Len(ops))
  BY <1>1 DEF Positions
<1>3. x \in DOMAIN bag /\ bag[x] \in Int
  BY AccessAssumption DEF Bags
<1>4. Patched(bag, ops, path)[x] = start + Cardinality(of("add")) - Cardinality(of("remove"))
  BY <1>3 DEF Patched, CopiesBefore
<1>5. CASE Cardinality(of("add")) > 0
  <2>1. PICK k \in of("add") : TRUE
    BY <1>1, <1>2, <1>5, CountPositions
  <2>2. k \in DOMAIN ops /\ ops[k].path = path /\ ops[k].operation = "add"
        /\ ops[k].value[1] = x
    BY <2>1 DEF Positions
  <2>3. 1 \in DOMAIN ops[k].value
    BY <2>2 DEF PatchOps
  <2>4. QED
    BY <2>2, <2>3
<1>6. CASE ~(Cardinality(of("add")) > 0)
  <2>1. start # 0
    <3> HIDE DEF start, of
    <3>1. Cardinality(of("add")) \in Nat /\ Cardinality(of("remove")) \in Nat
      BY <1>1, <1>2, CountPositions
    <3>2. Cardinality(of("add")) = 0
      BY <1>6, <3>1
    <3>3. QED
      BY <1>4, <3>1, <3>2
  <2>2. CASE sets = {}
    BY <2>1, <2>2, AccessAssumption DEF Bags
  <2>3. CASE sets # {}
    <3>1. copies # {}
      BY <2>1, <2>3, FS_EmptySet
    <3>2. PICK s \in sets : Copies(ops[s].value, x) # {}
      BY <3>1
    <3>3. s \in DOMAIN ops /\ ops[s].path = path /\ ops[s].operation = "set"
      BY DEF Positions
    <3>4. QED
      BY <3>2, <3>3 DEF Copies
  <2>4. QED
    BY <2>2, <2>3
<1>7. QED
  BY <1>5, <1>6
-----------------------------------------------------------------------------
(***************************************************************************)
(* Types.                                                                  *)
(***************************************************************************)

\* What coalesce_permissions returns are permissions, of documents that are.
LEMMA CoalescedType ==
    ASSUME NEW docs \in [Roles -> RoleDocs \union {Gone}], NEW rs
    PROVE  Coalesced(docs, rs) \in SUBSET Permissions
<1>1. ASSUME NEW r \in Reach(docs, rs), docs[r] # Gone
      PROVE  Members(docs[r].permissions) \subseteq Permissions
  <2>1. r \in Roles
    BY DEF Reach
  <2>2. docs[r] \in RoleDocs
    BY <1>1, <2>1
  <2>3. QED
    BY <2>2 DEF RoleDocs, Bags, Members
<1>2. QED
  BY <1>1 DEF Coalesced

\* So are those of the anonymous principal.
LEMMA AnonymousType ==
    ASSUME NEW docs \in [Roles -> RoleDocs \union {Gone}]
    PROVE  AnonymousPermissions(docs) \in SUBSET Permissions
BY CoalescedType, AccessAssumption DEF AnonymousPermissions

\* A bag of ones and zeros.
LEMMA OneOfEach ==
    ASSUME NEW Values, NEW some
    PROVE  [x \in Values |-> IF x \in some THEN 1 ELSE 0] \in Bags(Values)
<1>1. MaxCopies \in Nat \ {0}
  BY AccessAssumption
<1>2. QED
  BY <1>1 DEF Bags

\* A user's roles, when there is such a user.
LEMMA UserRolesType ==
    ASSUME TypeOK, NEW u \in Users, users[u] # Gone
    PROVE  users[u] \in Bags(Roles) /\ Members(users[u]) \in SUBSET Roles
BY DEF TypeOK, Members, Bags

\* A step on a role keeps every variable in its type.
LEMMA RoleStepTypes ==
    ASSUME TypeOK, RoleNext
    PROVE  TypeOK'
<1>1. ASSUME NEW body \in RoleBodies, PatchRole(body[1], body[2])
      PROVE  TypeOK'
  <2>1. body[1] \in Roles
    BY AccessAssumption
  <2>2. roles' \in [Roles -> RoleDocs \union {Gone}]
    BY <1>1, <2>1 DEF PatchRole, TypeOK
  <2>3. AnonymousPermissions(roles') \in SUBSET Permissions
    BY <2>2, AnonymousType
  <2>4. anonymous' \in SUBSET Permissions
    BY <1>1, <2>3 DEF PatchRole, TypeOK
  <2>5. QED
    BY <1>1, <2>2, <2>4 DEF PatchRole, TypeOK
<1>2. ASSUME NEW new \in NewRoles, PostRole(new[1], new[2], new[3])
      PROVE  TypeOK'
  <2>1. new[1] \in Roles
    BY AccessAssumption
  <2> DEFINE doc == [permissions |-> [p \in Permissions |-> IF p \in new[2] THEN 1 ELSE 0],
                     roles |-> [n \in Roles |-> IF n \in new[3] THEN 1 ELSE 0]]
  <2>2. doc \in RoleDocs
    BY OneOfEach DEF RoleDocs
  <2>3. roles' = [roles EXCEPT ![new[1]] = doc]
    BY <1>2 DEF PostRole
  <2>4. roles' \in [Roles -> RoleDocs \union {Gone}]
    BY <2>1, <2>2, <2>3 DEF TypeOK
  <2>5. QED
    BY <1>2, <2>4 DEF PostRole, TypeOK
<1>3. ASSUME NEW r \in Roles, DeleteRole(r)
      PROVE  TypeOK'
  <2>1. ASSUME NEW bag \in Bags(Roles)
        PROVE  Pulled(bag, r) \in Bags(Roles)
    BY AccessAssumption DEF Pulled, Bags
  <2>2. ASSUME NEW q \in Roles, roles[q] # Gone
        PROVE  [roles[q] EXCEPT !.roles = Pulled(@, r)] \in RoleDocs
    <3>1. roles[q] \in RoleDocs
      BY <2>2 DEF TypeOK
    <3>2. Pulled(roles[q].roles, r) \in Bags(Roles)
      BY <3>1, <2>1 DEF RoleDocs
    <3>3. QED
      BY <3>1, <3>2 DEF RoleDocs
  <2>3. roles' \in [Roles -> RoleDocs \union {Gone}]
    BY <1>3, <2>2 DEF DeleteRole
  <2>4. users' \in [Users -> Bags(Roles) \union {Gone}]
    BY <1>3, <2>1, UserRolesType DEF DeleteRole
  <2>5. QED
    BY <1>3, <2>3, <2>4 DEF DeleteRole, TypeOK
<1>4. QED
  BY <1>1, <1>2, <1>3 DEF RoleNext

\* So does a step on a user.
LEMMA UserStepTypes ==
    ASSUME TypeOK, UserNext
    PROVE  TypeOK'
<1>1. ASSUME NEW body \in UserBodies, PatchUser(body[1], body[2])
      PROVE  TypeOK'
  <2>1. body[1] \in Users
    BY AccessAssumption
  <2>2. QED
    BY <1>1, <2>1 DEF PatchUser, TypeOK
<1>2. ASSUME NEW new \in NewUsers, PostUser(new[1], new[2])
      PROVE  TypeOK'
  <2>1. new[1] \in Users
    BY AccessAssumption
  <2>2. [r \in Roles |-> IF r \in new[2] THEN 1 ELSE 0] \in Bags(Roles)
    BY OneOfEach
  <2>3. QED
    BY <1>2, <2>1, <2>2 DEF PostUser, TypeOK
<1>3. ASSUME NEW u \in Users, DeleteUser(u)
      PROVE  TypeOK'
  <2>1. \A t \in Tokens : [tokens[t] EXCEPT !.user = Gone] \in TokenRecords
    BY DEF TypeOK, TokenRecords
  <2>2. tokens' \in [Tokens -> TokenRecords]
    BY <1>3, <2>1 DEF DeleteUser, TypeOK
  <2>3. QED
    BY <1>3, <2>2 DEF DeleteUser, TypeOK
<1>4. QED
  BY <1>1, <1>2, <1>3 DEF UserNext

\* A token that is issued.
LEMMA IssuedType ==
    ASSUME TypeOK, NEW token \in TokenRecords, NEW remember_me \in BOOLEAN
    PROVE  Issued(token, remember_me) \in TokenRecords
<1>1. Coalesced(roles, token.roles) \in SUBSET Permissions
  BY CoalescedType DEF TypeOK
<1>2. QED
  BY <1>1 DEF Issued, TokenRecords

\* A token that is not there is a record of the same form.
LEMMA NoTokenType == NoToken \in TokenRecords
<1>1. Anonymous \in Users /\ Lifetime \in Nat
  BY AccessAssumption
<1>2. 0 \in 0 .. Lifetime + 1
  BY <1>1
<1>3. QED
  BY <1>1, <1>2 DEF NoToken, TokenRecords

\* A login under way is a token.
LEMMA LoadedType ==
    ASSUME TypeOK, NEW u \in Users, users[u] # Gone
    PROVE  Loaded(u) \in TokenRecords
<1>1. NoToken \in TokenRecords /\ Members(users[u]) \in SUBSET Roles
  BY NoTokenType, UserRolesType
<1>2. QED
  BY <1>1 DEF Loaded, TokenRecords

\* So does every step of a login or a token.
LEMMA TokenStepTypes ==
    ASSUME TypeOK, TokenNext
    PROVE  TypeOK'
<1>1. PICK t \in Tokens :
        \/ \E u \in Users : Login(t, u)
        \/ \E remember_me \in BOOLEAN :
               GuestLogin(t, remember_me) \/ Verified(t, remember_me)
        \/ \E clears \in BOOLEAN : Logout(t, clears)
        \/ LoginFails(t) \/ Refresh(t) \/ CookieUse(t) \/ Ages(t) \/ AccessExpires(t)
  BY DEF TokenNext
<1>2. tokens[t] \in TokenRecords /\ tokens \in [Tokens -> TokenRecords]
  BY DEF TypeOK
<1>3. Lifetime \in Nat /\ Anonymous \in Users
  BY AccessAssumption
<1> DEFINE Kept == UNCHANGED <<roles, users, anonymous>>
           Becomes(token) == tokens' = [tokens EXCEPT ![t] = token]
<1>4. SUFFICES ASSUME Kept
               PROVE  \E token \in TokenRecords : Becomes(token)
  <2>1. Kept
    BY <1>1 DEF Login, GuestLogin, Verified, Logout, LoginFails, Refresh,
                CookieUse, Ages, AccessExpires
  <2>2. QED
    BY <1>2, <2>1 DEF TypeOK
<1>5. ASSUME NEW u \in Users, Login(t, u)
      PROVE  \E token \in TokenRecords : Becomes(token)
  BY <1>5, LoadedType DEF Login
<1>6. ASSUME NEW remember_me \in BOOLEAN, GuestLogin(t, remember_me)
      PROVE  \E token \in TokenRecords : Becomes(token)
  <2>1. Loaded(Anonymous) \in TokenRecords
    BY <1>3, <1>6, LoadedType DEF GuestLogin
  <2>2. QED
    BY <1>6, <2>1, IssuedType DEF GuestLogin
<1>7. ASSUME NEW remember_me \in BOOLEAN, Verified(t, remember_me)
      PROVE  \E token \in TokenRecords : Becomes(token)
  BY <1>2, <1>7, IssuedType DEF Verified
<1>8. ASSUME NEW clears \in BOOLEAN, Logout(t, clears)
      PROVE  \E token \in TokenRecords : Becomes(token)
  <2> DEFINE token == [tokens[t] EXCEPT !.state = "deleted", !.cookie = @ /\ ~clears]
  <2>1. (tokens[t].cookie /\ ~clears) \in BOOLEAN
    OBVIOUS
  <2>2. token \in TokenRecords
    BY <1>2, <2>1 DEF TokenRecords
  <2>3. Becomes(token)
    BY <1>2, <1>8 DEF Logout
  <2>4. QED
    BY <2>2, <2>3
<1>9. CASE LoginFails(t)
  BY <1>9, NoTokenType DEF LoginFails
<1>10. CASE Refresh(t)
  <2>1. [tokens[t] EXCEPT !.access = "valid"] \in TokenRecords
    BY <1>2 DEF TokenRecords
  <2>2. QED
    BY <1>2, <1>10, <2>1 DEF Refresh
<1>11. CASE CookieUse(t)
  <2>1. [tokens[t] EXCEPT !.age = 0] \in TokenRecords
    BY <1>2, <1>3 DEF TokenRecords
  <2>2. QED
    BY <1>2, <1>11, <2>1 DEF CookieUse
<1>12. CASE Ages(t)
  <2>1. [tokens[t] EXCEPT !.age = @ + 1] \in TokenRecords
    BY <1>2, <1>3, <1>12 DEF Ages, TokenRecords
  <2>2. QED
    BY <1>2, <1>12, <2>1 DEF Ages
<1>13. CASE AccessExpires(t)
  <2>1. [tokens[t] EXCEPT !.access = "expired"] \in TokenRecords
    BY <1>2 DEF TokenRecords
  <2>2. QED
    BY <1>2, <1>13, <2>1 DEF AccessExpires
<1>14. QED
  BY <1>1, <1>5, <1>6, <1>7, <1>8, <1>9, <1>10, <1>11, <1>12, <1>13

\* Every step keeps the type invariant.
LEMMA StepTypes ==
    ASSUME TypeOK, [Next]_vars
    PROVE  TypeOK'
<1>1. CASE Restart
  <2>1. AnonymousPermissions(roles) \in SUBSET Permissions
    BY AnonymousType DEF TypeOK
  <2>2. tokens' \in [Tokens -> TokenRecords]
    BY <1>1, NoTokenType DEF Restart, TypeOK
  <2>3. QED
    BY <1>1, <2>1, <2>2 DEF Restart, TypeOK
<1>2. CASE UNCHANGED vars
  BY <1>2 DEF vars, TypeOK
<1>3. QED
  BY <1>1, <1>2, RoleStepTypes, UserStepTypes, TokenStepTypes DEF Next

\* The type invariant holds at the start.
LEMMA InitTypes ==
    ASSUME Init
    PROVE  TypeOK
<1>1. roles \in [Roles -> RoleDocs \union {Gone}] /\ users \in [Users -> Bags(Roles) \union {Gone}]
  BY AccessAssumption DEF Init
<1>2. AnonymousPermissions(roles) \in SUBSET Permissions
  BY <1>1, AnonymousType
<1>3. QED
  BY <1>1, <1>2, NoTokenType DEF Init, TypeOK

\* Whatever is posted, changed and deleted, the documents keep their form and
\* every set of permissions worked out of them holds permissions only.
THEOREM TypeCorrect == Spec => []TypeOK
<1>1. Init => TypeOK
  BY InitTypes
<1>2. TypeOK /\ [Next]_vars => TypeOK'
  BY StepTypes
<1>3. QED
  BY <1>1, <1>2, PTL DEF Spec
-----------------------------------------------------------------------------
(***************************************************************************)
(* Nesting.  The inductive invariant needs both halves: a new role is in   *)
(* no cycle because nothing names a role that is not there.                *)
(***************************************************************************)

NestingSound == NestingAcyclic /\ NoDanglingRoles

\* Below a role that exists there are only roles that exist.
LEMMA BelowExists ==
    ASSUME NoDanglingRoles, NEW n \in Roles
    PROVE  Below(roles, n) \subseteq ExistingRoles
<1>1. ExistingRoles \in SUBSET Roles
  BY DEF ExistingRoles
<1>2. Nested(roles, n) \subseteq ExistingRoles
  BY DEF NoDanglingRoles
<1>3. \A s \in ExistingRoles : Nested(roles, s) \subseteq ExistingRoles
  BY <1>1 DEF NoDanglingRoles
<1>4. QED
  BY <1>1, <1>2, <1>3, ReachLeast DEF Below

\* A body that went through: each role it newly nests exists, is not the role
\* itself, and passed the check for cycles.
LEMMA PatchRoleSound ==
    ASSUME TypeOK, NestingSound, NoSelfNesting,
           NEW body \in RoleBodies, PatchRole(body[1], body[2])
    PROVE  NestingSound'
<1> DEFINE r == body[1]
           ops == body[2]
<1>1. r \in Roles /\ ops \in Seq(PatchOps)
  BY AccessAssumption
<1>2. roles[r] \in RoleDocs /\ roles[r].roles \in Bags(Roles)
  BY <1>1 DEF PatchRole, TypeOK, RoleDocs
<1>3. /\ roles'[r].roles = Patched(roles[r].roles, ops, "/roles")
      /\ roles'[r] \in RoleDocs /\ roles'[r] # Gone
      /\ \A q \in Roles : q # r => roles'[q] = roles[q]
  BY <1>1, AccessAssumption DEF PatchRole, TypeOK
<1>4. ASSUME NEW n \in Nested(roles', r), n \notin Nested(roles, r)
      PROVE  n \in ExistingRoles /\ n # r /\ r \notin Below(roles, n)
  <2>1. n \in Roles /\ Patched(roles[r].roles, ops, "/roles")[n] > 0
    BY <1>3, <1>4 DEF Nested
  <2>2. ~(roles[r].roles[n] > 0)
    BY <1>4, <2>1 DEF Nested, PatchRole
  <2>3. PICK i \in DOMAIN ops :
          /\ ops[i].path = "/roles"
          /\ ops[i].operation \in {"add", "set"}
          /\ \E k \in DOMAIN ops[i].value : ops[i].value[k] = n
    BY <1>1, <1>2, <2>1, <2>2, PatchedFrom
  <2>4. PICK k \in DOMAIN ops[i].value : ops[i].value[k] = n
    BY <2>3
  <2>5. ~RoleOpRaises(r, ops, i)
    BY <2>3 DEF PatchRole
  <2>6. n \in ExistingRoles /\ ~CycleDetected(r, n)
    BY <2>3, <2>4, <2>5 DEF RoleOpRaises, ListOpRaises
  <2>7. n # r
    BY <2>3, <2>4 DEF NoSelfNesting
  <2>8. QED
    BY <2>6, <2>7 DEF CycleDetected
<1>5. \A q \in Roles : q # r => Nested(roles', q) = Nested(roles, q)
  BY <1>3 DEF Nested
<1>6. NestingAcyclic'
  <2> HIDE DEF r, ops
  <2>1. Acyclic(roles)
    BY DEF NestingSound, NestingAcyclic
  <2>2. Acyclic(roles')
    BY <1>1, <1>4, <1>5, <2>1, NestingMore
  <2>3. QED
    BY <2>2 DEF NestingAcyclic
<1>7. ExistingRoles' = ExistingRoles
  BY <1>1, <1>3 DEF ExistingRoles, PatchRole
<1>8. users' = users /\ ExistingUsers' = ExistingUsers
  BY DEF PatchRole, ExistingUsers
<1>9. \A q \in Roles : Nested(roles, q) \subseteq ExistingRoles
  BY DEF NestingSound, NoDanglingRoles
<1>10. \A q \in Roles : Nested(roles', q) \subseteq ExistingRoles
  BY <1>4, <1>5, <1>9
<1>11. \A u \in ExistingUsers : Members(users[u]) \subseteq ExistingRoles
  BY DEF NestingSound, NoDanglingRoles
<1>12. NoDanglingRoles'
  BY <1>7, <1>8, <1>10, <1>11 DEF NoDanglingRoles
<1>13. QED
  BY <1>6, <1>12 DEF NestingSound

\* A new role nests roles that exist, and nothing names it yet.
LEMMA PostRoleSound ==
    ASSUME TypeOK, NestingSound,
           NEW new \in NewRoles, PostRole(new[1], new[2], new[3])
    PROVE  NestingSound'
<1> DEFINE r == new[1]
           nested == new[3]
           doc == [permissions |-> [p \in Permissions |-> IF p \in new[2] THEN 1 ELSE 0],
                   roles |-> [n \in Roles |-> IF n \in nested THEN 1 ELSE 0]]
<1>1. r \in Roles /\ roles[r] = Gone /\ nested \in SUBSET Roles
  BY AccessAssumption DEF PostRole
<1>2. doc \in RoleDocs
  BY OneOfEach DEF RoleDocs
<1>3. doc # Gone
  BY <1>2, AccessAssumption
<1>4. roles' = [roles EXCEPT ![r] = doc]
  BY DEF PostRole
<1>5. roles'[r] = doc /\ \A q \in Roles : q # r => roles'[q] = roles[q]
  BY <1>1, <1>4 DEF TypeOK
<1>6. Nested(roles', r) = nested
  BY <1>1, <1>3, <1>5 DEF Nested
<1>7. \A q \in Roles : q # r => Nested(roles', q) = Nested(roles, q)
  BY <1>5 DEF Nested
<1>8. nested \subseteq ExistingRoles /\ r \notin ExistingRoles
  BY <1>1 DEF PostRole, ExistingRoles
<1>9. \A n \in nested : n # r /\ r \notin Below(roles, n)
  BY <1>1, <1>8, BelowExists DEF NestingSound
<1>10. NestingAcyclic'
  BY <1>1, <1>6, <1>7, <1>9, NestingMore DEF NestingSound, NestingAcyclic
<1>11. ExistingRoles \subseteq ExistingRoles'
  BY <1>1, <1>5 DEF ExistingRoles
<1>12. users' = users /\ ExistingUsers' = ExistingUsers
  BY DEF PostRole, ExistingUsers
<1>13. \A q \in Roles : Nested(roles', q) \subseteq ExistingRoles'
  BY <1>6, <1>7, <1>8, <1>11 DEF NestingSound, NoDanglingRoles
<1>14. \A u \in ExistingUsers : Members(users[u]) \subseteq ExistingRoles'
  BY <1>11 DEF NestingSound, NoDanglingRoles
<1>15. NoDanglingRoles'
  BY <1>12, <1>13, <1>14 DEF NoDanglingRoles
<1>16. QED
  BY <1>10, <1>15 DEF NestingSound

\* A role that goes is taken out of every list.
LEMMA DeleteRoleSound ==
    ASSUME TypeOK, NestingSound, NEW r \in Roles, DeleteRole(r)
    PROVE  NestingSound'
<1>1. ASSUME NEW q \in Roles
      PROVE  Nested(roles', q) \subseteq Nested(roles, q) \ {r}
  <2>1. CASE q = r \/ roles[q] = Gone
    <3>1. roles'[q] = Gone
      BY <2>1 DEF DeleteRole
    <3>2. QED
      BY <3>1 DEF Nested
  <2>2. CASE ~(q = r \/ roles[q] = Gone)
    <3>1. roles[q] \in RoleDocs
      BY <2>2 DEF TypeOK
    <3>2. roles'[q].roles = [roles[q].roles EXCEPT ![r] = 0]
      BY <2>2, <3>1 DEF DeleteRole, Pulled, RoleDocs
    <3>3. ASSUME NEW n \in Roles, roles'[q].roles[n] > 0
          PROVE  n # r /\ roles[q].roles[n] > 0
      BY <3>1, <3>2, <3>3 DEF RoleDocs, Bags
    <3>4. QED
      BY <2>2, <3>3 DEF Nested
  <2>3. QED
    BY <2>1, <2>2
<1>2. NestingAcyclic'
  BY <1>1, NestingLess DEF NestingSound, NestingAcyclic
<1>3. ExistingRoles \ {r} \subseteq ExistingRoles'
  <2>1. ASSUME NEW q \in ExistingRoles, q # r
        PROVE  roles'[q] # Gone
    <3>1. q \in Roles /\ roles[q] \in RoleDocs
      BY <2>1 DEF ExistingRoles, TypeOK
    <3>2. Pulled(roles[q].roles, r) \in Bags(Roles)
      BY <3>1, AccessAssumption DEF RoleDocs, Pulled, Bags
    <3>3. [roles[q] EXCEPT !.roles = Pulled(@, r)] \in RoleDocs
      BY <3>1, <3>2 DEF RoleDocs
    <3>4. roles'[q] = [roles[q] EXCEPT !.roles = Pulled(@, r)]
      BY <2>1, <3>1 DEF DeleteRole, ExistingRoles
    <3>5. QED
      BY <3>3, <3>4, AccessAssumption
  <2>2. QED
    BY <2>1 DEF ExistingRoles
<1>4. \A q \in Roles : Nested(roles', q) \subseteq ExistingRoles'
  BY <1>1, <1>3 DEF NestingSound, NoDanglingRoles
<1>5. ASSUME NEW u \in Users, users'[u] # Gone
      PROVE  Members(users'[u]) \subseteq ExistingRoles'
  <2>1. users[u] # Gone /\ users'[u] = [users[u] EXCEPT ![r] = 0]
    BY <1>5 DEF DeleteRole, Pulled
  <2>2. users[u] \in Bags(Roles)
    BY <2>1 DEF TypeOK
  <2>3. Members(users'[u]) \subseteq Members(users[u]) \ {r}
    BY <2>1, <2>2 DEF Members, Bags
  <2>4. Members(users[u]) \subseteq ExistingRoles
    BY <2>1 DEF NestingSound, NoDanglingRoles, ExistingUsers
  <2>5. QED
    BY <1>3, <2>3, <2>4
<1>6. NoDanglingRoles'
  BY <1>4, <1>5 DEF NoDanglingRoles, ExistingUsers
<1>7. QED
  BY <1>2, <1>6 DEF NestingSound

\* A user is given roles that exist.
LEMMA UserStepSound ==
    ASSUME TypeOK, NestingSound, UserNext
    PROVE  NestingSound'
<1>1. roles' = roles
  BY DEF UserNext, PatchUser, PostUser, DeleteUser
<1>2. ASSUME NEW u \in Users, users'[u] # Gone
      PROVE  Members(users'[u]) \subseteq ExistingRoles
  <2>1. CASE users'[u] = users[u]
    BY <1>2, <2>1 DEF NestingSound, NoDanglingRoles, ExistingUsers
  <2>2. ASSUME NEW body \in UserBodies, PatchUser(body[1], body[2]), users'[u] # users[u]
        PROVE  Members(users'[u]) \subseteq ExistingRoles
    <3> DEFINE ops == body[2]
    <3>1. ops \in Seq(PatchOps)
      BY AccessAssumption
    <3>2. u = body[1] /\ users[u] # Gone /\ users'[u] = Patched(users[u], ops, "/roles")
      BY <2>2 DEF PatchUser, TypeOK
    <3>3. users[u] \in Bags(Roles)
      BY <3>2 DEF TypeOK
    <3>4. ASSUME NEW n \in Members(users'[u])
          PROVE  n \in ExistingRoles
      <4>1. n \in Roles /\ Patched(users[u], ops, "/roles")[n] > 0
        BY <3>2, <3>3 DEF Members, Patched, Bags
      <4>2. CASE users[u][n] > 0
        <5>1. n \in Members(users[u])
          BY <3>3, <4>1, <4>2 DEF Members, Bags
        <5>2. QED
          BY <3>2, <5>1 DEF NestingSound, NoDanglingRoles, ExistingUsers
      <4>3. CASE ~(users[u][n] > 0)
        <5>1. PICK i \in DOMAIN ops :
                \E k \in DOMAIN ops[i].value : ops[i].value[k] = n
          BY <3>1, <3>3, <4>1, <4>3, PatchedFrom
        <5>2. ~ListOpRaises(users[u], ops, "/roles", i, ExistingRoles)
          BY <2>2, <3>2 DEF PatchUser
        <5>3. QED
          BY <5>1, <5>2 DEF ListOpRaises
      <4>4. QED
        BY <4>2, <4>3
    <3>5. QED
      BY <3>4
  <2>3. ASSUME NEW new \in NewUsers, PostUser(new[1], new[2]), users'[u] # users[u]
        PROVE  Members(users'[u]) \subseteq ExistingRoles
    <3>1. users'[u] = [r \in Roles |-> IF r \in new[2] THEN 1 ELSE 0]
      BY <2>3 DEF PostUser, TypeOK
    <3>2. QED
      BY <2>3, <3>1 DEF PostUser, Members
  <2>4. ASSUME NEW v \in Users, DeleteUser(v)
        PROVE  users'[u] = users[u]
    BY <1>2, <2>4 DEF DeleteUser, TypeOK
  <2>5. QED
    BY <2>1, <2>2, <2>3, <2>4 DEF UserNext
<1>3. ExistingRoles' = ExistingRoles
  BY <1>1 DEF ExistingRoles
<1>4. \A r \in Roles : Nested(roles', r) = Nested(roles, r)
  BY <1>1
<1>5. NoDanglingRoles'
  BY <1>2, <1>3, <1>4 DEF NestingSound, NoDanglingRoles, ExistingUsers
<1>6. QED
  BY <1>1, <1>5 DEF NestingSound, NestingAcyclic

\* Every step keeps the nesting sound.
LEMMA StepSound ==
    ASSUME TypeOK, NestingSound, NoSelfNesting, [Next]_vars
    PROVE  NestingSound'
<1>1. CASE TokenNext \/ Restart \/ UNCHANGED vars
  <2>1. roles' = roles /\ users' = users
    BY <1>1 DEF TokenNext, Login, GuestLogin, Verified, Logout, LoginFails, Refresh,
                CookieUse, Ages, AccessExpires, Restart, vars
  <2>2. QED
    BY <2>1 DEF NestingSound, NestingAcyclic, NoDanglingRoles, ExistingRoles, ExistingUsers
<1>2. CASE RoleNext
  BY <1>2, PatchRoleSound, PostRoleSound, DeleteRoleSound DEF RoleNext
<1>3. QED
  BY <1>1, <1>2, UserStepSound DEF Next

\* As long as no body nests a role in itself, the nesting of roles is free of
\* cycles however roles are created, changed and deleted, so that working out
\* permissions ends, and never meets a reference to a role that is gone.
THEOREM NestingStaysSound ==
    NoSelfNesting => (Spec => [](NestingAcyclic /\ NoDanglingRoles))
<1> SUFFICES ASSUME NoSelfNesting
             PROVE  Spec => [](NestingAcyclic /\ NoDanglingRoles)
  OBVIOUS
<1>1. Init => NestingSound
  <2> SUFFICES ASSUME Init PROVE NestingSound
    OBVIOUS
  <2>1. NestingAcyclic
    BY AccessAssumption DEF Init, NestingAcyclic
  <2>2. NoDanglingRoles
    BY AccessAssumption DEF Init, NoDanglingRoles, ExistingRoles, ExistingUsers, Nested,
                            Members, Bags
  <2>3. QED
    BY <2>1, <2>2 DEF NestingSound
<1>2. TypeOK /\ NestingSound /\ [Next]_vars => NestingSound'
  BY StepSound
<1>3. NestingSound => NestingAcyclic /\ NoDanglingRoles
  BY DEF NestingSound
<1>4. Spec => []TypeOK
  BY TypeCorrect
<1>5. QED
  BY <1>1, <1>2, <1>3, <1>4, PTL DEF Spec

\* Whatever a role or a user has among its roles exists.
THEOREM NoReferenceDangles == NoSelfNesting => (Spec => []NoDanglingRoles)
<1>1. NestingAcyclic /\ NoDanglingRoles => NoDanglingRoles
  OBVIOUS
<1>2. QED
  BY <1>1, NestingStaysSound, PTL
-----------------------------------------------------------------------------
(***************************************************************************)
(* Dead tokens.  A login under way has no age: a token that is too old has *)
(* been issued, and only a login issues one.                               *)
(***************************************************************************)

YoungLogins == \A t \in Tokens : tokens[t].state \in {"none", "verifying"} => tokens[t].age = 0

\* A dead token can be neither refreshed nor used as a cookie, now or later.
Dead(t) == tokens[t].state = "deleted" \/ tokens[t].age > Lifetime

\* What a step does to one token.
LEMMA TokenMoves ==
    ASSUME TypeOK, NEW t \in Tokens, [Next]_vars
    PROVE  \/ tokens'[t] = tokens[t]
           \/ tokens'[t] = NoToken /\ tokens[t].state = "verifying"
           \/ tokens[t].state = "none" /\ \E u \in Users : tokens'[t] = Loaded(u)
           \/ /\ tokens[t].state \in {"none", "verifying"}
              /\ \E remember_me \in BOOLEAN :
                     \/ tokens'[t] = Issued(Loaded(Anonymous), remember_me)
                     \/ tokens'[t] = Issued(tokens[t], remember_me)
           \/ Refreshable(t) /\ tokens'[t] = [tokens[t] EXCEPT !.access = "valid"]
           \/ /\ tokens[t].state = "issued"
              /\ \E clears \in BOOLEAN :
                     tokens'[t] = [tokens[t] EXCEPT !.state = "deleted", !.cookie = @ /\ ~clears]
           \/ CookieValid(t) /\ tokens'[t] = [tokens[t] EXCEPT !.age = 0]
           \/ /\ tokens[t].state = "issued" /\ tokens[t].age <= Lifetime
              /\ tokens'[t] = [tokens[t] EXCEPT !.age = @ + 1]
           \/ tokens'[t] = [tokens[t] EXCEPT !.access = "expired"]
           \/ tokens'[t] = [tokens[t] EXCEPT !.user = Gone]
<1>1. tokens \in [Tokens -> TokenRecords]
  BY DEF TypeOK
<1>2. CASE RoleNext \/ UserNext \/ UNCHANGED vars
  BY <1>2 DEF RoleNext, UserNext, PatchRole, PostRole, DeleteRole, PatchUser, PostUser,
              DeleteUser, vars
<1>3. CASE Restart
  BY <1>1, <1>3 DEF Restart
<1>4. CASE TokenNext
  <2>1. PICK s \in Tokens :
            \/ \E u \in Users : Login(s, u)
            \/ \E remember_me \in BOOLEAN : GuestLogin(s, remember_me) \/ Verified(s, remember_me)
            \/ \E clears \in BOOLEAN : Logout(s, clears)
            \/ LoginFails(s) \/ Refresh(s) \/ CookieUse(s) \/ Ages(s) \/ AccessExpires(s)
    BY <1>4 DEF TokenNext
  <2>2. CASE s # t
    BY <1>1, <2>1, <2>2 DEF Login, GuestLogin, Verified, Logout, LoginFails, Refresh, CookieUse,
                            Ages, AccessExpires
  <2>3. CASE s = t
    <3>1. ASSUME NEW u \in Users, Login(t, u)
          PROVE  tokens[t].state = "none" /\ tokens'[t] = Loaded(u)
      BY <1>1, <3>1 DEF Login
    <3>2. ASSUME NEW remember_me \in BOOLEAN, GuestLogin(t, remember_me)
          PROVE  tokens[t].state = "none" /\ tokens'[t] = Issued(Loaded(Anonymous), remember_me)
      BY <1>1, <3>2 DEF GuestLogin
    <3>3. ASSUME NEW remember_me \in BOOLEAN, Verified(t, remember_me)
          PROVE  tokens[t].state = "verifying" /\ tokens'[t] = Issued(tokens[t], remember_me)
      BY <1>1, <3>3 DEF Verified
    <3>4. ASSUME NEW clears \in BOOLEAN, Logout(t, clears)
          PROVE  /\ tokens[t].state = "issued"
                 /\ tokens'[t] = [tokens[t] EXCEPT !.state = "deleted", !.cookie = @ /\ ~clears]
      BY <1>1, <3>4 DEF Logout
    <3>5. LoginFails(t) => tokens[t].state = "verifying" /\ tokens'[t] = NoToken
      BY <1>1 DEF LoginFails
    <3>6. Refresh(t) => Refreshable(t) /\ tokens'[t] = [tokens[t] EXCEPT !.access = "valid"]
      BY <1>1 DEF Refresh
    <3>7. CookieUse(t) => CookieValid(t) /\ tokens'[t] = [tokens[t] EXCEPT !.age = 0]
      BY <1>1 DEF CookieUse
    <3>8. Ages(t) => /\ tokens[t].state = "issued" /\ tokens[t].age <= Lifetime
                     /\ tokens'[t] = [tokens[t] EXCEPT !.age = @ + 1]
      BY <1>1 DEF Ages
    <3>9. AccessExpires(t) => tokens'[t] = [tokens[t] EXCEPT !.access = "expired"]
      BY <1>1 DEF AccessExpires
    <3>10. QED
      BY <2>1, <2>3, <3>1, <3>2, <3>3, <3>4, <3>5, <3>6, <3>7, <3>8, <3>9
  <2>4. QED
    BY <2>2, <2>3
<1>5. QED
  BY <1>2, <1>3, <1>4 DEF Next

\* Every step keeps the age of logins under way.
LEMMA YoungLoginsStep ==
    ASSUME TypeOK, YoungLogins, [Next]_vars
    PROVE  YoungLogins'
<1> SUFFICES ASSUME NEW t \in Tokens, tokens'[t].state \in {"none", "verifying"}
             PROVE  tokens'[t].age = 0
  BY DEF YoungLogins
<1>1. tokens[t] \in TokenRecords
  BY DEF TypeOK
<1>2. \A u : Loaded(u).age = 0
  BY DEF Loaded, NoToken
<1>3. tokens[t].state \in {"none", "verifying"} => tokens[t].age = 0
  BY DEF YoungLogins
<1>4. \A token \in TokenRecords : \A remember_me : Issued(token, remember_me).state = "issued"
  BY DEF Issued, TokenRecords
<1>5. \A remember_me : Issued(Loaded(Anonymous), remember_me).state = "issued"
  BY DEF Issued, Loaded, NoToken
<1>6. CASE tokens'[t] = NoToken
  BY <1>6 DEF NoToken
<1>7. ASSUME NEW u \in Users, tokens'[t] = Loaded(u)
      PROVE  tokens'[t].age = 0
  BY <1>2, <1>7
<1>8. ASSUME NEW remember_me \in BOOLEAN,
             \/ tokens'[t] = Issued(Loaded(Anonymous), remember_me)
             \/ tokens'[t] = Issued(tokens[t], remember_me)
      PROVE  FALSE
  BY <1>1, <1>4, <1>5, <1>8
<1>9. ASSUME Refreshable(t), tokens'[t] = [tokens[t] EXCEPT !.access = "valid"]
      PROVE  FALSE
  BY <1>1, <1>9 DEF TokenRecords, Refreshable
<1>10. ASSUME NEW clears \in BOOLEAN,
              tokens'[t] = [tokens[t] EXCEPT !.state = "deleted", !.cookie = @ /\ ~clears]
       PROVE  FALSE
  <2>1. tokens'[t].state = "deleted"
    BY <1>1, <1>10 DEF TokenRecords
  <2>2. QED
    BY <2>1
<1>11. ASSUME CookieValid(t), tokens'[t] = [tokens[t] EXCEPT !.age = 0]
       PROVE  FALSE
  BY <1>1, <1>11 DEF TokenRecords, CookieValid
<1>12. ASSUME tokens[t].state = "issued", tokens'[t] = [tokens[t] EXCEPT !.age = @ + 1]
       PROVE  FALSE
  BY <1>1, <1>12 DEF TokenRecords
<1>13. ASSUME \/ tokens'[t] = [tokens[t] EXCEPT !.access = "expired"]
              \/ tokens'[t] = [tokens[t] EXCEPT !.user = Gone]
       PROVE  tokens'[t].age = 0
  BY <1>1, <1>3, <1>13 DEF TokenRecords
<1>14. QED
  BY <1>3, <1>6, <1>7, <1>8, <1>9, <1>10, <1>11, <1>12, <1>13, TokenMoves

\* A dead token stays dead, and makes no access token.
LEMMA DeadStep ==
    ASSUME TypeOK, YoungLogins, [Next]_vars, NEW t \in Tokens, Dead(t)
    PROVE  /\ ~Refreshable(t)' /\ ~CookieValid(t)'
           /\ tokens'[t].access = "valid" => tokens[t].access = "valid"
<1>1. tokens[t] \in TokenRecords /\ Lifetime \in Nat \ {0}
  BY AccessAssumption DEF TypeOK
<1>2. tokens[t].state \notin {"none", "verifying"}
  BY <1>1 DEF YoungLogins, Dead
<1>3. ~Refreshable(t) /\ ~CookieValid(t) /\ ~(tokens[t].state = "issued" /\ tokens[t].age <= Lifetime)
  BY <1>1 DEF Dead, Refreshable, CookieValid, TokenRecords
<1>4. \/ tokens'[t] = tokens[t]
      \/ /\ tokens[t].state = "issued"
         /\ \E clears \in BOOLEAN :
                tokens'[t] = [tokens[t] EXCEPT !.state = "deleted", !.cookie = @ /\ ~clears]
      \/ tokens'[t] = [tokens[t] EXCEPT !.access = "expired"]
      \/ tokens'[t] = [tokens[t] EXCEPT !.user = Gone]
  BY <1>2, <1>3, TokenMoves
<1>5. /\ tokens'[t].state = "deleted" \/ tokens'[t].age > Lifetime
      /\ tokens'[t].access = "valid" => tokens[t].access = "valid"
  BY <1>1, <1>4 DEF Dead, TokenRecords
<1>6. tokens'[t].age \in 0 .. Lifetime + 1
  BY <1>1, <1>4 DEF TokenRecords
<1>7. QED
  BY <1>1, <1>5, <1>6 DEF Refreshable, CookieValid

\* A refresh token that is past its expiry, or deleted, is never accepted again.
THEOREM DeadTokensNeverUsed == Spec => DeadTokensStayDead
<1> DEFINE Kept ==
        \A t \in Tokens :
           tokens[t].state = "deleted" \/ tokens[t].age > Lifetime =>
               /\ ~Refreshable(t)'
               /\ ~CookieValid(t)'
               /\ tokens'[t].access = "valid" => tokens[t].access = "valid"
<1>1. Init => YoungLogins
  BY DEF Init, YoungLogins, NoToken
<1>2. TypeOK /\ YoungLogins /\ [Next]_vars => YoungLogins'
  BY YoungLoginsStep
<1>3. TypeOK /\ YoungLogins /\ [Next]_vars => [Kept]_vars
  BY DeadStep DEF Dead
<1>4. QED
  BY <1>1, <1>2, <1>3, TypeCorrect, PTL DEF Spec, DeadTokensStayDead
-----------------------------------------------------------------------------
(***************************************************************************)
(* The anonymous principal.                                                *)
(***************************************************************************)

\* What is reached from rs is rs and what is below its roles.
LEMMA ReachOfMany ==
    ASSUME NEW docs, NEW rs \in SUBSET Roles, NEW r \in Reach(docs, rs)
    PROVE  r \in rs \/ \E n \in rs : r \in Below(docs, n)
<1> DEFINE S == rs \union UNION {Below(docs, n) : n \in rs}
<1>1. ASSUME NEW n \in Roles
      PROVE  /\ Below(docs, n) \subseteq Roles
             /\ Nested(docs, n) \subseteq Below(docs, n)
             /\ \A q \in Below(docs, n) : Nested(docs, q) \subseteq Below(docs, n)
  <2>1. Nested(docs, n) \in SUBSET Roles
    BY DEF Nested
  <2>2. QED
    BY <2>1, ReachClosed DEF Below
<1>2. S \in SUBSET Roles /\ rs \subseteq S /\ \A s \in S : Nested(docs, s) \subseteq S
  BY <1>1
<1>3. r \in S
  BY <1>2, ReachLeast
<1>4. QED
  BY <1>3

\* When nesting has no cycles, every walk through nested roles ends.
LEMMA WalksEnd ==
    ASSUME NEW docs, Acyclic(docs), NEW rs \in SUBSET Roles
    PROVE  ~Endless(docs, rs)
<1> SUFFICES ASSUME NEW r \in Roles, r \in Below(docs, r)
             PROVE  FALSE
  BY ReachClosed DEF Endless
<1> DEFINE C == {q \in Below(docs, r) : r \in Below(docs, q)}
<1>1. \A q \in Roles : Nested(docs, q) \in SUBSET Roles
  BY DEF Nested
<1>2. /\ Below(docs, r) \subseteq Roles
      /\ \A q \in Below(docs, r) : Nested(docs, q) \subseteq Below(docs, r)
  BY <1>1, ReachClosed DEF Below
<1>3. C \in (SUBSET Roles) \ {{}}
  BY <1>2
<1>4. PICK q \in C : Nested(docs, q) \intersect C = {}
  BY <1>3 DEF Acyclic
<1>5. q \in Roles /\ r \in Reach(docs, Nested(docs, q)) /\ q \in Below(docs, r)
  BY <1>2, <1>4 DEF Below
<1>6. r \in Nested(docs, q) \/ \E n \in Nested(docs, q) : r \in Below(docs, n)
  BY <1>1, <1>5, ReachOfMany
<1>7. Nested(docs, q) \subseteq Below(docs, r)
  BY <1>2, <1>5
<1>8. \E n \in Nested(docs, q) : n \in C
  BY <1>6, <1>7
<1>9. QED
  BY <1>4, <1>8

\* Two states of the roles agree on a set of them that is closed under nesting.
AgreeOn(docs, docs2, E) ==
    /\ E \in SUBSET Roles
    /\ \A r \in E : docs2[r] = docs[r] /\ Nested(docs, r) \subseteq E

\* What is worked out from some roles depends on no role outside a set that
\* holds them and is closed under nesting.
LEMMA CoalescedSame ==
    ASSUME NEW docs, NEW docs2, NEW E, NEW rs \in SUBSET E, AgreeOn(docs, docs2, E)
    PROVE  Coalesced(docs2, rs) = Coalesced(docs, rs)
<1> E \in SUBSET Roles /\ \A r \in E : docs2[r] = docs[r] /\ Nested(docs, r) \subseteq E
  BY DEF AgreeOn
<1>1. \A r \in E : Nested(docs2, r) = Nested(docs, r)
  BY DEF Nested
<1>2. Reach(docs, rs) \subseteq E /\ Reach(docs2, rs) \subseteq E
  BY <1>1, ReachLeast
<1>3. /\ rs \subseteq Reach(docs, rs) /\ rs \subseteq Reach(docs2, rs)
      /\ \A r \in Reach(docs, rs) : Nested(docs, r) \subseteq Reach(docs, rs)
      /\ \A r \in Reach(docs2, rs) : Nested(docs2, r) \subseteq Reach(docs2, rs)
  BY ReachClosed
<1>4. Reach(docs2, rs) \subseteq Reach(docs, rs)
  <2>1. Reach(docs, rs) \in SUBSET Roles
    BY <1>2
  <2>2. \A r \in Reach(docs, rs) : Nested(docs2, r) \subseteq Reach(docs, rs)
    BY <1>1, <1>2, <1>3
  <2>3. QED
    BY <1>3, <2>1, <2>2, ReachLeast
<1>5. Reach(docs, rs) \subseteq Reach(docs2, rs)
  <2>1. Reach(docs2, rs) \in SUBSET Roles
    BY <1>2
  <2>2. \A r \in Reach(docs2, rs) : Nested(docs, r) \subseteq Reach(docs2, rs)
    BY <1>1, <1>2, <1>3
  <2>3. QED
    BY <1>3, <2>1, <2>2, ReachLeast
<1>6. Reach(docs2, rs) = Reach(docs, rs)
  BY <1>4, <1>5
<1>7. QED
  BY <1>2, <1>6 DEF Coalesced

\* A new role has no part in what a guest may do.
LEMMA PostRoleTellsNothing ==
    ASSUME TypeOK, NestingSound, NEW new \in NewRoles, PostRole(new[1], new[2], new[3])
    PROVE  AnonymousPermissions(roles') = AnonymousPermissions(roles)
<1> DEFINE E == ExistingRoles
<1>1. AgreeOn(roles, roles', E)
  <2>1. new[1] \notin E /\ roles \in [Roles -> RoleDocs \union {Gone}]
    BY DEF PostRole, ExistingRoles, TypeOK
  <2>2. \A r \in E : roles'[r] = roles[r]
    BY <2>1 DEF PostRole, ExistingRoles
  <2>3. QED
    BY <2>2 DEF AgreeOn, ExistingRoles, NestingSound, NoDanglingRoles
<1>2. AnonymousRoles \in SUBSET E
  BY AccessAssumption DEF AnonymousRoles, NestingSound, NoDanglingRoles, ExistingUsers
<1> HIDE DEF E
<1>3. Coalesced(roles', AnonymousRoles) = Coalesced(roles, AnonymousRoles)
  BY <1>1, <1>2, CoalescedSame
<1>4. QED
  BY <1>3 DEF AnonymousPermissions

\* What a guest may do, after a step that leaves roles and users alone.
LEMMA GuestSame ==
    ASSUME roles' = roles, users'[Anonymous] = users[Anonymous]
    PROVE  AnonymousPermissions(roles)' = AnonymousPermissions(roles)
BY DEF AnonymousPermissions, AnonymousRoles

\* Only the deletion of a role or a change of the anonymous user leaves the
\* principal in memory behind.
LEMMA GuestStep ==
    ASSUME TypeOK, NestingSound, NoSelfNesting, [Next]_vars, GuestUpToDate,
           \A r \in ExistingRoles : roles'[r] # Gone, users'[Anonymous] = users[Anonymous]
    PROVE  GuestUpToDate'
<1>1. CASE roles' = roles /\ anonymous' = anonymous
  BY <1>1, GuestSame DEF GuestUpToDate
<1>2. ASSUME AnonymousPermissions(roles)' = AnonymousPermissions(roles'),
             anonymous' = AnonymousPermissions(roles')
      PROVE  GuestUpToDate'
  BY <1>2 DEF GuestUpToDate
<1>3. AnonymousPermissions(roles)' = AnonymousPermissions(roles')
  BY DEF AnonymousPermissions, AnonymousRoles
<1>4. ASSUME NEW body \in RoleBodies, PatchRole(body[1], body[2])
      PROVE  GuestUpToDate'
  <2>1. CASE anonymous' = AnonymousPermissions(roles')
    BY <1>2, <1>3, <2>1
  <2>2. CASE AnonymousFails(roles') /\ anonymous' = anonymous
    <3>1. Acyclic(roles')
      BY <1>4, PatchRoleSound DEF NestingSound, NestingAcyclic
    <3>2. AnonymousRoles \in SUBSET Roles
      BY AccessAssumption, UserRolesType DEF AnonymousRoles
    <3>3. users[Anonymous] = Gone /\ Auth = "guest"
      BY <2>2, <3>1, <3>2, WalksEnd DEF AnonymousFails
    <3>4. AnonymousRoles = {}
      BY <3>3 DEF AnonymousRoles
    <3>5. \A docs : Coalesced(docs, {}) = {}
      <4>1. ASSUME NEW docs
            PROVE  Reach(docs, {}) \subseteq {}
        BY ReachLeast
      <4>2. QED
        BY <4>1 DEF Coalesced
    <3>6. AnonymousPermissions(roles') = AnonymousPermissions(roles)
      BY <3>3, <3>4, <3>5 DEF AnonymousPermissions
    <3>7. QED
      BY <1>2, <1>3, <2>2, <3>6 DEF GuestUpToDate
  <2>3. QED
    BY <1>4, <2>1, <2>2 DEF PatchRole
<1>5. ASSUME NEW new \in NewRoles, PostRole(new[1], new[2], new[3])
      PROVE  GuestUpToDate'
  <2>1. anonymous' = anonymous
    BY <1>5 DEF PostRole
  <2>2. QED
    BY <1>2, <1>3, <1>5, <2>1, PostRoleTellsNothing DEF GuestUpToDate
<1>6. ASSUME NEW r \in Roles, DeleteRole(r)
      PROVE  FALSE
  BY <1>6 DEF DeleteRole, ExistingRoles
<1>7. CASE UserNext \/ TokenNext \/ UNCHANGED vars
  BY <1>1, <1>7 DEF UserNext, PatchUser, PostUser, DeleteUser, TokenNext, Login, GuestLogin,
     Verified, Logout, LoginFails, Refresh, CookieUse, Ages, AccessExpires, vars
<1>8. CASE Restart
  <2>1. roles' = roles /\ anonymous' = AnonymousPermissions(roles)
    BY <1>8 DEF Restart
  <2>2. QED
    BY <1>2, <1>3, <2>1
<1>9. QED
  BY <1>4, <1>5, <1>6, <1>7, <1>8 DEF Next, RoleNext

\* The anonymous principal in memory goes out of date in two ways only, if no
\* body nests a role in itself.
THEOREM GuestStaysCurrent == NoSelfNesting => (Spec => GuestGoesStaleUntold)
<1> SUFFICES ASSUME NoSelfNesting
             PROVE  Spec => GuestGoesStaleUntold
  OBVIOUS
<1> DEFINE Kept ==
        GuestUpToDate /\ ~GuestUpToDate' =>
           \/ \E r \in ExistingRoles : roles'[r] = Gone
           \/ users'[Anonymous] # users[Anonymous]
<1>1. TypeOK /\ NestingSound /\ [Next]_vars => [Kept]_vars
  BY GuestStep
<1>2. NestingAcyclic /\ NoDanglingRoles => NestingSound
  BY DEF NestingSound
<1>3. Spec => [](NestingAcyclic /\ NoDanglingRoles)
  BY NestingStaysSound
<1>4. QED
  BY <1>1, <1>2, <1>3, TypeCorrect, PTL DEF Spec, GuestGoesStaleUntold

=============================================================================
