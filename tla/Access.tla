-------------------------------- MODULE Access --------------------------------
(***************************************************************************)
(* Roles and scopes: the authorization helpers of axontask-shared, and     *)
(* requests that ask them before they change the memberships of a tenant.  *)
(* A helper reads the role with one query; by the time the request acts,   *)
(* other requests may have changed it.                                     *)
(*                                                                         *)
(* No handler calls the helpers yet: what a request asks for is free, and  *)
(* that a granted "management" is followed by one statement of Membership  *)
(* is taken from the documentation of require_user_management.             *)
(*                                                                         *)
(* A scope is the sequence of its parts, so that <<"tasks", "*">> stands   *)
(* for tasks:* in the code.  Bound: MaxChanges statements that change a    *)
(* row.                                                                    *)
(***************************************************************************)
EXTENDS Naturals, Sequences

CONSTANTS
    Tenant, User, Session,
    None,           \* no user, role or request
    Founder,        \* the owner that register() gave a tenant
    Scope,          \* scopes that occur in keys or are asked for
    KeyScopes,      \* the scopes of the API keys there are: sets of scopes
    Ask,            \* what requests ask for
    MaxChanges

Role == {"owner", "admin", "member", "viewer"}
Permission == {"read", "write", "manage", "own"}
Check == {"membership", "management", "billing", "access"}

ASSUME AccessAssumption ==
    /\ Founder \in [Tenant -> User] /\ None \notin User \cup Role
    /\ \A s \in Scope : s \in Seq(STRING) /\ s # <<>>
    /\ KeyScopes \subseteq SUBSET Scope
    /\ Ask \subseteq [check : Check, permission : Permission, scope : Scope, owner : User]
    /\ MaxChanges \in Nat

VARIABLES
    role,           \* memberships: per tenant and user, None where there is no row
    joined,         \* history: the pairs that have been a member, and may have a JWT
    pc, ctx, ask,   \* per request: where it is, its AuthContext, what it asks for
    peak,           \* history: the highest level of its user since the request began
    changes

requestVars == <<pc, ctx, ask>>
vars == <<role, joined, requestVars, peak, changes>>

\* from_jwt gives a context a user and no scopes, from_api_key scopes and no user.
Jwt == [tenant : Tenant, user : User, scopes : {{}}]
ApiKey == [tenant : Tenant, user : {None}, scopes : KeyScopes]
Context == Jwt \cup ApiKey

-----------------------------------------------------------------------------
(* MembershipRole. *)

Level(r) == CASE r = "owner" -> 4 [] r = "admin" -> 3 [] r = "member" -> 2 [] OTHER -> 1

HasPermission(r, required) == Level(r) >= Level(required)

\* can_manage_users, can_manage_api_keys, can_view_all_tasks, can_create_tasks,
\* can_manage_billing, can_delete_tenant.
Abilities(r) ==
    (IF r \in {"owner", "admin"} THEN {"users", "apiKeys", "allTasks"} ELSE {})
    \cup (IF r = "viewer" THEN {} ELSE {"createTasks"})
    \cup (IF r = "owner" THEN {"billing", "deleteTenant"} ELSE {})

\* ResourcePermission::min_role
MinRole(p) ==
    CASE p = "read" -> "viewer" [] p = "write" -> "member"
      [] p = "manage" -> "admin" [] p = "own" -> "owner"

\* Membership::get_role
RoleOf(c) == role[c.tenant][c.user]

-----------------------------------------------------------------------------
(* auth/api_key.rs: has_scope. *)

\* Mutant: a wildcard that is asked for is met by each scope below it.
Matches_BothWays(scope, required) ==
    \/ scope = <<"*">> \/ scope = required
    \/ \E w \in {scope, required} :
        LET n == Len(w)  o == IF w = scope THEN required ELSE scope IN
        n > 1 /\ w[n] = "*" /\ Len(o) >= n /\ \A i \in 1 .. n - 1 : o[i] = w[i]

\* tasks:* matches whatever begins with "tasks:".
Matches(scope, required) ==
    \/ scope = <<"*">>
    \/ scope = required
    \/ LET n == Len(scope) IN
       /\ n > 1 /\ scope[n] = "*"
       /\ Len(required) >= n /\ \A i \in 1 .. n - 1 : required[i] = scope[i]

HasScope(scopes, required) == \E s \in scopes : Matches(s, required)

-----------------------------------------------------------------------------
(* auth/authorization.rs. *)

RequireMembership(c) == c.user # None /\ RoleOf(c) # None

\* Mutant: the query forgets the tenant.
RequireRole_AnyTenant(c, required) ==
    c.user # None /\ \E t \in Tenant : role[t][c.user] # None /\ HasPermission(role[t][c.user], required)

\* An API key has no user, and no role.
RequireRole(c, required) ==
    c.user # None /\ RoleOf(c) # None /\ HasPermission(RoleOf(c), required)

\* A JWT has every scope.
RequireScope(c, scope) == c.user # None \/ HasScope(c.scopes, scope)

RequirePermission(c, p, scope) == RequireRole(c, MinRole(p)) /\ RequireScope(c, scope)

\* The owner of a resource needs no membership.
RequireAccess(c, owner, p, scope) ==
    \/ c.user = owner /\ RequireScope(c, scope)
    \/ c.user # owner /\ RequirePermission(c, p, scope)

Passes(c, a) ==
    \/ a.check = "membership" /\ RequireMembership(c)
    \/ a.check = "management" /\ RequireRole(c, "admin")
    \/ a.check = "billing" /\ RequireRole(c, "owner")
    \/ a.check = "access" /\ RequireAccess(c, a.owner, a.permission, a.scope)

-----------------------------------------------------------------------------
(* Requests. *)

\* The level of a context now; 0 without a role.
LevelNow(r, c) == IF c.user = None \/ r[c.tenant][c.user] = None THEN 0 ELSE Level(r[c.tenant][c.user])

Init ==
    /\ role = [t \in Tenant |-> [u \in User |-> IF u = Founder[t] THEN "owner" ELSE None]]
    /\ joined = {<<t, Founder[t]>> : t \in Tenant}
    /\ pc = [s \in Session |-> "idle"]
    /\ ctx = [s \in Session |-> None] /\ ask = [s \in Session |-> None]
    /\ peak = [s \in Session |-> 0]
    /\ changes = 0

\* A request arrives with a JWT, perhaps of somebody who is a member no more, or
\* with an API key.
Begin(s) ==
    /\ pc[s] = "idle" /\ pc' = [pc EXCEPT ![s] = "checking"]
    /\ \E c \in Context, a \in Ask :
        /\ c.user # None => <<c.tenant, c.user>> \in joined
        /\ ctx' = [ctx EXCEPT ![s] = c] /\ ask' = [ask EXCEPT ![s] = a]
        /\ peak' = [peak EXCEPT ![s] = LevelNow(role, c)]
    /\ UNCHANGED <<role, joined, changes>>

Granted(s) ==
    /\ pc[s] = "checking" /\ Passes(ctx[s], ask[s])
    /\ pc' = [pc EXCEPT ![s] = "granted"]
    /\ UNCHANGED <<role, joined, ctx, ask, peak, changes>>

\* The request is answered and forgotten.
Answer(s) ==
    /\ pc' = [pc EXCEPT ![s] = "idle"]
    /\ ctx' = [ctx EXCEPT ![s] = None] /\ ask' = [ask EXCEPT ![s] = None]

\* 403, or 500 if the query fails.
Refused(s) ==
    /\ pc[s] = "checking" /\ Answer(s)
    /\ peak' = [peak EXCEPT ![s] = 0]
    /\ UNCHANGED <<role, joined, changes>>

\* INSERT, which the primary key refuses for a member.
CreateMembership(t, u, r) ==
    /\ role[t][u] = None /\ r \in Role
    /\ role' = [role EXCEPT ![t][u] = r]
    /\ joined' = joined \cup {<<t, u>>}

UpdateRole(t, u, r) ==
    /\ role[t][u] # None /\ r \in Role
    /\ role' = [role EXCEPT ![t][u] = r]
    /\ UNCHANGED joined

DeleteMembership(t, u) ==
    /\ role[t][u] # None
    /\ role' = [role EXCEPT ![t][u] = None]
    /\ UNCHANGED joined

\* The highest level seen, of a request in progress.
Higher(s) ==
    LET n == LevelNow(role', ctx[s]) IN IF n > peak[s] THEN n ELSE peak[s]

\* A granted management request runs its statement on its own tenant.
Manage(s) ==
    /\ pc[s] = "granted" /\ ask[s].check = "management"
    /\ changes < MaxChanges /\ changes' = changes + 1
    /\ \E u \in User, r \in Role :
        LET t == ctx[s].tenant IN
        CreateMembership(t, u, r) \/ UpdateRole(t, u, r) \/ DeleteMembership(t, u)
    /\ Answer(s)
    /\ peak' = [q \in Session |-> IF pc'[q] = "idle" THEN 0 ELSE Higher(q)]

\* The request ends, after its statement has failed or for something else.
Finish(s) ==
    /\ pc[s] = "granted" /\ Answer(s)
    /\ peak' = [peak EXCEPT ![s] = 0]
    /\ UNCHANGED <<role, joined, changes>>

RequestStep(s) == Begin(s) \/ Granted(s) \/ Refused(s) \/ Manage(s) \/ Finish(s)
Next == \E s \in Session : RequestStep(s)
Spec == Init /\ [][Next]_vars

-----------------------------------------------------------------------------
(* Properties. *)

TypeOK ==
    /\ role \in [Tenant -> [User -> Role \cup {None}]]
    /\ joined \subseteq Tenant \X User
    /\ \A t \in Tenant, u \in User : role[t][u] # None => <<t, u>> \in joined
    /\ pc \in [Session -> {"idle", "checking", "granted"}]
    /\ ctx \in [Session -> Context \cup {None}] /\ ask \in [Session -> Ask \cup {None}]
    /\ \A s \in Session : IF pc[s] = "idle" THEN ctx[s] = None /\ ask[s] = None
                             ELSE ctx[s] \in Context /\ ask[s] \in Ask
    /\ peak \in [Session -> 0 .. 4]
    /\ changes \in 0 .. MaxChanges

\* However requests interleave, the memberships of a tenant only change through
\* a request whose user has been an admin or owner of this very tenant since the
\* request began: the check may be out of date, but not older than the request.
RolesComeFromManagers ==
    [][\A t \in Tenant : role'[t] # role[t] =>
        \E s \in Session :
            pc[s] = "granted" /\ ctx[s].tenant = t /\ ctx[s].user # None /\ peak[s] >= Level("admin")]_vars

\* A context has at least the rights of another one: a user with a higher role,
\* or a key whose scopes match each scope of the other.
AtLeast(c, d) ==
    /\ c.tenant = d.tenant
    /\ \/ c.user = None /\ d.user = None /\ \A s \in d.scopes : HasScope(c.scopes, s)
       \/ RequireMembership(c) /\ RequireMembership(d) /\ LevelNow(role, c) >= LevelNow(role, d)

\* More rights never mean less access: of two requests in progress, one that has
\* at least the rights of the other passes each helper that the other passes,
\* unless that one owns the resource, and its role can do whatever the other can.
MoreRightsPass ==
    \A p, q \in Session : pc[p] # "idle" /\ pc[q] # "idle" =>
        LET c == ctx[p]  d == ctx[q] IN
        AtLeast(c, d) =>
            /\ c.user # None => Abilities(RoleOf(d)) \subseteq Abilities(RoleOf(c))
            /\ \A s \in Scope : RequireScope(d, s) => RequireScope(c, s)
            /\ \A a \in Ask : Passes(d, a) /\ (a.check = "access" => a.owner # d.user) => Passes(c, a)
=============================================================================
