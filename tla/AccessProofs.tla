----------------------------- MODULE AccessProofs -----------------------------
(***************************************************************************)
(* Theorems about Access, for any tenants, users, requests and scopes.     *)
(***************************************************************************)
EXTENDS Access, TLAPS

(* Scopes. *)

\* A scope that matches a wildcard matches whatever the wildcard matches.
LEMMA MatchesTransitive ==
    ASSUME NEW r \in Seq(STRING), NEW s \in Seq(STRING), NEW t \in Seq(STRING),
           Matches(r, s), Matches(s, t)
    PROVE  Matches(r, t)
<1> DEFINE n == Len(r)  m == Len(s)
<1>1. n \in Nat /\ m \in Nat /\ Len(t) \in Nat /\ Len(<<"*">>) = 1
  OBVIOUS
<1>2. CASE r = <<"*">> \/ r = s \/ s = t
  BY <1>2 DEF Matches
<1>3. CASE ~(r = <<"*">> \/ r = s \/ s = t)
  <2>1. n > 1 /\ r[n] = "*" /\ m >= n /\ \A i \in 1 .. n - 1 : s[i] = r[i]
    BY <1>3 DEF Matches
  <2>2. s # <<"*">>
    BY <1>1, <2>1
  <2>3. Len(t) >= m /\ \A i \in 1 .. m - 1 : t[i] = s[i]
    BY <1>3, <2>2 DEF Matches
  <2>4. Len(t) >= n
    BY <1>1, <2>1, <2>3
  <2>5. \A i \in 1 .. n - 1 : t[i] = r[i]
    <3> SUFFICES ASSUME NEW i \in 1 .. n - 1 PROVE t[i] = r[i]
      OBVIOUS
    <3>1. i \in 1 .. m - 1
      BY <1>1, <2>1
    <3> QED  BY <2>1, <2>3, <3>1
  <2> QED  BY <2>1, <2>4, <2>5 DEF Matches
<1> QED  BY <1>2, <1>3

LEMMA HasScopeTransitive ==
    ASSUME NEW S \in SUBSET Scope, NEW T \in SUBSET Scope, \A s \in T : HasScope(S, s),
           NEW x \in Scope, HasScope(T, x)
    PROVE  HasScope(S, x)
<1>1. PICK t \in T : Matches(t, x)
  BY DEF HasScope
<1>2. PICK s \in S : Matches(s, t)
  BY DEF HasScope
<1>3. s \in Seq(STRING) /\ t \in Seq(STRING) /\ x \in Seq(STRING)
  BY AccessAssumption
<1>4. Matches(s, x)
  BY <1>1, <1>2, <1>3, MatchesTransitive
<1> QED  BY <1>4 DEF HasScope

-----------------------------------------------------------------------------
(* Types. *)

LEMMA ContextType ==
    ASSUME NEW c \in Context
    PROVE  /\ c.tenant \in Tenant /\ c.user \in User \cup {None} /\ c.scopes \subseteq Scope
           /\ c.user = None => c.scopes \in KeyScopes
BY AccessAssumption DEF Context, Jwt, ApiKey

LEMMA LevelType ==
    ASSUME NEW r \in [Tenant -> [User -> Role \cup {None}]], NEW c \in Context
    PROVE  LevelNow(r, c) \in 0 .. 4
BY DEF LevelNow, Level

\* What the statements of a request leave of the memberships.
LEMMA StatementType ==
    ASSUME TypeOK, NEW t \in Tenant, NEW u \in User, NEW r \in Role,
           CreateMembership(t, u, r) \/ UpdateRole(t, u, r) \/ DeleteMembership(t, u)
    PROVE  /\ role' \in [Tenant -> [User -> Role \cup {None}]]
           /\ joined' \subseteq Tenant \X User
           /\ \A k \in Tenant, v \in User : role'[k][v] # None => <<k, v>> \in joined'
           /\ \A k \in Tenant \ {t} : role'[k] = role[k]
<1> USE DEF TypeOK
<1>1. CASE CreateMembership(t, u, r)
  BY <1>1 DEF CreateMembership
<1>2. CASE UpdateRole(t, u, r)
  BY <1>2 DEF UpdateRole
<1>3. CASE DeleteMembership(t, u)
  BY <1>3 DEF DeleteMembership
<1> QED  BY <1>1, <1>2, <1>3

\* The code behaviour: rows of memberships only name members, a request has a
\* context while it is in progress, and statements stay within their bound.
THEOREM TypeCorrect == Spec => []TypeOK
<1>1. Init => TypeOK
  BY AccessAssumption DEF Init, TypeOK, Role
<1>2. TypeOK /\ [Next]_vars => TypeOK'
  <2> SUFFICES ASSUME TypeOK, [Next]_vars PROVE TypeOK'
    OBVIOUS
  <2>1. ASSUME NEW s \in Session, Begin(s) PROVE TypeOK'
    <3>1. PICK c \in Context, a \in Ask :
            /\ ctx' = [ctx EXCEPT ![s] = c] /\ ask' = [ask EXCEPT ![s] = a]
            /\ peak' = [peak EXCEPT ![s] = LevelNow(role, c)]
      BY <2>1 DEF Begin
    <3>2. LevelNow(role, c) \in 0 .. 4
      BY LevelType DEF TypeOK
    <3> QED  BY <2>1, <3>1, <3>2 DEF Begin, TypeOK
  <2>2. ASSUME NEW s \in Session, Granted(s) PROVE TypeOK'
    BY <2>2 DEF Granted, TypeOK
  <2>3. ASSUME NEW s \in Session, Refused(s) \/ Finish(s) PROVE TypeOK'
    BY <2>3 DEF Refused, Finish, Answer, TypeOK
  <2>4. ASSUME NEW s \in Session, Manage(s) PROVE TypeOK'
    <3>1. /\ pc' = [pc EXCEPT ![s] = "idle"] /\ ctx' = [ctx EXCEPT ![s] = None]
          /\ ask' = [ask EXCEPT ![s] = None] /\ changes < MaxChanges /\ changes' = changes + 1
          /\ peak' = [q \in Session |-> IF pc'[q] = "idle" THEN 0 ELSE Higher(q)]
          /\ pc[s] = "granted"
      BY <2>4 DEF Manage, Answer
    <3>2. ctx[s].tenant \in Tenant
      BY <3>1, ContextType DEF TypeOK
    <3>3. PICK u \in User, r \in Role :
            \/ CreateMembership(ctx[s].tenant, u, r) \/ UpdateRole(ctx[s].tenant, u, r)
            \/ DeleteMembership(ctx[s].tenant, u)
      BY <2>4 DEF Manage
    <3>4. /\ role' \in [Tenant -> [User -> Role \cup {None}]] /\ joined' \subseteq Tenant \X User
          /\ \A k \in Tenant, v \in User : role'[k][v] # None => <<k, v>> \in joined'
      BY <3>2, <3>3, StatementType
    <3>5. peak' \in [Session -> 0 .. 4]
      <4> SUFFICES ASSUME NEW q \in Session, pc'[q] # "idle" PROVE Higher(q) \in 0 .. 4
        BY <3>1
      <4>1. ctx[q] \in Context /\ peak[q] \in 0 .. 4
        BY <3>1 DEF TypeOK
      <4> QED  BY <3>4, <4>1, LevelType DEF Higher
    <3>6. changes' \in 0 .. MaxChanges
      BY <3>1, AccessAssumption DEF TypeOK
    <3>7. /\ pc' \in [Session -> {"idle", "checking", "granted"}]
          /\ ctx' \in [Session -> Context \cup {None}] /\ ask' \in [Session -> Ask \cup {None}]
          /\ \A k \in Session : IF pc'[k] = "idle" THEN ctx'[k] = None /\ ask'[k] = None
                                   ELSE ctx'[k] \in Context /\ ask'[k] \in Ask
      BY <3>1 DEF TypeOK
    <3> QED  BY <3>4, <3>5, <3>6, <3>7 DEF TypeOK
  <2>5. CASE UNCHANGED vars
    BY <2>5 DEF vars, requestVars, TypeOK
  <2> QED  BY <2>1, <2>2, <2>3, <2>4, <2>5 DEF Next, RequestStep
<1> QED  BY <1>1, <1>2, PTL DEF Spec
-----------------------------------------------------------------------------
(* RolesComeFromManagers. *)

\* The peak of a request is at least the level its user has now, and a granted
\* management request had the level of an admin at some time.
Rank ==
    \A s \in Session : pc[s] # "idle" =>
        /\ LevelNow(role, ctx[s]) <= peak[s]
        /\ pc[s] = "granted" /\ ask[s].check = "management" =>
               ctx[s].user # None /\ peak[s] >= Level("admin")

LEMMA AdminLevel ==
    ASSUME NEW c, NEW a, Passes(c, a), a.check = "management"
    PROVE  c.user # None /\ LevelNow(role, c) >= Level("admin")
<1>1. RequireRole(c, "admin")
  BY DEF Passes
<1> QED  BY <1>1 DEF RequireRole, RoleOf, HasPermission, LevelNow

\* The code behaviour: whoever is let through as a manager was one during the request.
THEOREM RankInvariant == Spec => []Rank
<1>1. Init => Rank
  BY DEF Init, Rank
<1>2. TypeOK /\ TypeOK' /\ Rank /\ [Next]_vars => Rank'
  <2> SUFFICES ASSUME TypeOK, TypeOK', Rank, [Next]_vars PROVE Rank'
    OBVIOUS
  <2>1. ASSUME NEW s \in Session, Begin(s) PROVE Rank'
    <3>1. PICK c \in Context, a \in Ask :
            /\ ctx' = [ctx EXCEPT ![s] = c] /\ ask' = [ask EXCEPT ![s] = a]
            /\ peak' = [peak EXCEPT ![s] = LevelNow(role, c)]
      BY <2>1 DEF Begin
    <3>2. LevelNow(role, c) \in 0 .. 4
      BY LevelType DEF TypeOK
    <3>3. role' = role /\ pc' = [pc EXCEPT ![s] = "checking"]
      BY <2>1 DEF Begin
    <3> QED  BY <3>1, <3>2, <3>3 DEF Rank, TypeOK, LevelNow
  <2>2. ASSUME NEW s \in Session, Granted(s) PROVE Rank'
    <3>1. /\ pc[s] = "checking" /\ pc' = [pc EXCEPT ![s] = "granted"]
          /\ UNCHANGED <<role, ctx, ask, peak>> /\ Passes(ctx[s], ask[s])
      BY <2>2 DEF Granted
    <3>2. ask[s].check = "management" =>
             ctx[s].user # None /\ LevelNow(role, ctx[s]) >= Level("admin")
      BY <3>1, AdminLevel
    <3>3. LevelNow(role, ctx[s]) \in 0 .. 4 /\ peak[s] \in 0 .. 4 /\ LevelNow(role, ctx[s]) <= peak[s]
      BY <3>1, LevelType DEF TypeOK, Rank
    <3>4. ask[s].check = "management" => ctx[s].user # None /\ peak[s] >= Level("admin")
      BY <3>2, <3>3 DEF Level
    <3> QED  BY <3>1, <3>4 DEF Rank, TypeOK, LevelNow
  <2>3. ASSUME NEW s \in Session, Refused(s) \/ Finish(s) PROVE Rank'
    <3>1. /\ pc' = [pc EXCEPT ![s] = "idle"] /\ ctx' = [ctx EXCEPT ![s] = None] /\ role' = role
          /\ ask' = [ask EXCEPT ![s] = None] /\ peak' = [peak EXCEPT ![s] = 0]
      BY <2>3 DEF Refused, Finish, Answer
    <3> QED  BY <3>1 DEF Rank, TypeOK, LevelNow
  <2>4. ASSUME NEW s \in Session, Manage(s) PROVE Rank'
    <3>1. /\ pc' = [pc EXCEPT ![s] = "idle"] /\ ctx' = [ctx EXCEPT ![s] = None]
          /\ ask' = [ask EXCEPT ![s] = None]
          /\ peak' = [q \in Session |-> IF pc'[q] = "idle" THEN 0 ELSE Higher(q)]
      BY <2>4 DEF Manage, Answer
    <3> SUFFICES ASSUME NEW q \in Session, pc'[q] # "idle"
                 PROVE  /\ LevelNow(role', ctx'[q]) <= peak'[q]
                        /\ pc'[q] = "granted" /\ ask'[q].check = "management" =>
                               ctx'[q].user # None /\ peak'[q] >= Level("admin")
      BY DEF Rank
    <3>2. /\ q # s /\ pc'[q] = pc[q] /\ ctx'[q] = ctx[q] /\ ask'[q] = ask[q] /\ peak'[q] = Higher(q)
      BY <3>1 DEF TypeOK
    <3>3. LevelNow(role', ctx[q]) \in 0 .. 4 /\ peak[q] \in 0 .. 4
      BY <3>2, LevelType DEF TypeOK
    <3>4. Higher(q) >= peak[q] /\ Higher(q) >= LevelNow(role', ctx[q])
      BY <3>3 DEF Higher
    <3>5. pc[q] = "granted" /\ ask[q].check = "management" =>
             ctx[q].user # None /\ peak[q] >= Level("admin")
      BY <3>2 DEF Rank
    <3>6. Higher(q) \in 0 .. 4
      BY <3>3 DEF Higher
    <3> QED  BY <3>2, <3>3, <3>4, <3>5, <3>6 DEF Level
  <2>5. CASE UNCHANGED vars
    BY <2>5 DEF vars, requestVars, Rank, LevelNow
  <2> QED  BY <2>1, <2>2, <2>3, <2>4, <2>5 DEF Next, RequestStep
<1> QED  BY <1>1, <1>2, TypeCorrect, PTL DEF Spec

\* The code behaviour: require_user_management, then one statement on the tenant
\* of the request, keeps the memberships of other tenants as they are.
THEOREM RolesComeFromManagersHolds == Spec => RolesComeFromManagers
<1> DEFINE Managed ==
      \A t \in Tenant : role'[t] # role[t] =>
        \E s \in Session :
            pc[s] = "granted" /\ ctx[s].tenant = t /\ ctx[s].user # None /\ peak[s] >= Level("admin")
<1>1. TypeOK /\ Rank /\ [Next]_vars => [Managed]_vars
  <2> SUFFICES ASSUME TypeOK, Rank, Next PROVE Managed
    OBVIOUS
  <2>1. ASSUME NEW s \in Session, Manage(s) PROVE Managed
    <3>1. pc[s] = "granted" /\ ask[s].check = "management"
      BY <2>1 DEF Manage
    <3>2. ctx[s].user # None /\ peak[s] >= Level("admin") /\ ctx[s].tenant \in Tenant
      BY <3>1, ContextType DEF Rank, TypeOK
    <3>3. PICK u \in User, r \in Role :
            \/ CreateMembership(ctx[s].tenant, u, r) \/ UpdateRole(ctx[s].tenant, u, r)
            \/ DeleteMembership(ctx[s].tenant, u)
      BY <2>1 DEF Manage
    <3>4. \A t \in Tenant \ {ctx[s].tenant} : role'[t] = role[t]
      BY <3>2, <3>3, StatementType
    <3> QED  BY <3>1, <3>2, <3>4
  <2>2. ASSUME NEW s \in Session, Begin(s) \/ Granted(s) \/ Refused(s) \/ Finish(s) PROVE Managed
    BY <2>2 DEF Begin, Granted, Refused, Finish
  <2> QED  BY <2>1, <2>2 DEF Next, RequestStep
<1> QED  BY <1>1, TypeCorrect, RankInvariant, PTL DEF Spec, RolesComeFromManagers

-----------------------------------------------------------------------------
(* MoreRightsPass. *)

LEMMA RoleOfMember ==
    ASSUME TypeOK, NEW c \in Context, RequireMembership(c)
    PROVE  /\ RoleOf(c) \in Role /\ LevelNow(role, c) = Level(RoleOf(c))
           /\ LevelNow(role, c) \in 1 .. 4
<1>1. RoleOf(c) \in Role
  BY ContextType DEF RequireMembership, RoleOf, TypeOK
<1> QED  BY <1>1 DEF RequireMembership, RoleOf, LevelNow, Level

LEMMA MoreRole ==
    ASSUME TypeOK, NEW c \in Context, NEW d \in Context, NEW r \in Role,
           RequireMembership(c), RequireMembership(d), LevelNow(role, c) >= LevelNow(role, d),
           RequireRole(d, r)
    PROVE  RequireRole(c, r)
<1>1. Level(r) \in 1 .. 4 /\ LevelNow(role, c) \in 1 .. 4 /\ LevelNow(role, d) \in 1 .. 4
  BY RoleOfMember DEF Level
<1>2. Level(RoleOf(d)) >= Level(r)
  BY DEF RequireRole, HasPermission
<1>3. Level(RoleOf(c)) >= Level(r)
  BY <1>1, <1>2, RoleOfMember
<1> QED  BY <1>3 DEF RequireRole, RequireMembership, HasPermission

LEMMA MoreAbilities ==
    ASSUME NEW r \in Role, NEW s \in Role, Level(r) >= Level(s)
    PROVE  Abilities(s) \subseteq Abilities(r)
BY DEF Role, Level, Abilities

LEMMA MinRoleType ==
    ASSUME NEW p \in Permission
    PROVE  MinRole(p) \in Role
BY DEF MinRole, Permission, Role

LEMMA MoreScopes ==
    ASSUME TypeOK, NEW c \in Context, NEW d \in Context, AtLeast(c, d),
           NEW x \in Scope, RequireScope(d, x)
    PROVE  RequireScope(c, x)
<1>1. CASE c.user = None /\ d.user = None /\ \A s \in d.scopes : HasScope(c.scopes, s)
  <2>1. HasScope(d.scopes, x) /\ c.scopes \in SUBSET Scope /\ d.scopes \in SUBSET Scope
    BY <1>1, ContextType DEF RequireScope
  <2>2. HasScope(c.scopes, x)
    BY <1>1, <2>1, HasScopeTransitive
  <2> QED  BY <2>2 DEF RequireScope
<1>2. CASE RequireMembership(c)
  BY <1>2 DEF RequireMembership, RequireScope
<1> QED  BY <1>1, <1>2 DEF AtLeast

\* The code behaviour: has_permission compares levels and has_scope wildcards, so
\* that a higher role or a wider wildcard is never refused what a lower one gets.
THEOREM MoreRightsPassHolds == Spec => []MoreRightsPass
<1>1. TypeOK => MoreRightsPass
  <2> SUFFICES ASSUME TypeOK, NEW p \in Session, NEW q \in Session, pc[p] # "idle", pc[q] # "idle",
                      AtLeast(ctx[p], ctx[q])
               PROVE  /\ ctx[p].user # None => Abilities(RoleOf(ctx[q])) \subseteq Abilities(RoleOf(ctx[p]))
                      /\ \A s \in Scope : RequireScope(ctx[q], s) => RequireScope(ctx[p], s)
                      /\ \A a \in Ask : Passes(ctx[q], a) /\ (a.check = "access" => a.owner # ctx[q].user)
                                          => Passes(ctx[p], a)
    BY DEF MoreRightsPass
  <2>1. ctx[p] \in Context /\ ctx[q] \in Context
    BY DEF TypeOK
  <2>2. \A s \in Scope : RequireScope(ctx[q], s) => RequireScope(ctx[p], s)
    BY <2>1, MoreScopes
  <2>3. ASSUME NEW a \in Ask, Passes(ctx[q], a), a.check = "access" => a.owner # ctx[q].user
        PROVE  Passes(ctx[p], a)
    <3>1. /\ a.permission \in Permission /\ a.scope \in Scope /\ a.check \in Check
      BY AccessAssumption
    <3>2. ctx[q].user # None
      BY <2>3 DEF Passes, RequireMembership, RequireRole, RequireAccess, RequirePermission
    <3>3. /\ RequireMembership(ctx[p]) /\ RequireMembership(ctx[q])
          /\ LevelNow(role, ctx[p]) >= LevelNow(role, ctx[q])
      BY <3>2 DEF AtLeast
    <3>4. \A r \in Role : RequireRole(ctx[q], r) => RequireRole(ctx[p], r)
      BY <2>1, <3>3, MoreRole
    <3>5. CASE a.check = "membership"
      BY <3>3, <3>5 DEF Passes
    <3>6. CASE a.check \in {"management", "billing"}
      BY <2>3, <3>4, <3>6 DEF Passes, Role
    <3>7. CASE a.check = "access"
      <4>1. RequirePermission(ctx[q], a.permission, a.scope)
        BY <2>3, <3>7 DEF Passes, RequireAccess
      <4>2. RequirePermission(ctx[p], a.permission, a.scope)
        BY <2>2, <3>1, <3>4, <4>1, MinRoleType DEF RequirePermission
      <4>3. RequireAccess(ctx[p], a.owner, a.permission, a.scope)
        BY <4>2 DEF RequireAccess, RequirePermission
      <4> QED  BY <3>7, <4>3 DEF Passes
    <3> QED  BY <3>1, <3>5, <3>6, <3>7 DEF Check
  <2>4. ASSUME ctx[p].user # None
        PROVE  Abilities(RoleOf(ctx[q])) \subseteq Abilities(RoleOf(ctx[p]))
    <3>1. /\ RequireMembership(ctx[p]) /\ RequireMembership(ctx[q])
          /\ LevelNow(role, ctx[p]) >= LevelNow(role, ctx[q])
      BY <2>4 DEF AtLeast
    <3>2. /\ RoleOf(ctx[p]) \in Role /\ RoleOf(ctx[q]) \in Role
          /\ Level(RoleOf(ctx[p])) >= Level(RoleOf(ctx[q]))
      BY <2>1, <3>1, RoleOfMember
    <3> QED  BY <3>2, MoreAbilities
  <2> QED  BY <2>2, <2>3, <2>4
<1> QED  BY <1>1, TypeCorrect, PTL
=============================================================================
