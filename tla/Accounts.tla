------------------------------- MODULE Accounts -------------------------------
(***************************************************************************)
(* Users, tenants, memberships and API keys: register, login, refresh,     *)
(* create_api_key and revoke_api_key with the layer that authenticates     *)
(* their requests; the middleware for API keys, which no route has yet;    *)
(* and the statements of the models that an administrator may run.  No     *)
(* handler uses a transaction.                                             *)
(*                                                                         *)
(* A call of register is named like the user and the tenant it inserts.    *)
(* Roles, scopes and passwords are left out: no handler reads them once it *)
(* has let a request in.                                                   *)
(*                                                                         *)
(* Any statement may fail, before or after it was executed.  Bounds: in    *)
(* MaxFailures calls of register, and MaxChanges statements of an          *)
(* administrator.                                                          *)
(***************************************************************************)
EXTENDS Naturals, FiniteSets, FiniteSetsExt

CONSTANTS
    Call,           \* calls of register
    EmailOf,        \* the address given in a call
    Session,        \* other requests that may be in progress at a time
    Key,            \* ids of API keys
    None,           \* no user, tenant or key
    MaxFailures, MaxChanges

ASSUME AccountsAssumption ==
    /\ DOMAIN EmailOf = Call
    /\ None \notin Call \cup Key
    /\ MaxFailures \in Nat /\ MaxChanges \in Nat

VARIABLES
    users, tenants, \* rows, by the call that inserted them
    members,        \* rows of memberships; at orders them by created_at
    keys,           \* rows of api_keys; "untold": inserted, but the answer was lost
    made,           \* ids that have been used
    tokens,         \* JWTs handed out; access tokens leave it when they expire
    reg,            \* where register() is, or what it returned
    pc,             \* where another request is
    ctx,            \* its AuthContext, or the variables of login()
    joined,         \* memberships there have ever been
    revoked,        \* keys reported as revoked
    removed,        \* an administrator has deleted a user, tenant or membership
    changes

rowVars == <<users, tenants, members, joined>>
keyVars == <<keys, made>>
callVars == <<pc, ctx>>
doneVars == <<revoked, removed>>
vars == <<rowVars, keyVars, tokens, reg, callVars, doneVars, changes>>

Pair == [tenant : Call, user : Call]
Member == [tenant : Call, user : Call, at : Nat]
Token == [tenant : Call, user : Call, type : {"access", "refresh"}]
Context == [tenant : Call \cup {None}, user : Call \cup {None}, key : Key \cup {None}]
NoContext == [tenant |-> None, user |-> None, key |-> None]
KeyRow == [id : Key, tenant : Call, state : {"live", "untold", "revoked"}, expired : BOOLEAN]

\* Types, and the foreign keys: no row outlives the rows it refers to.
TypeOK ==
    /\ users \subseteq Call /\ tenants \subseteq Call
    /\ members \subseteq Member
    /\ \A m \in members : m.user \in users /\ m.tenant \in tenants
    /\ keys \subseteq KeyRow
    /\ \A k \in keys : k.tenant \in tenants
    /\ made \subseteq Key /\ revoked \subseteq Key
    /\ tokens \subseteq Token /\ joined \subseteq Pair
    /\ reg \in [Call -> {"user", "tenant", "owner", "ok", "conflict", "failed"}]
    /\ pc \in [Session -> {"idle", "list", "touch", "handler", "validated"}]
    /\ ctx \in [Session -> Context]
    /\ removed \in BOOLEAN
    /\ changes \in 0 .. MaxChanges

Init ==
    /\ users = {} /\ tenants = {} /\ members = {} /\ joined = {}
    /\ keys = {} /\ made = {} /\ tokens = {}
    /\ reg = [c \in Call |-> "user"]
    /\ pc = [s \in Session |-> "idle"]
    /\ ctx = [s \in Session |-> NoContext]
    /\ revoked = {} /\ removed = FALSE
    /\ changes = 0

-----------------------------------------------------------------------------
(* register: three INSERT statements, then the tokens. *)

\* UNIQUE (email).
EmailFree(c) == \A u \in users : EmailOf[u] # EmailOf[c]

\* The access and the refresh token for a user and a tenant.
Tokens(u, t) == {[tenant |-> t, user |-> u, type |-> y] : y \in {"access", "refresh"}}

\* The primary key and the foreign keys of memberships.
MayJoin(u, t) ==
    /\ u \in users /\ t \in tenants
    /\ ~\E m \in members : m.user = u /\ m.tenant = t

\* INSERT INTO memberships, later than the rows there are.
Join(u, t) ==
    /\ MayJoin(u, t)
    /\ members' = members \cup
         {[tenant |-> t, user |-> u, at |-> 1 + Max({0} \cup {m.at : m \in members})]}
    /\ joined' = joined \cup {[tenant |-> t, user |-> u]}
    /\ UNCHANGED <<users, tenants>>

InsertUser(c) ==
    /\ EmailFree(c)
    /\ users' = users \cup {c}
    /\ UNCHANGED <<tenants, members, joined>>

InsertTenant(c) ==
    /\ tenants' = tenants \cup {c}
    /\ UNCHANGED <<users, members, joined>>

\* The INSERT that register() is at.
InsertRow(c) ==
    \/ reg[c] = "user" /\ InsertUser(c)
    \/ reg[c] = "tenant" /\ InsertTenant(c)
    \/ reg[c] = "owner" /\ Join(c, c)

\* Mutant: the membership is left to somebody else.
AfterInsert_NoOwner(step) == IF step = "user" THEN "tenant" ELSE "ok"

AfterInsert(step) ==
    CASE step = "user" -> "tenant"
      [] step = "tenant" -> "owner"
      [] step = "owner" -> "ok"

RegisterStep(c) ==
    /\ InsertRow(c)
    /\ reg' = [reg EXCEPT ![c] = AfterInsert(@)]
    /\ tokens' = tokens \cup IF reg'[c] = "ok" THEN Tokens(c, c) ELSE {}
    /\ UNCHANGED <<keyVars, callVars, doneVars, changes>>

\* 409: the address is taken, or the user or the tenant has been deleted, or the
\* membership is there.  The rows inserted before stay.
RegisterRefused(c) ==
    /\ \/ reg[c] = "user" /\ ~EmailFree(c)
       \/ reg[c] = "owner" /\ ~MayJoin(c, c)
    /\ reg' = [reg EXCEPT ![c] = "conflict"]
    /\ UNCHANGED <<rowVars, keyVars, tokens, callVars, doneVars, changes>>

\* 500: a statement fails, or is done and its answer is lost.  No rollback either.
RegisterFails(c) ==
    /\ reg[c] \in {"user", "tenant", "owner"}
    /\ Cardinality({d \in Call : reg[d] = "failed"}) < MaxFailures
    /\ InsertRow(c) \/ UNCHANGED rowVars
    /\ reg' = [reg EXCEPT ![c] = "failed"]
    /\ UNCHANGED <<keyVars, tokens, callVars, doneVars, changes>>

-----------------------------------------------------------------------------
(* login and refresh *)

Goto(s, label, context) ==
    /\ pc' = [pc EXCEPT ![s] = label]
    /\ ctx' = [ctx EXCEPT ![s] = context]

Answer(s) == Goto(s, "idle", NoContext)

\* WHERE email = $1.
FindByEmail(email) == {u \in users : EmailOf[u] = email}

\* With the right password.
LoginFind(s) ==
    /\ pc[s] = "idle"
    /\ \E email \in {EmailOf[c] : c \in Call} :
         \E u \in FindByEmail(email) : Goto(s, "list", [NoContext EXCEPT !.user = u])
    /\ UNCHANGED <<rowVars, keyVars, tokens, reg, doneVars, changes>>

\* Mutant: the oldest membership of anyone.
IsPrimary_Anyone(m, u) == u \in Call /\ \A n \in members : m.at <= n.at

\* m comes first in list_by_user.
IsPrimary(m, u) ==
    /\ m.user = u
    /\ \A n \in members : n.user = u => m.at <= n.at

LoginList(s) ==
    /\ pc[s] = "list"
    /\ \E m \in members :
         IsPrimary(m, ctx[s].user) /\ Goto(s, "touch", [ctx[s] EXCEPT !.tenant = m.tenant])
    /\ UNCHANGED <<rowVars, keyVars, tokens, reg, doneVars, changes>>

\* 500: the user has no membership.
LoginNoTenant(s) ==
    /\ pc[s] = "list"
    /\ ~\E m \in members : m.user = ctx[s].user
    /\ Answer(s)
    /\ UNCHANGED <<rowVars, keyVars, tokens, reg, doneVars, changes>>

\* update_last_login, whose answer is dropped: the user may be gone.
LoginTouch(s) ==
    /\ pc[s] = "touch"
    /\ tokens' = tokens \cup Tokens(ctx[s].user, ctx[s].tenant)
    /\ Answer(s)
    /\ UNCHANGED <<rowVars, keyVars, reg, doneVars, changes>>

LoginFails(s) ==
    /\ pc[s] \in {"list", "touch"}
    /\ Answer(s)
    /\ UNCHANGED <<rowVars, keyVars, tokens, reg, doneVars, changes>>

\* A token that validate_access_token or validate_refresh_token accepts.  Only the
\* token is looked at: neither the user nor the membership need still be there.
Accepted(k, type) == k \in tokens /\ k.type = type

Refresh ==
    /\ \E k \in tokens :
         Accepted(k, "refresh") /\ tokens' = tokens \cup {[k EXCEPT !.type = "access"]}
    /\ UNCHANGED <<rowVars, keyVars, reg, callVars, doneVars, changes>>

\* A refresh token may expire as well; then it is not used, and no step says so.
AccessExpires ==
    /\ \E k \in tokens : Accepted(k, "access") /\ tokens' = tokens \ {k}
    /\ UNCHANGED <<rowVars, keyVars, reg, callVars, doneVars, changes>>

-----------------------------------------------------------------------------
(* API keys *)

\* jwt_auth_layer: the request goes on with the user and the tenant of its token.
JwtAuth(s) ==
    /\ pc[s] = "idle"
    /\ \E k \in tokens :
         /\ Accepted(k, "access")
         /\ Goto(s, "handler", [tenant |-> k.tenant, user |-> k.user, key |-> None])
    /\ UNCHANGED <<rowVars, keyVars, tokens, reg, doneVars, changes>>

\* INSERT INTO api_keys; told: the caller learns the key.  The expires_at that the
\* request asks for may be in the past.
InsertKey(s, told) ==
    /\ ctx[s].tenant \in tenants
    /\ \E k \in Key \ made, expired \in BOOLEAN :
         /\ keys' = keys \cup {[id |-> k, tenant |-> ctx[s].tenant,
                                state |-> IF told THEN "live" ELSE "untold", expired |-> expired]}
         /\ made' = made \cup {k}

CreateApiKey(s) ==
    /\ pc[s] = "handler"
    /\ InsertKey(s, TRUE)
    /\ Answer(s)
    /\ UNCHANGED <<rowVars, tokens, reg, doneVars, changes>>

\* Mutant: the UPDATE of revoke(), without tenant_id.
Owns_Any(s, k) == s \in Session /\ k.tenant \in Call

\* AND tenant_id = $2.
Owns(s, k) == k.tenant = ctx[s].tenant

\* An UPDATE of the row k.
Replace(k, row) == keys' = (keys \ {k}) \cup {row} /\ made' = made

RevokeRow(s, k) == Owns(s, k) /\ Replace(k, [k EXCEPT !.state = "revoked"])

RevokeApiKey(s) ==
    /\ pc[s] = "handler"
    /\ \E k \in keys : RevokeRow(s, k) /\ revoked' = revoked \cup {k.id}
    /\ Answer(s)
    /\ UNCHANGED <<rowVars, tokens, reg, removed, changes>>

\* 404, 409 (the tenant is gone), a validation error, or a handler that only reads.
HandlerAnswers(s) ==
    /\ pc[s] = "handler"
    /\ Answer(s)
    /\ UNCHANGED <<rowVars, keyVars, tokens, reg, doneVars, changes>>

\* The answer is lost after the statement (without it: HandlerAnswers).
HandlerFails(s) ==
    /\ pc[s] = "handler"
    /\ InsertKey(s, FALSE) \/ \E k \in keys : RevokeRow(s, k)
    /\ Answer(s)
    /\ UNCHANGED <<rowVars, tokens, reg, doneVars, changes>>

\* Mutant: the UPDATE does not look at revoked.
Valid_Revoked(k) == k.state \in {"live", "revoked"} /\ ~k.expired

\* Mutant: the UPDATE does not look at expires_at.
Valid_Expired(k) == k.state = "live"

\* WHERE key_hash = $1 AND revoked = FALSE AND (expires_at IS NULL OR expires_at > NOW()).
Valid(k) == k.state = "live" /\ ~k.expired

\* ApiKey::validate in api_key_auth_middleware.
Validate(s) ==
    /\ pc[s] = "idle"
    /\ \E k \in keys :
         Valid(k) /\ Goto(s, "validated", [tenant |-> k.tenant, user |-> None, key |-> k.id])
    /\ UNCHANGED <<rowVars, keyVars, tokens, reg, doneVars, changes>>

\* is_expired() of the row that validate() returned refuses the request or lets it
\* go on to a handler; none is behind this layer yet.
Admit(s) ==
    /\ pc[s] = "validated"
    /\ Answer(s)
    /\ UNCHANGED <<rowVars, keyVars, tokens, reg, doneVars, changes>>

KeyExpires ==
    /\ \E k \in keys : ~k.expired /\ Replace(k, [k EXCEPT !.expired = TRUE])
    /\ UNCHANGED <<rowVars, tokens, reg, callVars, doneVars, changes>>

-----------------------------------------------------------------------------
(* Statements of the models that no handler runs *)

Change == changes < MaxChanges /\ changes' = changes + 1 /\ UNCHANGED <<tokens, reg, callVars, revoked>>

\* Membership::create
AddMember ==
    /\ \E u \in users, t \in tenants : Join(u, t)
    /\ Change
    /\ UNCHANGED <<keyVars, removed>>

\* Membership::delete
RemoveMember ==
    /\ \E m \in members : members' = members \ {m}
    /\ removed' = TRUE
    /\ Change
    /\ UNCHANGED <<users, tenants, joined, keyVars>>

\* User::delete, with ON DELETE CASCADE
DeleteUser ==
    /\ \E u \in users :
         /\ users' = users \ {u}
         /\ members' = {m \in members : m.user # u}
    /\ removed' = TRUE
    /\ Change
    /\ UNCHANGED <<tenants, joined, keyVars>>

\* Mutant: ON DELETE CASCADE forgotten in api_keys.
KeysWithout_Kept(t) == {k \in keys : t \in Call}

\* The keys of other tenants.
KeysWithout(t) == {k \in keys : k.tenant # t}

\* Tenant::delete, with ON DELETE CASCADE
DeleteTenant ==
    /\ \E t \in tenants :
         /\ tenants' = tenants \ {t}
         /\ members' = {m \in members : m.tenant # t}
         /\ keys' = KeysWithout(t)
    /\ removed' = TRUE
    /\ Change
    /\ UNCHANGED <<users, joined, made>>

\* ApiKey::delete
DeleteKey ==
    /\ \E k \in keys : keys' = keys \ {k}
    /\ Change
    /\ UNCHANGED <<rowVars, made, removed>>

-----------------------------------------------------------------------------
Next ==
    \/ \E c \in Call : RegisterStep(c) \/ RegisterRefused(c) \/ RegisterFails(c)
    \/ \E s \in Session :
         \/ LoginFind(s) \/ LoginList(s) \/ LoginNoTenant(s) \/ LoginTouch(s) \/ LoginFails(s)
         \/ JwtAuth(s) \/ CreateApiKey(s) \/ RevokeApiKey(s) \/ HandlerAnswers(s) \/ HandlerFails(s)
         \/ Validate(s) \/ Admit(s)
    \/ Refresh \/ AccessExpires \/ KeyExpires
    \/ AddMember \/ RemoveMember \/ DeleteUser \/ DeleteTenant \/ DeleteKey

Spec == Init /\ [][Next]_vars

-----------------------------------------------------------------------------
(* Properties *)

\* A user or a tenant nobody belongs to is what its own registration has left behind,
\* in progress or failed (register() has no transaction), or an administrator: an
\* account that was answered, and one that was refused, is whole.
OrphansNeedFailure ==
    \A c \in Call :
      \/ c \in users /\ ~\E m \in members : m.user = c
      \/ c \in tenants /\ ~\E m \in members : m.tenant = c
      => reg[c] \in {"tenant", "owner", "failed"} \/ removed

\* Whatever is deleted meanwhile, a token names a user and a tenant that this
\* user has belonged to, and so does every request that carries one: login() takes
\* the tenant from a query made before the tokens, refresh() asks nobody.
TokenNamesMembership ==
    /\ \A k \in tokens : [tenant |-> k.tenant, user |-> k.user] \in joined
    /\ \A s \in Session :
         pc[s] \in {"touch", "handler"} => [tenant |-> ctx[s].tenant, user |-> ctx[s].user] \in joined

\* Once revoke_api_key has answered, the key stays revoked and lets no request in,
\* whatever else happens to it; a request validated before may still be under way.
RevocationIsFinal ==
    [][\A k \in revoked :
         /\ \A row \in keys' : row.id = k => row.state = "revoked"
         /\ \A s \in Session : ctx'[s].key = k => ctx[s].key = k]_vars

\* Where a key is in its life, as its row says.  Nobody knows an untold key, but it
\* would be let in.
StageOf(k) ==
    CASE k \notin made -> "unused"
      [] k \in made /\ ~\E row \in keys : row.id = k -> "gone"
      [] \E row \in keys : row.id = k /\ row.state = "revoked" -> "revoked"
      [] \E row \in keys : row.id = k /\ row.state # "revoked" /\ row.expired -> "expired"
      [] OTHER -> "valid"

K == INSTANCE KeyLifecycle WITH
        stage <- [k \in Key |-> StageOf(k)], held <- [s \in Session |-> ctx[s].key]

\* The statements on api_keys of any handlers and administrators, with any failure,
\* give a key one life, and the middleware lets a request in by a valid key only.
KeysLiveOnce == K!Spec

\* A row that is new, or revoked, in this step.
Created(row) == row.id \notin made
Revoked(row) == row.state = "revoked" /\ \E k \in keys : k.id = row.id /\ k.state # "revoked"

\* A key is made or revoked by the request that this step answers (or fails), which
\* came with a token for the tenant of the key, of a user who has belonged to it;
\* the token may be older than any change of users, tenants and memberships.
KeysChangedByMembers ==
    [][\A row \in keys' : Created(row) \/ Revoked(row) =>
         \E s \in Session :
           /\ pc[s] = "handler" /\ pc'[s] = "idle"
           /\ ctx[s].tenant = row.tenant
           /\ [tenant |-> row.tenant, user |-> ctx[s].user] \in joined]_vars
=============================================================================
