---------------------------- MODULE AccountsProofs ----------------------------
(***************************************************************************)
(* Theorems about Accounts, for any number of calls of register, of other  *)
(* requests and of keys, any failures and any statements of administrators.*)
(***************************************************************************)
EXTENDS Accounts, TLAPS

(* Types. *)

\* Every part of memberships has a latest row, so that created_at of the next
\* one is defined.
Tops == \A S \in SUBSET members : S # {} => \E m \in S : \A n \in S : n.at <= m.at

RowTypes ==
    /\ users \subseteq Call /\ tenants \subseteq Call
    /\ members \subseteq Member
    /\ \A m \in members : m.user \in users /\ m.tenant \in tenants
    /\ joined \subseteq Pair
    /\ Tops

KeyTypes ==
    /\ keys \subseteq KeyRow
    /\ \A k \in keys : k.tenant \in tenants
    /\ made \subseteq Key /\ revoked \subseteq Key

\* login() and a request with a token know the user, and then the tenant.
Filled ==
    \A s \in Session :
        /\ pc[s] \in {"list", "touch", "handler"} => ctx[s].user \in Call
        /\ pc[s] \in {"touch", "handler"} => ctx[s].tenant \in Call

CallTypes ==
    /\ pc \in [Session -> {"idle", "list", "touch", "handler", "validated"}]
    /\ ctx \in [Session -> Context]
    /\ Filled

RestTypes ==
    /\ tokens \subseteq Token
    /\ reg \in [Call -> {"user", "tenant", "owner", "ok", "conflict", "failed"}]
    /\ removed \in BOOLEAN
    /\ changes \in 0 .. MaxChanges

Types == RowTypes /\ KeyTypes /\ CallTypes /\ RestTypes

LEMMA TypesAreTypeOK == Types <=> TypeOK /\ Tops /\ Filled
BY DEF Types, TypeOK, RowTypes, KeyTypes, CallTypes, RestTypes

\* What can happen to the rows of users, tenants and memberships.
MemberRemoved == \E m \in members : members' = members \ {m} /\ UNCHANGED <<users, tenants, joined>>
UserDeleted ==
    \E u \in users : /\ users' = users \ {u}
                     /\ members' = {m \in members : m.user # u}
                     /\ UNCHANGED <<tenants, joined>>
TenantDeleted ==
    \E t \in tenants : /\ tenants' = tenants \ {t}
                       /\ members' = {m \in members : m.tenant # t}
                       /\ keys' = KeysWithout(t)
                       /\ UNCHANGED <<users, joined>>

LEMMA RowSteps ==
    ASSUME Types, [Next]_vars
    PROVE  \/ UNCHANGED rowVars
           \/ \E c \in Call : InsertUser(c) \/ InsertTenant(c)
           \/ \E u \in users, t \in tenants : Join(u, t)
           \/ MemberRemoved /\ removed'
           \/ UserDeleted /\ removed'
           \/ TenantDeleted /\ removed'
<1>1. ASSUME NEW c \in Call, InsertRow(c)
      PROVE  \/ InsertUser(c) \/ InsertTenant(c)
             \/ \E u \in users, t \in tenants : Join(u, t)
  BY <1>1 DEF InsertRow, Join, MayJoin
<1>2. ASSUME NEW c \in Call, RegisterStep(c) \/ RegisterRefused(c) \/ RegisterFails(c)
      PROVE  InsertRow(c) \/ UNCHANGED rowVars
  BY <1>2 DEF RegisterStep, RegisterRefused, RegisterFails
<1>3. ASSUME NEW s \in Session,
             \/ LoginFind(s) \/ LoginList(s) \/ LoginNoTenant(s) \/ LoginTouch(s) \/ LoginFails(s)
             \/ JwtAuth(s) \/ CreateApiKey(s) \/ RevokeApiKey(s) \/ HandlerAnswers(s)
             \/ HandlerFails(s) \/ Validate(s) \/ Admit(s)
      PROVE  UNCHANGED rowVars
  BY <1>3 DEF LoginFind, LoginList, LoginNoTenant, LoginTouch, LoginFails, JwtAuth, CreateApiKey,
     RevokeApiKey, HandlerAnswers, HandlerFails, Validate, Admit
<1>4. CASE Refresh \/ AccessExpires \/ KeyExpires \/ DeleteKey
  BY <1>4 DEF Refresh, AccessExpires, KeyExpires, DeleteKey
<1>5. CASE AddMember
  BY <1>5 DEF AddMember
<1>6. CASE RemoveMember
  BY <1>6 DEF RemoveMember, MemberRemoved
<1>7. CASE DeleteUser
  BY <1>7 DEF DeleteUser, UserDeleted
<1>8. CASE DeleteTenant
  BY <1>8 DEF DeleteTenant, TenantDeleted
<1>9. CASE UNCHANGED vars
  BY <1>9 DEF vars
<1> QED  BY <1>1, <1>2, <1>3, <1>4, <1>5, <1>6, <1>7, <1>8, <1>9 DEF Next

\* The row of a new membership is later than all others.
LEMMA NextAt ==
    ASSUME RowTypes
    PROVE  Max({0} \cup {m.at : m \in members}) \in Nat
<1> DEFINE A == {0} \cup {m.at : m \in members}
<1>1. \A m \in members : m.at \in Nat
  BY DEF RowTypes, Member
<1>2. \E x \in A : \A y \in A : x >= y
  <2>1. CASE members = {}
    BY <2>1
  <2>2. CASE members # {}
    <3>1. PICK m \in members : \A n \in members : n.at <= m.at
      BY <2>2 DEF RowTypes, Tops
    <3>2. m.at \in A /\ \A y \in A : m.at >= y
      BY <1>1, <3>1
    <3> QED  BY <3>2
  <2> QED  BY <2>1, <2>2
<1>3. Max(A) \in A
  BY <1>2 DEF Max
<1> QED  BY <1>1, <1>3

LEMMA JoinTypes ==
    ASSUME RowTypes, NEW u \in users, NEW t \in tenants, Join(u, t)
    PROVE  RowTypes'
<1>1. PICK m \in Member : /\ m.user = u /\ m.tenant = t
                          /\ members' = members \cup {m}
  <2> DEFINE at == 1 + Max({0} \cup {m.at : m \in members})
             m == [tenant |-> t, user |-> u, at |-> at]
  <2>1. at \in Nat
    BY NextAt
  <2>2. m \in Member
    BY <2>1 DEF RowTypes, Member
  <2>3. members' = members \cup {m}
    BY DEF Join
  <2> QED  BY <2>2, <2>3
<1>2. UNCHANGED <<users, tenants>> /\ joined' \subseteq Pair
  BY DEF Join, RowTypes, Pair
<1>3. \A n \in members' : n.at \in Nat
  BY <1>1 DEF RowTypes, Member
<1>4. ASSUME NEW S \in SUBSET members', S # {}
      PROVE  \E n \in S : \A o \in S : o.at <= n.at
  <2>1. CASE S \ {m} = {}
    <3>1. S = {m}
      BY <1>4, <2>1
    <3> QED  BY <1>1, <1>3, <3>1
  <2>2. CASE S \ {m} # {}
    <3>1. PICK n \in S \ {m} : \A o \in S \ {m} : o.at <= n.at
      BY <1>1, <2>2 DEF RowTypes, Tops
    <3>2. CASE m \in S /\ m.at >= n.at
      BY <1>3, <3>1, <3>2
    <3>3. CASE m \notin S \/ ~(m.at >= n.at)
      BY <1>3, <1>1, <3>1, <3>3
    <3> QED  BY <3>2, <3>3
  <2> QED  BY <2>1, <2>2
<1> QED  BY <1>1, <1>2, <1>4 DEF RowTypes, Tops

LEMMA RowTypesKept ==
    ASSUME Types, [Next]_vars
    PROVE  RowTypes'
<1> USE DEF Types
<1>1. CASE UNCHANGED rowVars
  BY <1>1 DEF rowVars, RowTypes, Tops
<1>2. ASSUME NEW c \in Call, InsertUser(c) \/ InsertTenant(c) PROVE RowTypes'
  BY <1>2 DEF InsertUser, InsertTenant, RowTypes, Tops
<1>3. ASSUME NEW u \in users, NEW t \in tenants, Join(u, t) PROVE RowTypes'
  BY <1>3, JoinTypes
<1>4. CASE MemberRemoved \/ UserDeleted \/ TenantDeleted
  <2>1. members' \subseteq members /\ joined' = joined
    BY <1>4 DEF MemberRemoved, UserDeleted, TenantDeleted
  <2>2. Tops' /\ members' \subseteq Member /\ joined' \subseteq Pair
    BY <2>1 DEF RowTypes, Tops
  <2>3. CASE MemberRemoved
    BY <2>2, <2>3 DEF MemberRemoved, RowTypes
  <2>4. CASE UserDeleted
    BY <2>2, <2>4 DEF UserDeleted, RowTypes
  <2>5. CASE TenantDeleted
    BY <2>2, <2>5 DEF TenantDeleted, RowTypes
  <2> QED  BY <1>4, <2>3, <2>4, <2>5
<1> QED  BY <1>1, <1>2, <1>3, <1>4, RowSteps

-----------------------------------------------------------------------------
(* What can happen to the rows of api_keys. *)

\* The handler of the request s ends.
Answered(s) == pc[s] = "handler" /\ pc'[s] = "idle"

\* revoked' comes with the row that an answered revoke_api_key changes.
KeysKept == UNCHANGED <<keys, made, revoked>>
KeyInserted ==
    \E s \in Session, k \in Key \ made, t \in tenants, state \in {"live", "untold"}, expired \in BOOLEAN :
        /\ Answered(s) /\ t = ctx[s].tenant
        /\ keys' = keys \cup {[id |-> k, tenant |-> t, state |-> state, expired |-> expired]}
        /\ made' = made \cup {k} /\ revoked' = revoked
KeyRevoked ==
    \E s \in Session, k \in keys :
        /\ Answered(s) /\ RevokeRow(s, k)
        /\ revoked' \in {revoked, revoked \cup {k.id}}
KeyExpired == \E k \in keys : Replace(k, [k EXCEPT !.expired = TRUE]) /\ revoked' = revoked
KeysDeleted == keys' \subseteq keys /\ UNCHANGED <<made, revoked>>

LEMMA KeySteps ==
    ASSUME Types, [Next]_vars
    PROVE  KeysKept \/ KeyInserted \/ KeyRevoked \/ KeyExpired \/ KeysDeleted
<1> USE DEF keyVars, doneVars
<1>1. ASSUME NEW c \in Call, RegisterStep(c) \/ RegisterRefused(c) \/ RegisterFails(c)
      PROVE  KeysKept
  BY <1>1 DEF RegisterStep, RegisterRefused, RegisterFails, KeysKept
<1>2. ASSUME NEW s \in Session,
             \/ LoginFind(s) \/ LoginList(s) \/ LoginNoTenant(s) \/ LoginTouch(s) \/ LoginFails(s)
             \/ JwtAuth(s) \/ HandlerAnswers(s) \/ Validate(s) \/ Admit(s)
      PROVE  KeysKept
  BY <1>2 DEF LoginFind, LoginList, LoginNoTenant, LoginTouch, LoginFails, JwtAuth,
     HandlerAnswers, Validate, Admit, KeysKept
<1>3. ASSUME NEW s \in Session, CreateApiKey(s) \/ RevokeApiKey(s) \/ HandlerFails(s)
      PROVE  Answered(s)
  BY <1>3 DEF CreateApiKey, RevokeApiKey, HandlerFails, Answer, Goto, Answered, Types, CallTypes
<1>4. ASSUME NEW s \in Session, CreateApiKey(s) PROVE KeyInserted
  BY <1>4, <1>3 DEF CreateApiKey, InsertKey, KeyInserted
<1>5. ASSUME NEW s \in Session, RevokeApiKey(s) PROVE KeyRevoked
  BY <1>5, <1>3 DEF RevokeApiKey, KeyRevoked
<1>6. ASSUME NEW s \in Session, HandlerFails(s) PROVE KeyInserted \/ KeyRevoked
  <2>1. CASE InsertKey(s, FALSE)
    BY <1>6, <1>3, <2>1 DEF HandlerFails, InsertKey, KeyInserted
  <2>2. CASE \E k \in keys : RevokeRow(s, k)
    BY <1>6, <1>3, <2>2 DEF HandlerFails, KeyRevoked
  <2> QED  BY <1>6, <2>1, <2>2 DEF HandlerFails
<1>7. CASE Refresh \/ AccessExpires \/ AddMember \/ RemoveMember \/ DeleteUser
  BY <1>7 DEF Refresh, AccessExpires, AddMember, RemoveMember, DeleteUser, Change, KeysKept
<1>8. CASE KeyExpires
  BY <1>8 DEF KeyExpires, KeyExpired
<1>9. CASE DeleteTenant \/ DeleteKey
  BY <1>9 DEF DeleteTenant, DeleteKey, KeysWithout, Change, KeysDeleted
<1>10. CASE UNCHANGED vars
  BY <1>10 DEF vars, KeysKept
<1> QED  BY <1>1, <1>2, <1>4, <1>5, <1>6, <1>7, <1>8, <1>9, <1>10 DEF Next

LEMMA KeyTypesKept ==
    ASSUME Types, [Next]_vars
    PROVE  KeyTypes'
<1> USE DEF Types, KeyTypes
<1>1. keys' \subseteq KeyRow /\ made' \subseteq Key /\ revoked' \subseteq Key
  <2>1. CASE KeysKept \/ KeysDeleted
    BY <2>1 DEF KeysKept, KeysDeleted
  <2>2. CASE KeyInserted
    <3>1. PICK k \in Key \ made, t \in tenants, state \in {"live", "untold"}, expired \in BOOLEAN :
            /\ keys' = keys \cup {[id |-> k, tenant |-> t, state |-> state, expired |-> expired]}
            /\ made' = made \cup {k} /\ revoked' = revoked
      BY <2>2 DEF KeyInserted
    <3>2. [id |-> k, tenant |-> t, state |-> state, expired |-> expired] \in KeyRow
      BY <3>1 DEF KeyRow, RowTypes
    <3> QED  BY <3>1, <3>2
  <2>3. CASE KeyRevoked
    BY <2>3 DEF KeyRevoked, RevokeRow, Replace, KeyRow
  <2>4. CASE KeyExpired
    BY <2>4 DEF KeyExpired, Replace, KeyRow
  <2> QED  BY <2>1, <2>2, <2>3, <2>4, KeySteps
<1>2. ASSUME NEW k \in keys' PROVE k.tenant \in tenants'
  <2>1. CASE TenantDeleted
    BY <1>2, <2>1 DEF TenantDeleted, KeysWithout
  <2>2. CASE ~TenantDeleted
    <3>1. tenants \subseteq tenants'
      BY <2>2, RowSteps DEF rowVars, InsertUser, InsertTenant, Join, MemberRemoved, UserDeleted
    <3>2. k.tenant \in tenants
      <4>1. CASE KeysKept \/ KeysDeleted
        BY <1>2, <4>1 DEF KeysKept, KeysDeleted
      <4>2. CASE KeyInserted
        BY <1>2, <4>2 DEF KeyInserted
      <4>3. CASE KeyRevoked
        BY <1>2, <4>3 DEF KeyRevoked, RevokeRow, Replace, KeyRow
      <4>4. CASE KeyExpired
        BY <1>2, <4>4 DEF KeyExpired, Replace, KeyRow
      <4> QED  BY <4>1, <4>2, <4>3, <4>4, KeySteps
    <3> QED  BY <3>1, <3>2
  <2> QED  BY <2>1, <2>2
<1> QED  BY <1>1, <1>2

LEMMA CallTypesKept ==
    ASSUME Types, [Next]_vars
    PROVE  CallTypes'
<1> USE DEF Types, CallTypes, Filled, Goto, Answer
<1>1. NoContext \in Context
  BY DEF NoContext, Context
<1>2. ASSUME NEW s \in Session, LoginFind(s) PROVE CallTypes'
  <2>1. PICK email, u \in users : Goto(s, "list", [NoContext EXCEPT !.user = u])
    BY <1>2 DEF LoginFind, FindByEmail
  <2>2. [NoContext EXCEPT !.user = u] \in Context /\ [NoContext EXCEPT !.user = u].user \in Call
    BY DEF NoContext, Context, RowTypes
  <2> QED  BY <2>1, <2>2
<1>3. ASSUME NEW s \in Session, LoginList(s) PROVE CallTypes'
  <2>1. PICK m \in members : Goto(s, "touch", [ctx[s] EXCEPT !.tenant = m.tenant])
    BY <1>3 DEF LoginList
  <2> DEFINE c == [ctx[s] EXCEPT !.tenant = m.tenant]
  <2>2. c \in Context /\ c.user \in Call /\ c.tenant \in Call
    BY <1>3 DEF Context, RowTypes, LoginList
  <2> QED  BY <2>1, <2>2
<1>4. ASSUME NEW s \in Session, JwtAuth(s) PROVE CallTypes'
  <2>1. PICK k \in tokens : Goto(s, "handler", [tenant |-> k.tenant, user |-> k.user, key |-> None])
    BY <1>4 DEF JwtAuth
  <2>2. /\ [tenant |-> k.tenant, user |-> k.user, key |-> None] \in Context
        /\ k.user \in Call /\ k.tenant \in Call
    BY DEF Context, RestTypes, Token
  <2> QED  BY <2>1, <2>2
<1>5. ASSUME NEW s \in Session, Validate(s) PROVE CallTypes'
  <2>1. PICK k \in keys : Goto(s, "validated", [tenant |-> k.tenant, user |-> None, key |-> k.id])
    BY <1>5 DEF Validate
  <2>2. [tenant |-> k.tenant, user |-> None, key |-> k.id] \in Context
    BY DEF Context, KeyTypes, KeyRow
  <2> QED  BY <2>1, <2>2
<1>6. ASSUME NEW s \in Session,
             \/ LoginNoTenant(s) \/ LoginTouch(s) \/ LoginFails(s) \/ CreateApiKey(s)
             \/ RevokeApiKey(s) \/ HandlerAnswers(s) \/ HandlerFails(s) \/ Admit(s)
      PROVE  CallTypes'
  <2>1. Answer(s)
    BY <1>6 DEF LoginNoTenant, LoginTouch, LoginFails, CreateApiKey, RevokeApiKey, HandlerAnswers,
       HandlerFails, Admit
  <2> QED  BY <1>1, <2>1
<1>7. CASE \/ \E c \in Call : RegisterStep(c) \/ RegisterRefused(c) \/ RegisterFails(c)
           \/ Refresh \/ AccessExpires \/ KeyExpires
           \/ AddMember \/ RemoveMember \/ DeleteUser \/ DeleteTenant \/ DeleteKey
           \/ UNCHANGED vars
  <2>1. UNCHANGED callVars
    BY <1>7 DEF RegisterStep, RegisterRefused, RegisterFails, Refresh, AccessExpires, KeyExpires,
       AddMember, RemoveMember, DeleteUser, DeleteTenant, DeleteKey, Change, vars
  <2> QED  BY <2>1 DEF callVars
<1> QED  BY <1>2, <1>3, <1>4, <1>5, <1>6, <1>7 DEF Next

\* register's own steps, the steps that hand out tokens, and the others.
LEMMA RestTypesKept ==
    ASSUME Types, [Next]_vars
    PROVE  RestTypes'
<1> USE DEF Types, RestTypes
<1>1. \A u, t \in Call : Tokens(u, t) \subseteq Token
  BY DEF Tokens, Token
<1>2. MaxChanges \in Nat
  BY AccountsAssumption
<1>3. ASSUME NEW c \in Call, RegisterStep(c) PROVE RestTypes'
  <2>1. reg[c] \in {"user", "tenant", "owner"}
    BY <1>3 DEF RegisterStep, InsertRow
  <2>2. AfterInsert(reg[c]) \in {"tenant", "owner", "ok"}
    BY <2>1 DEF AfterInsert
  <2> QED  BY <1>1, <1>3, <2>2 DEF RegisterStep, doneVars
<1>4. ASSUME NEW c \in Call, RegisterRefused(c) \/ RegisterFails(c) PROVE RestTypes'
  BY <1>4 DEF RegisterRefused, RegisterFails, doneVars
<1>5. ASSUME NEW s \in Session, LoginTouch(s) PROVE RestTypes'
  <2>1. ctx[s].user \in Call /\ ctx[s].tenant \in Call
    BY <1>5 DEF LoginTouch, CallTypes, Filled
  <2> QED  BY <1>1, <1>5, <2>1 DEF LoginTouch, doneVars
<1>6. CASE Refresh
  BY <1>6 DEF Refresh, doneVars, Token
<1>7. CASE AccessExpires
  BY <1>7 DEF AccessExpires, doneVars
<1>8. CASE AddMember \/ RemoveMember \/ DeleteUser \/ DeleteTenant \/ DeleteKey
  <2>1. changes' \in 0 .. MaxChanges /\ UNCHANGED <<tokens, reg>>
    BY <1>2, <1>8 DEF AddMember, RemoveMember, DeleteUser, DeleteTenant, DeleteKey, Change
  <2>2. removed' \in BOOLEAN
    BY <1>8 DEF AddMember, RemoveMember, DeleteUser, DeleteTenant, DeleteKey
  <2> QED  BY <2>1, <2>2
<1>9. CASE \/ \E s \in Session :
                \/ LoginFind(s) \/ LoginList(s) \/ LoginNoTenant(s) \/ LoginFails(s)
                \/ JwtAuth(s) \/ CreateApiKey(s) \/ RevokeApiKey(s) \/ HandlerAnswers(s)
                \/ HandlerFails(s) \/ Validate(s) \/ Admit(s)
           \/ KeyExpires \/ UNCHANGED vars
  <2>1. UNCHANGED <<tokens, reg, removed, changes>>
    BY <1>9 DEF LoginFind, LoginList, LoginNoTenant, LoginFails, JwtAuth, CreateApiKey,
       RevokeApiKey, HandlerAnswers, HandlerFails, Validate, Admit, KeyExpires, doneVars, vars
  <2> QED  BY <2>1
<1> QED  BY <1>3, <1>4, <1>5, <1>6, <1>7, <1>8, <1>9 DEF Next

\* Types, and the foreign keys of memberships and api_keys: no row outlives the rows
\* it refers to, and created_at orders the memberships.
THEOREM TypeCorrect == Spec => [](TypeOK /\ Tops /\ Filled)
<1>1. Init => Types
  <2> SUFFICES ASSUME Init PROVE Types
    OBVIOUS
  <2>1. RowTypes /\ KeyTypes
    BY DEF Init, RowTypes, KeyTypes, Tops
  <2>2. CallTypes
    BY DEF Init, CallTypes, Filled, NoContext, Context
  <2>3. RestTypes
    <3>1. [c \in Call |-> "user"] \in [Call -> {"user", "tenant", "owner", "ok", "conflict", "failed"}]
      OBVIOUS
    <3>2. 0 \in 0 .. MaxChanges /\ FALSE \in BOOLEAN
      BY AccountsAssumption
    <3> QED  BY <3>1, <3>2 DEF Init, RestTypes
  <2> QED  BY <2>1, <2>2, <2>3 DEF Types
<1>2. Types /\ [Next]_vars => Types'
  BY RowTypesKept, KeyTypesKept, CallTypesKept, RestTypesKept DEF Types
<1> QED  BY <1>1, <1>2, TypesAreTypeOK, PTL DEF Spec

-----------------------------------------------------------------------------
(* TokenNamesMembership. *)

\* A membership is remembered, and so is what a token or a request names.
Known ==
    /\ \A m \in members : [tenant |-> m.tenant, user |-> m.user] \in joined
    /\ TokenNamesMembership

LEMMA JoinedGrows ==
    ASSUME Types, Known, [Next]_vars
    PROVE  /\ joined \subseteq joined'
           /\ \A m \in members' : [tenant |-> m.tenant, user |-> m.user] \in joined'
<1>1. ASSUME NEW u \in users, NEW t \in tenants, Join(u, t)
      PROVE  /\ joined \subseteq joined'
             /\ \A m \in members' : [tenant |-> m.tenant, user |-> m.user] \in joined'
  BY <1>1 DEF Join, Known
<1> QED
  BY <1>1, RowSteps
  DEF rowVars, InsertUser, InsertTenant, MemberRemoved, UserDeleted, TenantDeleted, Known

\* register() hands out tokens once it has inserted the membership, login() those
\* of the membership it read, and refresh() repeats a token.
LEMMA TokensKnown ==
    ASSUME Types, Known, [Next]_vars
    PROVE  \A k \in tokens' : [tenant |-> k.tenant, user |-> k.user] \in joined'
<1>1. \A k \in tokens : [tenant |-> k.tenant, user |-> k.user] \in joined'
  BY JoinedGrows DEF Known, TokenNamesMembership
<1>2. \A u, t : \A k \in Tokens(u, t) : k.tenant = t /\ k.user = u
  BY DEF Tokens
<1>3. ASSUME NEW c \in Call, RegisterStep(c)
      PROVE  \A k \in tokens' : [tenant |-> k.tenant, user |-> k.user] \in joined'
  <2>1. CASE reg'[c] = "ok"
    <3>1. reg[c] \in {"user", "tenant", "owner"} /\ AfterInsert(reg[c]) = "ok"
      BY <1>3, <2>1 DEF RegisterStep, InsertRow, Types, RestTypes
    <3>2. reg[c] = "owner"
      BY <3>1 DEF AfterInsert
    <3>3. [tenant |-> c, user |-> c] \in joined'
      BY <1>3, <3>2 DEF RegisterStep, InsertRow, Join
    <3>4. \A k \in Tokens(c, c) : [tenant |-> k.tenant, user |-> k.user] \in joined'
      BY <1>2, <3>3
    <3>5. tokens' = tokens \cup Tokens(c, c)
      BY <1>3, <2>1 DEF RegisterStep
    <3> QED  BY <1>1, <3>4, <3>5
  <2> QED  BY <1>1, <1>3, <2>1 DEF RegisterStep
<1>4. ASSUME NEW s \in Session, LoginTouch(s)
      PROVE  \A k \in tokens' : [tenant |-> k.tenant, user |-> k.user] \in joined'
  <2>1. [tenant |-> ctx[s].tenant, user |-> ctx[s].user] \in joined'
    BY <1>4, JoinedGrows DEF LoginTouch, Known, TokenNamesMembership
  <2>2. tokens' = tokens \cup Tokens(ctx[s].user, ctx[s].tenant)
    BY <1>4 DEF LoginTouch
  <2>3. \A k \in Tokens(ctx[s].user, ctx[s].tenant) :
          [tenant |-> k.tenant, user |-> k.user] \in joined'
    BY <1>2, <2>1
  <2> QED  BY <1>1, <2>2, <2>3
<1>5. CASE Refresh
  BY <1>1, <1>5 DEF Refresh, Types, RestTypes, Token
<1>6. ASSUME tokens' \subseteq tokens
      PROVE  \A k \in tokens' : [tenant |-> k.tenant, user |-> k.user] \in joined'
  BY <1>1, <1>6
<1>7. CASE \/ \E c \in Call : RegisterRefused(c) \/ RegisterFails(c)
           \/ \E s \in Session :
                \/ LoginFind(s) \/ LoginList(s) \/ LoginNoTenant(s) \/ LoginFails(s)
                \/ JwtAuth(s) \/ CreateApiKey(s) \/ RevokeApiKey(s) \/ HandlerAnswers(s)
                \/ HandlerFails(s) \/ Validate(s) \/ Admit(s)
           \/ AccessExpires \/ KeyExpires
           \/ AddMember \/ RemoveMember \/ DeleteUser \/ DeleteTenant \/ DeleteKey
           \/ UNCHANGED vars
  <2>1. tokens' \subseteq tokens
    BY <1>7 DEF RegisterRefused, RegisterFails, LoginFind, LoginList, LoginNoTenant, LoginFails,
       JwtAuth, CreateApiKey, RevokeApiKey, HandlerAnswers, HandlerFails, Validate, Admit,
       AccessExpires, KeyExpires, AddMember, RemoveMember, DeleteUser, DeleteTenant, DeleteKey,
       Change, vars
  <2> QED  BY <1>6, <2>1
<1> QED  BY <1>3, <1>4, <1>5, <1>7 DEF Next

\* login() takes the tenant of a membership of its user, jwt_auth_layer that of a
\* token; no other step gives a request a user or a tenant.
LEMMA ContextKnown ==
    ASSUME Types, Known, [Next]_vars, NEW s \in Session, pc'[s] \in {"touch", "handler"}
    PROVE  [tenant |-> ctx'[s].tenant, user |-> ctx'[s].user] \in joined'
<1> USE DEF Types, CallTypes, Goto, Answer
<1>1. joined \subseteq joined'
  BY JoinedGrows
<1>2. CASE pc'[s] = pc[s] /\ ctx'[s] = ctx[s]
  BY <1>1, <1>2 DEF Known, TokenNamesMembership
<1>3. ASSUME NEW r \in Session, LoginList(r)
      PROVE  [tenant |-> ctx'[s].tenant, user |-> ctx'[s].user] \in joined'
  <2>1. CASE r = s
    <3>1. PICK m \in members : /\ m.user = ctx[s].user
                               /\ Goto(s, "touch", [ctx[s] EXCEPT !.tenant = m.tenant])
      BY <1>3, <2>1 DEF LoginList, IsPrimary
    <3>2. ctx'[s].tenant = m.tenant /\ ctx'[s].user = m.user
      BY <3>1 DEF Context
    <3> QED  BY <1>1, <3>2 DEF Known
  <2>2. CASE r # s
    BY <1>2, <1>3, <2>2 DEF LoginList
  <2> QED  BY <2>1, <2>2
<1>4. ASSUME NEW r \in Session, JwtAuth(r)
      PROVE  [tenant |-> ctx'[s].tenant, user |-> ctx'[s].user] \in joined'
  <2>1. CASE r = s
    <3>1. PICK k \in tokens : Goto(s, "handler", [tenant |-> k.tenant, user |-> k.user, key |-> None])
      BY <1>4, <2>1 DEF JwtAuth
    <3>2. ctx'[s].tenant = k.tenant /\ ctx'[s].user = k.user
      BY <3>1
    <3> QED  BY <1>1, <3>2 DEF Known, TokenNamesMembership
  <2>2. CASE r # s
    BY <1>2, <1>4, <2>2 DEF JwtAuth
  <2> QED  BY <2>1, <2>2
<1>5. ASSUME NEW r \in Session, LoginFind(r)
      PROVE  pc'[s] = pc[s] /\ ctx'[s] = ctx[s]
  BY <1>5 DEF LoginFind
<1>6. ASSUME NEW r \in Session, Validate(r)
      PROVE  pc'[s] = pc[s] /\ ctx'[s] = ctx[s]
  BY <1>6 DEF Validate
<1>7. ASSUME NEW r \in Session,
             \/ LoginNoTenant(r) \/ LoginTouch(r) \/ LoginFails(r) \/ CreateApiKey(r)
             \/ RevokeApiKey(r) \/ HandlerAnswers(r) \/ HandlerFails(r) \/ Admit(r)
      PROVE  pc'[s] = pc[s] /\ ctx'[s] = ctx[s]
  <2>1. Answer(r)
    BY <1>7 DEF LoginNoTenant, LoginTouch, LoginFails, CreateApiKey, RevokeApiKey, HandlerAnswers,
       HandlerFails, Admit
  <2> QED  BY <2>1
<1>8. CASE \/ \E c \in Call : RegisterStep(c) \/ RegisterRefused(c) \/ RegisterFails(c)
           \/ Refresh \/ AccessExpires \/ KeyExpires
           \/ AddMember \/ RemoveMember \/ DeleteUser \/ DeleteTenant \/ DeleteKey
           \/ UNCHANGED vars
  <2>1. UNCHANGED callVars
    BY <1>8 DEF RegisterStep, RegisterRefused, RegisterFails, Refresh, AccessExpires, KeyExpires,
       AddMember, RemoveMember, DeleteUser, DeleteTenant, DeleteKey, Change, vars
  <2> QED  BY <1>2, <2>1 DEF callVars
<1> QED  BY <1>2, <1>3, <1>4, <1>5, <1>6, <1>7, <1>8 DEF Next

\* Whatever becomes of the rows, a token and a request that carries one name a user
\* and a tenant this user has belonged to.
THEOREM KnownInvariant == Spec => []Known
<1>1. Init => Known
  BY DEF Init, Known, TokenNamesMembership
<1>2. Types /\ Known /\ [Next]_vars => Known'
  BY JoinedGrows, TokensKnown, ContextKnown DEF Known, TokenNamesMembership
<1>3. TypeOK /\ Tops /\ Filled => Types
  BY TypesAreTypeOK
<1> QED  BY <1>1, <1>2, <1>3, TypeCorrect, PTL DEF Spec

\* login() joins a user and a tenant that it read at different times: they have
\* belonged together, for any interleaving with deletions.
THEOREM TokenNamesMembershipHolds == Spec => []TokenNamesMembership
<1>1. Known => TokenNamesMembership
  BY DEF Known
<1> QED  BY <1>1, KnownInvariant, PTL

-----------------------------------------------------------------------------
(* OrphansNeedFailure. *)

\* register() has inserted what its place says, unless an administrator deleted it.
Registered(c) ==
    /\ reg[c] = "user" => c \notin users /\ c \notin tenants
    /\ reg[c] = "tenant" => c \notin tenants /\ (removed \/ c \in users)
    /\ reg[c] = "owner" => removed \/ (c \in users /\ c \in tenants)
    /\ \/ c \in users /\ ~\E m \in members : m.user = c
       \/ c \in tenants /\ ~\E m \in members : m.tenant = c
       => reg[c] \in {"tenant", "owner", "failed"} \/ removed

\* More memberships do no harm, and deletions are recorded.
LEMMA RegisteredKept ==
    ASSUME NEW c \in Call, Registered(c), reg'[c] = reg[c],
           \/ /\ (c \in users' <=> c \in users) /\ (c \in tenants' <=> c \in tenants)
              /\ members \subseteq members' /\ removed' = removed
           \/ users' \subseteq users /\ tenants' \subseteq tenants /\ removed' = TRUE
    PROVE  Registered(c)'
BY DEF Registered

\* The INSERT that register() is at concerns the rows of its own call only.
LEMMA RegisteredOther ==
    ASSUME Types, NEW c \in Call, NEW d \in Call, c # d, Registered(c),
           RegisterStep(d) \/ RegisterRefused(d) \/ RegisterFails(d)
    PROVE  Registered(c)'
<1>1. reg'[c] = reg[c] /\ removed' = removed
  BY DEF RegisterStep, RegisterRefused, RegisterFails, Types, RestTypes, doneVars
<1>2. InsertRow(d) \/ UNCHANGED rowVars
  BY DEF RegisterStep, RegisterRefused, RegisterFails
<1>3. /\ (c \in users' <=> c \in users) /\ (c \in tenants' <=> c \in tenants)
      /\ members \subseteq members'
  BY <1>2 DEF InsertRow, InsertUser, InsertTenant, Join, rowVars
<1> QED  BY <1>1, <1>3, RegisteredKept

LEMMA RegisteredStep ==
    ASSUME Types, NEW c \in Call, Registered(c), RegisterStep(c)
    PROVE  Registered(c)'
<1> USE DEF Types, RestTypes, Registered
<1>1. reg'[c] = AfterInsert(reg[c]) /\ removed' = removed
  BY DEF RegisterStep, doneVars
<1>2. CASE reg[c] = "user" /\ InsertUser(c)
  BY <1>1, <1>2 DEF InsertUser, AfterInsert
<1>3. CASE reg[c] = "tenant" /\ InsertTenant(c)
  BY <1>1, <1>3 DEF InsertTenant, AfterInsert
<1>4. CASE reg[c] = "owner" /\ Join(c, c)
  <2>1. \E m \in members' : m.user = c /\ m.tenant = c
    <3> DEFINE m == [tenant |-> c, user |-> c, at |-> 1 + Max({0} \cup {n.at : n \in members})]
    <3>1. members' = members \cup {m}
      BY <1>4 DEF Join
    <3>2. m.user = c /\ m.tenant = c
      OBVIOUS
    <3> QED  BY <3>1, <3>2
  <2>2. reg'[c] = "ok"
    BY <1>1, <1>4 DEF AfterInsert
  <2> QED  BY <2>1, <2>2
<1> QED  BY <1>2, <1>3, <1>4 DEF RegisterStep, InsertRow

LEMMA RegisteredRefused ==
    ASSUME Types, NEW c \in Call, Registered(c), RegisterRefused(c)
    PROVE  Registered(c)'
<1> USE DEF Types, RestTypes, Registered
<1>1. reg'[c] = "conflict" /\ removed' = removed /\ UNCHANGED <<users, tenants, members>>
  BY DEF RegisterRefused, doneVars, rowVars
<1>2. CASE reg[c] = "user"
  BY <1>1, <1>2
<1>3. CASE reg[c] = "owner" /\ ~MayJoin(c, c)
  BY <1>1, <1>3 DEF MayJoin
<1> QED  BY <1>2, <1>3 DEF RegisterRefused

\* A call of register that is neither at work nor failed has left no half an account,
\* in whatever order several calls, requests and administrators act.
THEOREM RegisteredInvariant == Spec => [](\A c \in Call : Registered(c))
<1>1. Init => \A c \in Call : Registered(c)
  BY DEF Init, Registered
<1>2. Types /\ (\A c \in Call : Registered(c)) /\ [Next]_vars => (\A c \in Call : Registered(c))'
  <2> SUFFICES ASSUME Types, NEW c \in Call, Registered(c), [Next]_vars PROVE Registered(c)'
    OBVIOUS
  <2>1. ASSUME NEW d \in Call, RegisterStep(d) PROVE Registered(c)'
    BY <2>1, RegisteredOther, RegisteredStep
  <2>2. ASSUME NEW d \in Call, RegisterRefused(d) PROVE Registered(c)'
    BY <2>2, RegisteredOther, RegisteredRefused
  <2>3. ASSUME NEW d \in Call, RegisterFails(d) PROVE Registered(c)'
    <3>1. CASE c = d
      BY <2>3, <3>1 DEF RegisterFails, Registered, Types, RestTypes
    <3>2. CASE c # d
      BY <2>3, <3>2, RegisteredOther
    <3> QED  BY <3>1, <3>2
  <2>4. ASSUME NEW s \in Session,
               \/ LoginFind(s) \/ LoginList(s) \/ LoginNoTenant(s) \/ LoginTouch(s) \/ LoginFails(s)
               \/ JwtAuth(s) \/ CreateApiKey(s) \/ RevokeApiKey(s) \/ HandlerAnswers(s)
               \/ HandlerFails(s) \/ Validate(s) \/ Admit(s)
        PROVE  UNCHANGED <<users, tenants, members, reg, removed>>
    BY <2>4 DEF LoginFind, LoginList, LoginNoTenant, LoginTouch, LoginFails, JwtAuth, CreateApiKey,
       RevokeApiKey, HandlerAnswers, HandlerFails, Validate, Admit, rowVars, doneVars
  <2>5. CASE Refresh \/ AccessExpires \/ KeyExpires \/ DeleteKey \/ UNCHANGED vars
    <3>1. UNCHANGED <<users, tenants, members, reg, removed>>
      BY <2>5 DEF Refresh, AccessExpires, KeyExpires, DeleteKey, Change, vars, rowVars, doneVars
    <3> QED  BY <3>1, RegisteredKept
  <2>6. CASE AddMember
    BY <2>6, RegisteredKept DEF AddMember, Join, Change
  <2>7. CASE RemoveMember \/ DeleteUser \/ DeleteTenant
    BY <2>7, RegisteredKept DEF RemoveMember, DeleteUser, DeleteTenant, Change
  <2>8. CASE UNCHANGED <<users, tenants, members, reg, removed>>
    BY <2>8, RegisteredKept
  <2> QED  BY <2>1, <2>2, <2>3, <2>4, <2>5, <2>6, <2>7, <2>8 DEF Next
<1>3. TypeOK /\ Tops /\ Filled => Types
  BY TypesAreTypeOK
<1> QED  BY <1>1, <1>2, <1>3, TypeCorrect, PTL DEF Spec

\* A user without a tenant, or a tenant without members, comes from a registration
\* that failed between its statements or goes on, or from an administrator.
THEOREM OrphansNeedFailureHolds == Spec => []OrphansNeedFailure
<1>1. (\A c \in Call : Registered(c)) => OrphansNeedFailure
  BY DEF Registered, OrphansNeedFailure
<1> QED  BY <1>1, RegisteredInvariant, PTL

-----------------------------------------------------------------------------
(* RevocationIsFinal and KeysChangedByMembers. *)

\* An id names one row, and is not used again; what was reported revoked is.
KeyOrder ==
    /\ \A k \in keys : k.id \in made
    /\ revoked \subseteq made
    /\ \A j, k \in keys : j.id = k.id => j = k
    /\ \A k \in keys : k.id \in revoked => k.state = "revoked"

\* What an UPDATE of one row makes of the keys.
LEMMA Replaced ==
    ASSUME Types, KeyOrder, NEW k \in keys, NEW row \in KeyRow, row.id = k.id, Replace(k, row)
    PROVE  /\ \A j \in keys' : IF j.id = k.id THEN j = row ELSE j \in keys
           /\ made' = made
BY DEF Replace, KeyOrder

LEMMA KeyOrderKept ==
    ASSUME Types, KeyOrder, [Next]_vars
    PROVE  KeyOrder'
<1> USE DEF Types, KeyTypes
<1>1. CASE KeysKept \/ KeysDeleted
  BY <1>1 DEF KeysKept, KeysDeleted, KeyOrder
<1>2. CASE KeyInserted
  <2>1. PICK k \in Key \ made, t \in tenants, state \in {"live", "untold"}, expired \in BOOLEAN :
          /\ keys' = keys \cup {[id |-> k, tenant |-> t, state |-> state, expired |-> expired]}
          /\ made' = made \cup {k} /\ revoked' = revoked
    BY <1>2 DEF KeyInserted
  <2> DEFINE row == [id |-> k, tenant |-> t, state |-> state, expired |-> expired]
  <2>2. row.id = k /\ k \notin made
    OBVIOUS
  <2>3. keys' = keys \cup {row} /\ made' = made \cup {k} /\ revoked' = revoked
    BY <2>1
  <2> HIDE DEF row
  <2> QED  BY <2>2, <2>3 DEF KeyOrder
<1>3. CASE KeyRevoked
  <2>1. PICK s \in Session, k \in keys :
          RevokeRow(s, k) /\ revoked' \in {revoked, revoked \cup {k.id}}
    BY <1>3 DEF KeyRevoked
  <2> DEFINE row == [k EXCEPT !.state = "revoked"]
  <2>2. row \in KeyRow /\ row.id = k.id /\ row.state = "revoked"
    BY DEF KeyRow
  <2>3. (\A j \in keys' : IF j.id = k.id THEN j = row ELSE j \in keys) /\ made' = made
    BY <2>1, <2>2, Replaced DEF RevokeRow
  <2> QED  BY <2>1, <2>2, <2>3 DEF KeyOrder
<1>4. CASE KeyExpired
  <2>1. PICK k \in keys : Replace(k, [k EXCEPT !.expired = TRUE]) /\ revoked' = revoked
    BY <1>4 DEF KeyExpired
  <2> DEFINE row == [k EXCEPT !.expired = TRUE]
  <2>2. row \in KeyRow /\ row.id = k.id /\ row.state = k.state
    BY DEF KeyRow
  <2>3. (\A j \in keys' : IF j.id = k.id THEN j = row ELSE j \in keys) /\ made' = made
    BY <2>1, <2>2, Replaced
  <2> QED  BY <2>1, <2>2, <2>3 DEF KeyOrder
<1> QED  BY <1>1, <1>2, <1>3, <1>4, KeySteps

\* Ids are unique among the rows and are not given out twice; a key whose
\* revocation was answered stays revoked.
THEOREM KeyOrderInvariant == Spec => []KeyOrder
<1>1. Init => KeyOrder
  BY DEF Init, KeyOrder
<1>2. TypeOK /\ Tops /\ Filled /\ KeyOrder /\ [Next]_vars => KeyOrder'
  BY TypesAreTypeOK, KeyOrderKept
<1> QED  BY <1>1, <1>2, TypeCorrect, PTL DEF Spec

\* Only the middleware's validate() gives a request a key, and its key is live.
LEMMA RequestKey ==
    ASSUME Types, [Next]_vars, NEW s \in Session, ctx'[s].key \in Key
    PROVE  \/ ctx'[s].key = ctx[s].key
           \/ \E k \in keys : Valid(k) /\ ctx'[s].key = k.id
<1> USE DEF Types, CallTypes, Goto, Answer
<1>1. None \notin Key
  BY AccountsAssumption
<1>2. ASSUME NEW r \in Session, LoginFind(r) PROVE ctx'[s].key = ctx[s].key
  BY <1>1, <1>2 DEF LoginFind, NoContext
<1>3. ASSUME NEW r \in Session, LoginList(r) PROVE ctx'[s].key = ctx[s].key
  BY <1>3 DEF LoginList, Context
<1>4. ASSUME NEW r \in Session, JwtAuth(r) PROVE ctx'[s].key = ctx[s].key
  BY <1>1, <1>4 DEF JwtAuth
<1>5. ASSUME NEW r \in Session, Validate(r)
      PROVE  \/ ctx'[s].key = ctx[s].key
             \/ \E k \in keys : Valid(k) /\ ctx'[s].key = k.id
  BY <1>5 DEF Validate
<1>6. ASSUME NEW r \in Session,
             \/ LoginNoTenant(r) \/ LoginTouch(r) \/ LoginFails(r) \/ CreateApiKey(r)
             \/ RevokeApiKey(r) \/ HandlerAnswers(r) \/ HandlerFails(r) \/ Admit(r)
      PROVE  ctx'[s].key = ctx[s].key
  <2>1. Answer(r)
    BY <1>6 DEF LoginNoTenant, LoginTouch, LoginFails, CreateApiKey, RevokeApiKey, HandlerAnswers,
       HandlerFails, Admit
  <2> QED  BY <1>1, <2>1 DEF NoContext
<1>7. CASE \/ \E c \in Call : RegisterStep(c) \/ RegisterRefused(c) \/ RegisterFails(c)
           \/ Refresh \/ AccessExpires \/ KeyExpires
           \/ AddMember \/ RemoveMember \/ DeleteUser \/ DeleteTenant \/ DeleteKey
           \/ UNCHANGED vars
  <2>1. UNCHANGED callVars
    BY <1>7 DEF RegisterStep, RegisterRefused, RegisterFails, Refresh, AccessExpires, KeyExpires,
       AddMember, RemoveMember, DeleteUser, DeleteTenant, DeleteKey, Change, vars
  <2> QED  BY <2>1 DEF callVars
<1> QED  BY <1>2, <1>3, <1>4, <1>5, <1>6, <1>7 DEF Next

\* After revoke_api_key has answered, no step makes the key valid again or lets a
\* request in with it.
THEOREM RevocationIsFinalHolds == Spec => RevocationIsFinal
<1> DEFINE Final ==
      \A k \in revoked :
         /\ \A row \in keys' : row.id = k => row.state = "revoked"
         /\ \A s \in Session : ctx'[s].key = k => ctx[s].key = k
<1>1. Types /\ KeyOrder /\ KeyOrder' /\ [Next]_vars => [Final]_vars
  <2> SUFFICES ASSUME Types, KeyOrder, KeyOrder', [Next]_vars, NEW k \in revoked
               PROVE  /\ \A row \in keys' : row.id = k => row.state = "revoked"
                      /\ \A s \in Session : ctx'[s].key = k => ctx[s].key = k
    OBVIOUS
  <2>1. revoked \subseteq revoked' /\ k \in Key
    BY KeySteps DEF KeysKept, KeyInserted, KeyRevoked, KeyExpired, KeysDeleted, Types, KeyTypes
  <2>2. ASSUME NEW s \in Session, ctx'[s].key = k PROVE ctx[s].key = k
    BY <2>1, <2>2, RequestKey DEF KeyOrder, Valid
  <2> QED  BY <2>1, <2>2 DEF KeyOrder
<1>2. TypeOK /\ Tops /\ Filled => Types
  BY TypesAreTypeOK
<1> QED  BY <1>1, <1>2, TypeCorrect, KeyOrderInvariant, PTL DEF Spec, RevocationIsFinal

\* A key is made or revoked by the request that the step answers, whose token was for
\* the tenant of the key and is remembered in joined.
THEOREM KeysChangedByMembersHolds == Spec => KeysChangedByMembers
<1> DEFINE By(row) ==
             \E s \in Session :
               /\ pc[s] = "handler" /\ pc'[s] = "idle"
               /\ ctx[s].tenant = row.tenant
               /\ [tenant |-> row.tenant, user |-> ctx[s].user] \in joined
           ByMember == \A row \in keys' : Created(row) \/ Revoked(row) => By(row)
<1>1. Types /\ Known /\ KeyOrder /\ [Next]_vars => [ByMember]_vars
  <2> SUFFICES ASSUME Types, Known, KeyOrder, [Next]_vars, NEW row \in keys', Created(row) \/ Revoked(row)
               PROVE  By(row)
    OBVIOUS
  <2> USE DEF Types, KeyTypes
  <2>1. row \notin keys
    BY DEF KeyOrder, Created, Revoked
  <2>2. ~KeysKept /\ ~KeysDeleted
    BY <2>1 DEF KeysKept, KeysDeleted
  <2>3. CASE KeyInserted
    <3>1. PICK s \in Session, k \in Key, t \in tenants, state \in {"live", "untold"}, expired \in BOOLEAN :
            /\ Answered(s) /\ t = ctx[s].tenant
            /\ keys' = keys \cup {[id |-> k, tenant |-> t, state |-> state, expired |-> expired]}
      BY <2>3 DEF KeyInserted
    <3>2. row.tenant = ctx[s].tenant
      BY <2>1, <3>1
    <3> QED  BY <3>1, <3>2 DEF Answered, Known, TokenNamesMembership
  <2>4. ~KeyExpired
    <3> SUFFICES ASSUME NEW j \in keys, Replace(j, [j EXCEPT !.expired = TRUE]) PROVE FALSE
      BY DEF KeyExpired
    <3>1. row = [j EXCEPT !.expired = TRUE]
      BY <2>1 DEF Replace
    <3>2. row.id = j.id /\ row.state = j.state
      BY <3>1 DEF KeyRow
    <3> QED  BY <3>2 DEF KeyOrder, Created, Revoked
  <2>5. CASE KeyRevoked
    <3>1. PICK s \in Session, j \in keys : Answered(s) /\ RevokeRow(s, j)
      BY <2>5 DEF KeyRevoked
    <3>2. row = [j EXCEPT !.state = "revoked"]
      BY <2>1, <3>1 DEF RevokeRow, Replace
    <3>3. row.tenant = ctx[s].tenant
      BY <3>1, <3>2 DEF KeyRow, RevokeRow, Owns
    <3> QED  BY <3>1, <3>3 DEF Answered, Known, TokenNamesMembership
  <2> QED  BY <2>2, <2>3, <2>4, <2>5, KeySteps
<1>2. TypeOK /\ Tops /\ Filled => Types
  BY TypesAreTypeOK
<1> QED
  BY <1>1, <1>2, TypeCorrect, KnownInvariant, KeyOrderInvariant, PTL
     DEF Spec, KeysChangedByMembers

-----------------------------------------------------------------------------
(* The life of a key: Accounts implements KeyLifecycle. *)

\* Only a request that validate() let in holds a key.
HeldKeys == \A s \in Session : ctx[s].key # None => pc[s] = "validated"

\* The requests after a step: nobody's key has changed, or validate() lets one in
\* that held none, or one is answered; the rows of api_keys stay in the last two cases.
KeysHeld == \A s \in Session : ctx'[s].key = ctx[s].key
KeyLetIn ==
    /\ UNCHANGED <<keys, made>>
    /\ \E s \in Session, k \in keys :
         /\ Valid(k) /\ ctx[s].key = None
         /\ ctx' = [ctx EXCEPT ![s] = [tenant |-> k.tenant, user |-> None, key |-> k.id]]
KeyLeft ==
    /\ UNCHANGED <<keys, made>>
    /\ \E s \in Session : ctx' = [ctx EXCEPT ![s] = NoContext]

LEMMA HeldSteps ==
    ASSUME Types, HeldKeys, [Next]_vars
    PROVE  KeysHeld \/ KeyLetIn \/ KeyLeft
<1> USE DEF Types, CallTypes, Goto, Answer, HeldKeys, keyVars
<1>1. ASSUME NEW r \in Session, LoginFind(r) PROVE KeysHeld
  BY <1>1 DEF LoginFind, NoContext, KeysHeld
<1>2. ASSUME NEW r \in Session, LoginList(r) PROVE KeysHeld
  BY <1>2 DEF LoginList, Context, KeysHeld
<1>3. ASSUME NEW r \in Session, JwtAuth(r) PROVE KeysHeld
  BY <1>3 DEF JwtAuth, KeysHeld
<1>4. ASSUME NEW r \in Session, CreateApiKey(r) \/ RevokeApiKey(r) \/ HandlerFails(r) PROVE KeysHeld
  <2>1. pc[r] = "handler" /\ Answer(r)
    BY <1>4 DEF CreateApiKey, RevokeApiKey, HandlerFails
  <2> QED  BY <2>1 DEF NoContext, KeysHeld
<1>5. ASSUME NEW r \in Session, Validate(r) PROVE KeyLetIn
  BY <1>5 DEF Validate, KeyLetIn
<1>6. ASSUME NEW r \in Session, LoginNoTenant(r) \/ LoginTouch(r) \/ LoginFails(r) \/ HandlerAnswers(r) \/ Admit(r)
      PROVE  KeyLeft
  BY <1>6 DEF LoginNoTenant, LoginTouch, LoginFails, HandlerAnswers, Admit, KeyLeft
<1>7. CASE \/ \E c \in Call : RegisterStep(c) \/ RegisterRefused(c) \/ RegisterFails(c)
           \/ Refresh \/ AccessExpires \/ KeyExpires
           \/ AddMember \/ RemoveMember \/ DeleteUser \/ DeleteTenant \/ DeleteKey
           \/ UNCHANGED vars
  <2>1. UNCHANGED callVars
    BY <1>7 DEF RegisterStep, RegisterRefused, RegisterFails, Refresh, AccessExpires, KeyExpires,
       AddMember, RemoveMember, DeleteUser, DeleteTenant, DeleteKey, Change, vars
  <2> QED  BY <2>1 DEF callVars, KeysHeld
<1> QED  BY <1>1, <1>2, <1>3, <1>4, <1>5, <1>6, <1>7 DEF Next

LEMMA HeldKeysKept ==
    ASSUME Types, HeldKeys, [Next]_vars
    PROVE  HeldKeys'
<1> USE DEF Types, CallTypes, Goto, Answer, HeldKeys
<1>1. ASSUME NEW r \in Session, LoginFind(r) \/ LoginList(r) \/ JwtAuth(r) PROVE HeldKeys'
  BY <1>1 DEF LoginFind, LoginList, JwtAuth, NoContext, Context
<1>2. ASSUME NEW r \in Session, Validate(r) PROVE HeldKeys'
  BY <1>2 DEF Validate
<1>3. ASSUME NEW r \in Session,
             \/ LoginNoTenant(r) \/ LoginTouch(r) \/ LoginFails(r) \/ CreateApiKey(r)
             \/ RevokeApiKey(r) \/ HandlerAnswers(r) \/ HandlerFails(r) \/ Admit(r)
      PROVE  HeldKeys'
  <2>1. Answer(r)
    BY <1>3 DEF LoginNoTenant, LoginTouch, LoginFails, CreateApiKey, RevokeApiKey, HandlerAnswers,
       HandlerFails, Admit
  <2> QED  BY <2>1 DEF NoContext
<1>4. CASE \/ \E c \in Call : RegisterStep(c) \/ RegisterRefused(c) \/ RegisterFails(c)
           \/ Refresh \/ AccessExpires \/ KeyExpires
           \/ AddMember \/ RemoveMember \/ DeleteUser \/ DeleteTenant \/ DeleteKey
           \/ UNCHANGED vars
  <2>1. UNCHANGED callVars
    BY <1>4 DEF RegisterStep, RegisterRefused, RegisterFails, Refresh, AccessExpires, KeyExpires,
       AddMember, RemoveMember, DeleteUser, DeleteTenant, DeleteKey, Change, vars
  <2> QED  BY <2>1 DEF callVars
<1> QED  BY <1>1, <1>2, <1>3, <1>4 DEF Next

\* What the row of a key says of its stage, and what it means that there is none.
RowStage(row) == IF row.state = "revoked" THEN "revoked" ELSE IF row.expired THEN "expired" ELSE "valid"
Staged ==
    /\ \A row \in keys : row.id \in Key /\ StageOf(row.id) = RowStage(row)
    /\ \A k \in Key : (\A row \in keys : row.id # k)
                         => StageOf(k) = IF k \in made THEN "gone" ELSE "unused"

LEMMA StageOfRow == Types /\ KeyOrder => Staged
<1> SUFFICES ASSUME Types, KeyOrder PROVE Staged
  OBVIOUS
<1>1. ASSUME NEW row \in keys PROVE row.id \in Key /\ StageOf(row.id) = RowStage(row)
  <2>1. row.id \in Key /\ row.id \in made /\ row.expired \in BOOLEAN
    BY DEF Types, KeyTypes, KeyRow, KeyOrder
  <2>2. \A r \in keys : r.id = row.id => r = row
    BY DEF KeyOrder
  <2> QED  BY <2>1, <2>2 DEF StageOf, RowStage
<1>2. ASSUME NEW k \in Key, \A row \in keys : row.id # k
      PROVE  StageOf(k) = IF k \in made THEN "gone" ELSE "unused"
  BY <1>2 DEF StageOf
<1> QED  BY <1>1, <1>2 DEF Staged

LEMMA StageOfRowNext == Types' /\ KeyOrder' => Staged'
BY StageOfRow, PTL

\* What a step on api_keys does to the stages.
StagesKept == \A k \in Key : StageOf(k)' = StageOf(k)
StageChanged ==
    \E k \in Key, to \in {"valid", "expired", "revoked"} :
        /\ K!CanBecome(StageOf(k), to)
        /\ \A j \in Key : StageOf(j)' = IF j = k THEN to ELSE StageOf(j)
StagesDeleted ==
    \E S \in SUBSET Key :
        /\ \A k \in S : K!CanBecome(StageOf(k), "gone")
        /\ \A j \in Key : StageOf(j)' = IF j \in S THEN "gone" ELSE StageOf(j)

LEMMA StageSteps ==
    ASSUME Types, KeyOrder, Types', KeyOrder', [Next]_vars
    PROVE  StagesKept \/ StageChanged \/ StagesDeleted
<1> USE DEF K!CanBecome
<1>1. Staged /\ Staged'
  BY StageOfRow, StageOfRowNext
<1>2. CASE KeysKept
  BY <1>2 DEF KeysKept, StageOf, StagesKept
<1>3. CASE KeyInserted
  <2>1. PICK k \in Key \ made, t \in tenants, state \in {"live", "untold"}, expired \in BOOLEAN :
          /\ keys' = keys \cup {[id |-> k, tenant |-> t, state |-> state, expired |-> expired]}
          /\ made' = made \cup {k}
    BY <1>3 DEF KeyInserted
  <2> DEFINE new == [id |-> k, tenant |-> t, state |-> state, expired |-> expired]
  <2>2. StageOf(k) = "unused"
    BY <1>1, <2>1 DEF Staged, KeyOrder
  <2>3. new \in keys' /\ new.id = k /\ RowStage(new) \in {"valid", "expired"}
    BY <2>1 DEF RowStage
  <2>4. StageOf(k)' = RowStage(new)
    <3> HIDE DEF new
    <3> QED  BY <1>1, <2>3 DEF Staged
  <2>5. ASSUME NEW j \in Key, j # k PROVE StageOf(j)' = StageOf(j)
    <3>1. CASE \E row \in keys : row.id = j
      BY <1>1, <2>1, <2>5, <3>1 DEF Staged
    <3>2. CASE \A row \in keys : row.id # j
      <4>1. \A row \in keys' : row.id # j
        BY <2>1, <2>5, <3>2
      <4> QED  BY <1>1, <2>1, <2>5, <3>2, <4>1 DEF Staged
    <3> QED  BY <3>1, <3>2
  <2>6. \A j \in Key : StageOf(j)' = IF j = k THEN RowStage(new) ELSE StageOf(j)
    BY <2>4, <2>5
  <2> HIDE DEF new
  <2> QED  BY <2>2, <2>3, <2>6 DEF StageChanged
<1>4. ASSUME NEW row \in keys, NEW new \in KeyRow, new.id = row.id, Replace(row, new),
             NEW to \in {"valid", "expired", "revoked"}, RowStage(new) = to,
             RowStage(row) = to \/ K!CanBecome(RowStage(row), to)
      PROVE  StagesKept \/ StageChanged
  <2>1. row.id \in Key /\ StageOf(row.id) = RowStage(row) /\ StageOf(row.id)' = to
    BY <1>1, <1>4 DEF Staged, Replace
  <2>2. ASSUME NEW j \in Key, j # row.id PROVE StageOf(j)' = StageOf(j)
    <3>1. \A r : r.id = j => (r \in keys' <=> r \in keys)
      BY <1>4, <2>2 DEF Replace
    <3>2. CASE \E r \in keys : r.id = j
      BY <1>1, <3>1, <3>2 DEF Staged
    <3>3. CASE \A r \in keys : r.id # j
      <4>1. \A r \in keys' : r.id # j
        BY <3>1, <3>3
      <4> QED  BY <1>1, <1>4, <3>3, <4>1 DEF Staged, Replace
    <3> QED  BY <3>2, <3>3
  <2>3. \A j \in Key : StageOf(j)' = IF j = row.id THEN to ELSE StageOf(j)
    BY <2>1, <2>2
  <2>4. CASE RowStage(row) = to
    BY <2>1, <2>3, <2>4 DEF StagesKept
  <2>5. CASE K!CanBecome(RowStage(row), to)
    BY <2>1, <2>3, <2>5 DEF StageChanged
  <2> QED  BY <1>4, <2>4, <2>5
<1>5. CASE KeyRevoked
  <2>1. PICK s \in Session, k \in keys : RevokeRow(s, k)
    BY <1>5 DEF KeyRevoked
  <2> DEFINE new == [k EXCEPT !.state = "revoked"]
  <2>2. new \in KeyRow /\ new.id = k.id /\ new.state = "revoked" /\ Replace(k, new)
    BY <2>1 DEF Types, KeyTypes, KeyRow, RevokeRow
  <2>3. RowStage(new) = "revoked" /\ (RowStage(k) = "revoked" \/ K!CanBecome(RowStage(k), "revoked"))
    BY <2>2 DEF RowStage
  <2> HIDE DEF new
  <2> QED  BY <1>4, <2>2, <2>3
<1>6. CASE KeyExpired
  <2>1. PICK k \in keys : Replace(k, [k EXCEPT !.expired = TRUE])
    BY <1>6 DEF KeyExpired
  <2> DEFINE new == [k EXCEPT !.expired = TRUE]
  <2>2. new \in KeyRow /\ new.id = k.id /\ new.state = k.state /\ new.expired = TRUE /\ Replace(k, new)
    BY <2>1 DEF Types, KeyTypes, KeyRow
  <2>3. PICK to \in {"expired", "revoked"} :
          RowStage(new) = to /\ (RowStage(k) = to \/ K!CanBecome(RowStage(k), to))
    BY <2>2 DEF RowStage
  <2> HIDE DEF new
  <2> QED  BY <1>4, <2>2, <2>3
<1>7. CASE KeysDeleted
  <2> DEFINE S == {k.id : k \in keys \ keys'}
  <2>1. S \in SUBSET Key /\ \A k \in S : K!CanBecome(StageOf(k), "gone")
    BY <1>1 DEF Staged, RowStage
  <2>2. ASSUME NEW j \in S PROVE StageOf(j)' = "gone"
    <3>1. PICK k \in keys \ keys' : j = k.id
      BY <2>2
    <3>2. j \in Key /\ j \in made /\ \A row \in keys' : row.id # j
      BY <1>1, <1>7, <3>1 DEF KeysDeleted, KeyOrder, Staged
    <3> QED  BY <1>1, <1>7, <3>2 DEF Staged, KeysDeleted
  <2>3. ASSUME NEW j \in Key \ S PROVE StageOf(j)' = StageOf(j)
    <3>1. \A row \in keys : row.id = j => row \in keys'
      BY <2>3
    <3>2. CASE \E row \in keys : row.id = j
      BY <1>1, <3>1, <3>2 DEF Staged
    <3>3. CASE \A row \in keys : row.id # j
      BY <1>1, <1>7, <3>3 DEF Staged, KeysDeleted
    <3> QED  BY <3>2, <3>3
  <2>4. \A j \in Key : StageOf(j)' = IF j \in S THEN "gone" ELSE StageOf(j)
    BY <2>2, <2>3
  <2> HIDE DEF S
  <2> QED  BY <2>1, <2>4 DEF StagesDeleted
<1> QED  BY <1>2, <1>3, <1>5, <1>6, <1>7, KeySteps


\* No statement, failure or deletion gives a key a second life, and validate() lets
\* requests in by valid keys only, for any number of keys and requests.
THEOREM KeyLifecycleRefinement == Spec => KeysLiveOnce
<1> DEFINE stage == [k \in Key |-> StageOf(k)]
           held == [s \in Session |-> ctx[s].key]
<1>1. Init => K!Init /\ HeldKeys
  <2> SUFFICES ASSUME Init PROVE K!Init /\ HeldKeys
    OBVIOUS
  <2>1. stage = [k \in Key |-> "unused"]
    BY DEF Init, StageOf
  <2>2. held = [s \in Session |-> None] /\ HeldKeys
    BY DEF Init, NoContext, HeldKeys
  <2> QED  BY <2>1, <2>2 DEF K!Init
<1>2. Types /\ HeldKeys /\ [Next]_vars => HeldKeys'
  BY HeldKeysKept
<1>3. Types /\ KeyOrder /\ HeldKeys /\ Types' /\ KeyOrder' /\ [Next]_vars => [K!Next]_(K!vars)
  <2> SUFFICES ASSUME Types, KeyOrder, HeldKeys, Types', KeyOrder', [Next]_vars
               PROVE  K!Next \/ UNCHANGED <<stage, held>>
    BY DEF K!vars
  <2>1. CASE KeysHeld
    <3>1. held' = held
      BY <2>1 DEF KeysHeld
    <3>2. CASE StagesKept
      BY <3>1, <3>2 DEF StagesKept
    <3>3. CASE StageChanged
      <4>1. PICK k \in Key, to \in {"valid", "expired", "revoked"} :
              /\ K!CanBecome(StageOf(k), to)
              /\ \A j \in Key : StageOf(j)' = IF j = k THEN to ELSE StageOf(j)
        BY <3>3 DEF StageChanged
      <4>2. stage' = [stage EXCEPT ![k] = to] /\ stage[k] = StageOf(k)
        BY <4>1
      <4>3. K!Change(k)
        BY <3>1, <4>1, <4>2 DEF K!Change
      <4> QED  BY <4>3 DEF K!Next
    <3>4. CASE StagesDeleted
      <4>1. PICK S \in SUBSET Key :
              /\ \A k \in S : K!CanBecome(StageOf(k), "gone")
              /\ \A j \in Key : StageOf(j)' = IF j \in S THEN "gone" ELSE StageOf(j)
        BY <3>4 DEF StagesDeleted
      <4>2. stage' = [k \in Key |-> IF k \in S THEN "gone" ELSE stage[k]]
            /\ \A k \in S : stage[k] = StageOf(k)
        BY <4>1
      <4>3. K!Delete(S)
        BY <3>1, <4>1, <4>2 DEF K!Delete
      <4> QED  BY <4>3 DEF K!Next
    <3> QED  BY <3>2, <3>3, <3>4, StageSteps
  <2>2. CASE KeyLetIn
    <3>1. stage' = stage
      BY <2>2 DEF KeyLetIn, StageOf
    <3>2. PICK s \in Session, k \in keys :
            /\ Valid(k) /\ ctx[s].key = None
            /\ ctx' = [ctx EXCEPT ![s] = [tenant |-> k.tenant, user |-> None, key |-> k.id]]
      BY <2>2 DEF KeyLetIn
    <3>3. k.id \in Key /\ stage[k.id] = "valid"
      BY <3>2, StageOfRow DEF Staged, RowStage, Valid
    <3>4. held[s] = None /\ held' = [held EXCEPT ![s] = k.id]
      BY <3>2 DEF Types, CallTypes
    <3>5. K!LetIn(s, k.id)
      BY <3>1, <3>3, <3>4 DEF K!LetIn
    <3> QED  BY <3>3, <3>5 DEF K!Next
  <2>3. CASE KeyLeft
    <3>1. stage' = stage
      BY <2>3 DEF KeyLeft, StageOf
    <3>2. PICK s \in Session : ctx' = [ctx EXCEPT ![s] = NoContext]
      BY <2>3 DEF KeyLeft
    <3>3. held' = [held EXCEPT ![s] = None]
      BY <3>2 DEF Types, CallTypes, NoContext
    <3>4. K!Leave(s)
      BY <3>1, <3>3 DEF K!Leave
    <3> QED  BY <3>4 DEF K!Next
  <2> QED  BY <2>1, <2>2, <2>3, HeldSteps
<1>4. TypeOK /\ Tops /\ Filled => Types
  BY TypesAreTypeOK
<1> QED
  BY <1>1, <1>2, <1>3, <1>4, TypeCorrect, KeyOrderInvariant, PTL DEF Spec, KeysLiveOnce, K!Spec
=============================================================================
