---------------------------- MODULE KeyLifecycle ----------------------------
(***************************************************************************)
(* What an API key promises, whatever tenants, handlers and administrators *)
(* do: an id is made once; the key may expire, or be made when it already  *)
(* has; it is revoked or deleted for good, and only lets a request in      *)
(* while it is none of these.  The statements and WHERE clauses of         *)
(* axontask-shared/src/models/api_key.rs have to keep this one by one;     *)
(* module Accounts is shown to implement it.                               *)
(***************************************************************************)
CONSTANTS Key, Session, None

VARIABLES
    stage,          \* of each key
    held            \* the key a request came in with, or None

vars == <<stage, held>>

Stage == {"unused", "valid", "expired", "revoked", "gone"}

\* ApiKey is never updated otherwise: no way leads back to "valid".  Nothing checks
\* the expires_at of a new key, which may have passed.
CanBecome(from, to) ==
    \/ from = "unused" /\ to \in {"valid", "expired"}
    \/ from = "valid" /\ to = "expired"
    \/ from \in {"valid", "expired"} /\ to = "revoked"
    \/ from \in {"valid", "expired", "revoked"} /\ to = "gone"

Init ==
    /\ stage = [k \in Key |-> "unused"]
    /\ held = [s \in Session |-> None]

\* create, expires_at passes, revoke_with_tenant.
Change(k) ==
    /\ \E to \in {"valid", "expired", "revoked"} :
         CanBecome(stage[k], to) /\ stage' = [stage EXCEPT ![k] = to]
    /\ UNCHANGED held

\* delete takes one key, the deletion of a tenant all of its keys.
Delete(S) ==
    /\ \A k \in S : CanBecome(stage[k], "gone")
    /\ stage' = [k \in Key |-> IF k \in S THEN "gone" ELSE stage[k]]
    /\ UNCHANGED held

\* api_key_auth_middleware lets a request in.
LetIn(s, k) ==
    /\ held[s] = None /\ stage[k] = "valid"
    /\ held' = [held EXCEPT ![s] = k]
    /\ UNCHANGED stage

Leave(s) ==
    /\ held' = [held EXCEPT ![s] = None]
    /\ UNCHANGED stage

Next ==
    \/ \E k \in Key : Change(k)
    \/ \E S \in SUBSET Key : Delete(S)
    \/ \E s \in Session, k \in Key : LetIn(s, k)
    \/ \E s \in Session : Leave(s)

Spec == Init /\ [][Next]_vars
=============================================================================
