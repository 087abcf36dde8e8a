------------------------------- MODULE MCQuota -------------------------------
(***************************************************************************)
(* Instances of Quota for TLC: two tenants with different quotas.          *)
(***************************************************************************)
EXTENDS Quota, TLC

CONSTANTS acme, globex

Concurrent == acme :> 1 @@ globex :> 2
Daily == acme :> 1 @@ globex :> 1
=============================================================================
