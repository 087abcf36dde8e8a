----------------------------- MODULE MCRateLimit -----------------------------
(***************************************************************************)
(* Instance of RateLimit for TLC: a plan that earns half a token per       *)
(* second and one that earns three halves.                                 *)
(***************************************************************************)
EXTENDS RateLimit, TLC

CONSTANTS trial, pro

SmallCapacity == trial :> 1 @@ pro :> 3
SmallRate == trial :> 1 @@ pro :> 3
Handlers == Permutations(Handler)
=============================================================================
