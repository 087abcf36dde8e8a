----------------------------- MODULE MCAccounts -----------------------------
(***************************************************************************)
(* Instance of Accounts for TLC: two calls of register with one address,   *)
(* and one with another.                                                   *)
(***************************************************************************)
EXTENDS Accounts, TLC

CONSTANTS c1, c2, c3, first, second

SharedEmail == c1 :> first @@ c2 :> first @@ c3 :> second
\* Requests may be exchanged, and so may the calls that give the same address.
Alike == Permutations(Session) \cup Permutations({c1, c2})
=============================================================================
