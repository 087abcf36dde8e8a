------------------------------- MODULE MCAccess -------------------------------
(***************************************************************************)
(* Instance of Access for TLC: scopes of one to three parts, with and      *)
(* without wildcards.                                                      *)
(***************************************************************************)
EXTENDS Access, TLC

CONSTANTS t1, t2, u1, u2

Founders == t1 :> u1 @@ t2 :> u2
Read == <<"tasks", "read">>
Scopes == {<<"*">>, <<"tasks", "*">>, Read, <<"tasks", "read", "*">>, <<"tasks", "read", "own">>}
KeysMade == {{}, {Read, <<"tasks", "read", "*">>}} \cup {{s} : s \in Scopes}
Requests == Permutations(Session)
Asked(check) == [check |-> check, permission |-> "write", scope |-> Read, owner |-> u1]
Asks == {Asked(c) : c \in Check}
=============================================================================
