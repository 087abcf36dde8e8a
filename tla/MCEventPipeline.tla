--------------------------- MODULE MCEventPipeline ---------------------------
(***************************************************************************)
(* Instances of EventPipeline for TLC: a task with three events, so that   *)
(* one of them can be lost between two others, and a task with fewer.      *)
(***************************************************************************)
EXTENDS EventPipeline, TLC

CONSTANTS t1, t2

ThreeAndTwo == t1 :> 3 @@ t2 :> 2
=============================================================================
