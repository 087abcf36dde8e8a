------------------------------ MODULE MCWorker ------------------------------
(***************************************************************************)
(* Instances of Worker for TLC: the adapters of tasks 1, 2 and 3 in the    *)
(* configurations of this directory.                                       *)
(***************************************************************************)
EXTENDS WorkerProperties, TLC

OneGood == 1 :> "good"
AllGood == 1 :> "good" @@ 2 :> "good"
GoodFailing == 1 :> "good" @@ 2 :> "failing"
HangingFailing == 1 :> "hanging" @@ 2 :> "failing"
Mixed == 1 :> "good" @@ 2 :> "invalid" @@ 3 :> "unknown"
=============================================================================
