------------------------------ MODULE MCSyn2Mas ------------------------------
(***************************************************************************)
(* Instances of Syn2Mas for TLC.                                           *)
(***************************************************************************)
EXTENDS Syn2Mas, TLC

CONSTANTS main, worker

(***************************************************************************)
(* The main process, and a worker that may be scaled.                      *)
(***************************************************************************)
OneAndOne == main :> 1 @@ worker :> 1

-----------------------------------------------------------------------------

(***************************************************************************)
(* A bound: a second attempt follows one without a disruption and has no   *)
(* faults of its own. Neither a fault nor a second attempt is owed, so the *)
(* fairness is that of FairSpec.                                           *)
(***************************************************************************)
CalmRetry == runs' = 1 \/ (disruptions' = 0 /\ errors' = errors)

MCNext == Next /\ CalmRetry

MCSpec == Init /\ [][MCNext]_vars /\ Fairness
=============================================================================
