---------------------------- MODULE Syn2MasProofs ----------------------------
(***************************************************************************)
(* For any number of StatefulSets, replicas, retries, errors and attempts: *)
(* no pod of Synapse beside the migration, and what the job found is what  *)
(* it restores.                                                            *)
(***************************************************************************)
EXTENDS Syn2Mas, TLAPS

(***************************************************************************)
(* A StatefulSet since the job found it at rest. Either it still has all   *)
(* its pods, and nobody has observed that it should not, or the controller *)
(* observed that no replicas are asked for; there is no way back.          *)
(***************************************************************************)
Untouched(s) ==
  /\ seen[s] = saved[s]
  /\ pods[s] = saved[s]
  /\ ready[s] = saved[s]
  /\ reported[s].ready = saved[s]

Down(s) == seen[s] = 0 /\ replicas[s] = 0

Descending(s) ==
  /\ replicas[s] \in {0, saved[s]}
  /\ Untouched(s) \/ Down(s)

(***************************************************************************)
(* The status the second loop waits for can only be that of sets that are  *)
(* down, so that the pods the third loop does not find cannot come back.   *)
(***************************************************************************)
Settled ==
  settled /\ disruptions = 0 =>
    /\ pc \in {"scaleDown", "waitDown", "waitPods", "migrating"} => \A s \in Sets : Descending(s)
    /\ pc \in {"waitPods", "migrating"} => \A s \in Sets : Down(s)
    /\ pc = "migrating" => \A s \in Sets : pods[s] = 0

(***************************************************************************)
(* While the job scales back, the sets it is done with are restored.       *)
(***************************************************************************)
Restored ==
  pc \in {"scaleBack", "scaleBackUpdate", "succeeded", "failed"} =>
    \A s \in Sets \ lost : s \in todo \/ replicas[s] = saved[s]

Visited == pc \in {"succeeded", "failed"} => todo = {}

IInv == TypeOK /\ Settled /\ Restored /\ Visited

-----------------------------------------------------------------------------

LEMMA InitInv == Init => IInv
<1> SUFFICES ASSUME Init PROVE IInv
  OBVIOUS
<1>1. TypeOK
  <2>1. current \in Sets
    BY Syn2MasAssumption DEF Init
  <2>2. /\ replicas \in [Sets -> Nat] /\ seen \in [Sets -> Nat]
        /\ pods \in [Sets -> Nat] /\ ready \in [Sets -> Nat] /\ saved \in [Sets -> Nat]
        /\ \A s \in Sets : ready[s] <= pods[s]
        /\ reported \in [Sets -> [seen : Nat, pods : Nat, ready : Nat]]
    BY Syn2MasAssumption DEF Init, Status
  <2>3. /\ retries \in 0..MaxRetries /\ runs \in 1..MaxRuns
        /\ errors \in 0..MaxErrors /\ disruptions \in 0..MaxDisruptions
    BY Syn2MasAssumption DEF Init
  <2> QED BY <2>1, <2>2, <2>3, Syn2MasAssumption DEF Init, TypeOK
<1>2. Settled /\ Restored /\ Visited
  BY DEF Init, Settled, Restored, Visited
<1> QED BY <1>1, <1>2 DEF IInv

(***************************************************************************)
(* The controller and the kubelets leave the job and what it asked for     *)
(* alone; all they can disturb is a set that is not down yet.              *)
(***************************************************************************)
LEMMA ControllerTyped ==
  ASSUME TypeOK, NEW s \in Sets, Controller(s)
  PROVE  TypeOK'
<1> USE DEF TypeOK, jobVars
<1>1. CASE Observe(s)
  BY <1>1 DEF Observe
<1>2. CASE StartPod(s)
  BY <1>2 DEF StartPod
<1>3. CASE PodReady(s)
  BY <1>3 DEF PodReady
<1>4. CASE StopPod(s)
  BY <1>4 DEF StopPod
<1>5. CASE PodGone(s)
  BY <1>5 DEF PodGone
<1>6. CASE ReportStatus(s)
  BY <1>6 DEF ReportStatus, Status
<1> QED BY <1>1, <1>2, <1>3, <1>4, <1>5, <1>6 DEF Controller

LEMMA ControllerFrame ==
  ASSUME NEW s \in Sets, Controller(s)
  PROVE  UNCHANGED <<replicas, checkPod, pc, saved, todo, current, retries, result, kept, lost,
                     settled, runs, errors, disruptions>>
  BY DEF Controller, Observe, StartPod, PodReady, StopPod, PodGone, ReportStatus, jobVars

LEMMA ControllerDescends ==
  ASSUME TypeOK, NEW s \in Sets, Controller(s), NEW t \in Sets
  PROVE  /\ Descending(t) => Descending(t)'
         /\ Down(t) => Down(t)'
         /\ Down(t) /\ pods[t] = 0 => pods'[t] = 0
<1> USE DEF TypeOK, jobVars, Descending, Untouched, Down
<1>1. CASE Observe(s)
  BY <1>1 DEF Observe
<1>2. CASE StartPod(s)
  BY <1>2 DEF StartPod
<1>3. CASE PodReady(s)
  BY <1>3 DEF PodReady
<1>4. CASE StopPod(s)
  BY <1>4 DEF StopPod
<1>5. CASE PodGone(s)
  BY <1>5 DEF PodGone
<1>6. CASE ReportStatus(s)
  BY <1>6 DEF ReportStatus, Status
<1> QED BY <1>1, <1>2, <1>3, <1>4, <1>5, <1>6 DEF Controller

LEMMA ControllerKeepsInv ==
  ASSUME IInv, NEW s \in Sets, Controller(s)
  PROVE  IInv'
<1>1. TypeOK'
  BY ControllerTyped DEF IInv
<1>2. Settled'
  BY ControllerFrame, ControllerDescends DEF IInv, Settled
<1>3. Restored' /\ Visited'
  BY ControllerFrame DEF IInv, Restored, Visited
<1> QED BY <1>1, <1>2, <1>3 DEF IInv

(***************************************************************************)
(* A disruption ends what the invariant says of a settled cluster.         *)
(***************************************************************************)
LEMMA DisruptKeepsInv ==
  ASSUME IInv, NEW s \in Sets, Disrupt(s)
  PROVE  IInv'
<1>1. TypeOK'
  <2>1. ready[s] \in Nat /\ pods[s] \in Nat /\ ready[s] > 0 /\ ready[s] <= pods[s]
    BY DEF Disrupt, IInv, TypeOK
  <2>2. CASE pods' = pods
    BY <2>1, <2>2, Syn2MasAssumption DEF Disrupt, IInv, TypeOK, jobVars
  <2>3. CASE pods' = [pods EXCEPT ![s] = @ - 1]
    BY <2>1, <2>3, Syn2MasAssumption DEF Disrupt, IInv, TypeOK, jobVars
  <2> QED BY <2>2, <2>3 DEF Disrupt
<1>2. Settled'
  BY DEF Disrupt, IInv, TypeOK, Settled
<1>3. Restored' /\ Visited'
  BY DEF Disrupt, jobVars, IInv, Restored, Visited
<1> QED BY <1>1, <1>2, <1>3 DEF IInv

-----------------------------------------------------------------------------

LEMMA ErrorTyped == ASSUME TypeOK, Error PROVE errors' \in 0..MaxErrors
  BY Syn2MasAssumption DEF TypeOK, Error

(***************************************************************************)
(* The job scales down. Its updates are all that changes the replicas, and *)
(* the sets are as it found them, or less.                                 *)
(***************************************************************************)
LEMMA ListKeepsInv == IInv /\ List => IInv'
<1> SUFFICES ASSUME IInv, List PROVE IInv'
  OBVIOUS
<1>1. TypeOK'
  BY DEF List, clusterVars, IInv, TypeOK
<1>2. Settled'
  <2>1. ASSUME settled', NEW s \in Sets PROVE Descending(s)'
    <3>1. AtRest(s) /\ saved'[s] = replicas[s] /\ UNCHANGED clusterVars
      BY <2>1 DEF List
    <3> QED BY <3>1 DEF clusterVars, Descending, Untouched, AtRest, Status
  <2> QED BY <2>1 DEF List, Settled
<1>3. Restored' /\ Visited'
  BY DEF List, Restored, Visited
<1> QED BY <1>1, <1>2, <1>3 DEF IInv

LEMMA ScaleDownKeepsInv ==
  ASSUME IInv, NEW s \in Sets, ScaleDown(s) \/ ScaleDownRefused(s)
  PROVE  IInv'
<1>1. replicas' \in {replicas, [replicas EXCEPT ![s] = 0]} /\ VisitDown(s)
  BY DEF ScaleDown, ScaleDownRefused
<1>2. errors' \in 0..MaxErrors /\ kept' \in SUBSET Sets
  BY ErrorTyped DEF ScaleDown, ScaleDownRefused, IInv, TypeOK
<1>3. TypeOK'
  <2>1. replicas' \in [Sets -> Nat]
    BY <1>1 DEF IInv, TypeOK
  <2> QED BY <1>1, <1>2, <2>1 DEF VisitDown, IInv, TypeOK
<1>4. ASSUME NEW t \in Sets, Descending(t) PROVE Descending(t)'
  BY <1>1, <1>4 DEF VisitDown, IInv, TypeOK, Descending, Untouched, Down
<1>5. Settled'
  BY <1>1, <1>4 DEF VisitDown, IInv, Settled
<1>6. Restored' /\ Visited'
  BY <1>1 DEF VisitDown, Restored, Visited
<1> QED BY <1>3, <1>5, <1>6 DEF IInv

(***************************************************************************)
(* A set that reports no available replica, and was found at rest, is down.*)
(***************************************************************************)
LEMMA WaitDownKeepsInv == IInv /\ WaitDown => IInv'
<1> SUFFICES ASSUME IInv, WaitDown PROVE IInv'
  OBVIOUS
<1>1. TypeOK'
  BY Syn2MasAssumption DEF WaitDown, clusterVars, IInv, TypeOK
<1>2. ASSUME NEW s \in Sets, Descending(s) PROVE Down(s)
  BY <1>2 DEF WaitDown, Descending, Untouched, Down
<1>3. Settled'
  BY <1>2 DEF WaitDown, clusterVars, IInv, Settled, Descending, Untouched, Down
<1>4. Restored' /\ Visited'
  BY DEF WaitDown, Restored, Visited
<1> QED BY <1>1, <1>3, <1>4 DEF IInv

LEMMA WaitPodsKeepsInv == IInv /\ WaitPods => IInv'
<1> SUFFICES ASSUME IInv, WaitPods PROVE IInv'
  OBVIOUS
<1>1. TypeOK'
  <2>1. retries' \in 0..MaxRetries
    BY Syn2MasAssumption DEF WaitPods, IInv, TypeOK
  <2>2. pc' \in {"waitPods", "migrating", "aborted"}
    BY DEF WaitPods
  <2> QED BY <2>1, <2>2 DEF WaitPods, clusterVars, Ended, IInv, TypeOK
<1>2. Settled'
  BY DEF WaitPods, PodsFound, clusterVars, IInv, Settled, Descending, Untouched, Down
<1>3. Restored' /\ Visited'
  BY DEF WaitPods, Restored, Visited
<1> QED BY <1>1, <1>2, <1>3 DEF IInv

(***************************************************************************)
(* The job scales back.                                                    *)
(***************************************************************************)
LEMMA MigrateKeepsInv == IInv /\ Migrate => IInv'
<1> SUFFICES ASSUME IInv, Migrate PROVE IInv'
  OBVIOUS
<1>1. todo' = Sets
  BY DEF Migrate, IInv, TypeOK
<1>2. TypeOK'
  BY <1>1 DEF Migrate, clusterVars, IInv, TypeOK
<1>3. Settled' /\ Restored' /\ Visited'
  BY <1>1 DEF Migrate, Settled, Restored, Visited
<1> QED BY <1>2, <1>3 DEF IInv

LEMMA ScaleBackGetKeepsInv == ASSUME IInv, NEW s \in Sets, ScaleBackGet(s) PROVE IInv'
<1>1. TypeOK'
  BY DEF ScaleBackGet, clusterVars, IInv, TypeOK
<1>2. Settled' /\ Restored' /\ Visited'
  BY DEF ScaleBackGet, clusterVars, IInv, Settled, Restored, Visited
<1> QED BY <1>1, <1>2 DEF IInv

LEMMA ScaleBackKeepsInv == IInv /\ (ScaleBackUpdate \/ ScaleBackRefused) => IInv'
<1> SUFFICES ASSUME IInv, ScaleBackUpdate \/ ScaleBackRefused PROVE IInv'
  OBVIOUS
<1>1. VisitBack /\ current \in Sets
  BY DEF ScaleBackUpdate, ScaleBackRefused, IInv, TypeOK
<1>2. \/ replicas' = [replicas EXCEPT ![current] = saved[current]] /\ lost' = lost
      \/ replicas' = replicas /\ lost' = lost \cup {current}
  BY DEF ScaleBackUpdate, ScaleBackRefused
<1>3. errors' \in 0..MaxErrors
  BY ErrorTyped DEF ScaleBackUpdate, ScaleBackRefused, IInv, TypeOK
<1>4. TypeOK'
  BY <1>1, <1>2, <1>3 DEF VisitBack, IInv, TypeOK
<1>5. Restored'
  BY <1>1, <1>2 DEF VisitBack, IInv, TypeOK, Restored
<1>6. Settled' /\ Visited'
  BY <1>1 DEF VisitBack, Settled, Visited
<1> QED BY <1>4, <1>5, <1>6 DEF IInv

LEMMA ExitKeepsInv == IInv /\ Exit => IInv'
<1> SUFFICES ASSUME IInv, Exit PROVE IInv'
  OBVIOUS
<1>1. TypeOK'
  BY DEF Exit, Ended, clusterVars, IInv, TypeOK
<1>2. Settled' /\ Restored' /\ Visited'
  BY DEF Exit, clusterVars, IInv, Settled, Restored, Visited
<1> QED BY <1>1, <1>2 DEF IInv

(***************************************************************************)
(* A job that is aborted, or tried again, has promised nothing.            *)
(***************************************************************************)
LEMMA AbortKeepsInv == IInv /\ Abort => IInv'
<1> SUFFICES ASSUME IInv, Abort PROVE IInv'
  OBVIOUS
<1>1. TypeOK'
  BY ErrorTyped DEF Abort, Ended, clusterVars, IInv, TypeOK
<1>2. Settled' /\ Restored' /\ Visited'
  BY DEF Abort, Settled, Restored, Visited
<1> QED BY <1>1, <1>2 DEF IInv

LEMMA RerunKeepsInv == IInv /\ Rerun => IInv'
<1> SUFFICES ASSUME IInv, Rerun PROVE IInv'
  OBVIOUS
<1>1. TypeOK'
  BY Syn2MasAssumption DEF Rerun, clusterVars, IInv, TypeOK
<1>2. Settled' /\ Restored' /\ Visited'
  BY DEF Rerun, Settled, Restored, Visited
<1> QED BY <1>1, <1>2 DEF IInv

LEMMA CheckPodKeepsInv == IInv /\ CheckPodEnds => IInv'
<1> SUFFICES ASSUME IInv, CheckPodEnds PROVE IInv'
  OBVIOUS
<1>1. TypeOK'
  BY DEF CheckPodEnds, jobVars, IInv, TypeOK
<1>2. Settled'
  BY DEF CheckPodEnds, jobVars, IInv, Settled, Descending, Untouched, Down
<1>3. Restored' /\ Visited'
  BY DEF CheckPodEnds, jobVars, IInv, Restored, Visited
<1> QED BY <1>1, <1>2, <1>3 DEF IInv

LEMMA StutteringKeepsInv == IInv /\ UNCHANGED vars => IInv'
  BY DEF vars, clusterVars, jobVars, IInv, TypeOK, Settled, Descending, Untouched, Down, Restored,
         Visited

LEMMA NextKeepsInv == IInv /\ [Next]_vars => IInv'
<1> SUFFICES ASSUME IInv, [Next]_vars PROVE IInv'
  OBVIOUS
<1>1. CASE JobStep
  BY <1>1, ListKeepsInv, WaitDownKeepsInv, WaitPodsKeepsInv, MigrateKeepsInv, ScaleBackKeepsInv,
     ExitKeepsInv, ScaleDownKeepsInv, ScaleBackGetKeepsInv DEF JobStep
<1>2. CASE PollAgain \/ Terminating \/ UNCHANGED vars
  BY <1>2, StutteringKeepsInv DEF PollAgain, Terminating
<1> QED BY <1>1, <1>2, AbortKeepsInv, RerunKeepsInv, ControllerKeepsInv, DisruptKeepsInv,
           CheckPodKeepsInv DEF Next

-----------------------------------------------------------------------------

(***************************************************************************)
(* The inductive invariant of the job and of the cluster it works on.      *)
(***************************************************************************)
THEOREM JobIsSafe == Spec => []IInv
  BY InitInv, NextKeepsInv, PTL DEF Spec

(***************************************************************************)
(* Type correctness (TypeOK): the retries stay in their range, and no set  *)
(* has more available pods than pods.                                      *)
(***************************************************************************)
THEOREM JobTypeCorrect == Spec => []TypeOK
<1>1. IInv => TypeOK
  BY DEF IInv
<1> QED BY <1>1, JobIsSafe, PTL

(***************************************************************************)
(* No pod of Synapse runs, or is being terminated, beside the migration:   *)
(* neither a stale status nor a refused update nor a controller that lags  *)
(* behind defeats the two waits of scaleDownSynapse (QuietWhileMigrating). *)
(***************************************************************************)
THEOREM NobodyWritesMeanwhile == Spec => []QuietWhileMigrating
<1>1. IInv => QuietWhileMigrating
  BY DEF IInv, Settled, QuietWhileMigrating
<1> QED BY <1>1, JobIsSafe, PTL

(***************************************************************************)
(* scaleBack gives every StatefulSet the replicas the job found, whatever  *)
(* became of the migration, unless its update was refused                  *)
(* (RestoredUnlessRefused).                                                *)
(***************************************************************************)
THEOREM ScaledBack == Spec => []RestoredUnlessRefused
<1>1. IInv => RestoredUnlessRefused
  BY DEF IInv, Restored, Visited, RestoredUnlessRefused
<1> QED BY <1>1, JobIsSafe, PTL
=============================================================================
