------------------------------- MODULE Syn2Mas -------------------------------
(***************************************************************************)
(* The syn2mas job: `matrix-tools syn2mas` scales the StatefulSets of      *)
(* Synapse to zero, waits for their pods to go, runs the migration and     *)
(* scales them back.                                                       *)
(*                                                                         *)
(* Around it the StatefulSet controller works at its own pace: it observes *)
(* a new number of replicas, starts and stops pods, and reports a status,  *)
(* which is a write to the same object the job updates. The job's updates  *)
(* carry the version it read, and one that is refused is only printed.     *)
(***************************************************************************)
EXTENDS Naturals, FiniteSets

CONSTANTS Sets,            \* the StatefulSets labelled matrix-server
          Original,        \* [Sets -> Nat], the replicas they are deployed with
          MaxRetries,      \* SYN2MAS_SCALE_DOWN_MAX_RETRIES
          MaxErrors,       \* bound on failed API calls and killed jobs
          MaxDisruptions,  \* bound on pods that fail or are evicted
          MaxRuns,         \* bound on attempts at the migration
          CheckPod         \* may a pod of the check-config hook remain?

ASSUME Syn2MasAssumption ==
  /\ Sets # {}  \* the job is rendered with Synapse, whose main process is one
  /\ Original \in [Sets -> Nat]
  /\ {MaxRetries, MaxErrors, MaxDisruptions} \subseteq Nat
  /\ MaxRuns \in Nat \ {0}
  /\ CheckPod \in BOOLEAN

VARIABLES replicas,   \* the replicas each StatefulSet asks for
          seen,       \* the replicas its controller has observed
          pods,       \* the pods it has, terminating ones included
          ready,      \* those that are available
          reported,   \* its status, as last reported
          checkPod,   \* is there an unfinished pod of the check-config hook?
          pc,         \* where the job is
          fresh,      \* the sets not written since the job read them
          saved,      \* the replicas the job found
          todo,       \* the sets its current loop has yet to visit
          current,    \* the set the second loop has just read
          retries,    \* remainingRetries
          result,     \* how mas-cli ended
          kept,       \* the sets the job failed to scale down
          lost,       \* the sets the job failed to scale back
          settled,    \* was the cluster at rest when the job read it?
          runs, errors, disruptions

clusterVars == <<replicas, seen, pods, ready, reported, checkPod>>

jobVars == <<pc, fresh, saved, todo, current, retries, result, kept, lost, settled, runs>>

vars == <<clusterVars, jobVars, errors, disruptions>>

Ended == {"succeeded", "failed", "aborted"}

TypeOK ==
  /\ replicas \in [Sets -> Nat]
  /\ seen \in [Sets -> Nat]
  /\ pods \in [Sets -> Nat]
  /\ ready \in [Sets -> Nat]
  /\ \A s \in Sets : ready[s] <= pods[s]
  /\ reported \in [Sets -> [seen : Nat, pods : Nat, ready : Nat]]
  /\ checkPod \in BOOLEAN
  /\ pc \in {"list", "scaleDown", "waitDown", "waitPods", "migrating",
             "scaleBack", "scaleBackUpdate"} \cup Ended
  /\ saved \in [Sets -> Nat]
  /\ current \in Sets
  /\ {fresh, todo, kept, lost} \subseteq SUBSET Sets
  /\ retries \in 0..MaxRetries
  /\ result \in {"none", "ok", "error"}
  /\ settled \in BOOLEAN
  /\ runs \in 1..MaxRuns
  /\ errors \in 0..MaxErrors
  /\ disruptions \in 0..MaxDisruptions

-----------------------------------------------------------------------------

(***************************************************************************)
(* The StatefulSet controller and the kubelets.                            *)
(***************************************************************************)
Status(s) == [seen |-> seen[s], pods |-> pods[s], ready |-> ready[s]]

AtRest(s) ==
  /\ seen[s] = replicas[s]
  /\ pods[s] = replicas[s]
  /\ ready[s] = replicas[s]
  /\ reported[s] = Status(s)

Observe(s) ==
  /\ seen[s] # replicas[s]
  /\ seen' = [seen EXCEPT ![s] = replicas[s]]
  /\ UNCHANGED <<replicas, pods, ready, reported, checkPod, jobVars, errors, disruptions>>

StartPod(s) ==
  /\ pods[s] < seen[s]
  /\ pods' = [pods EXCEPT ![s] = @ + 1]
  /\ UNCHANGED <<replicas, seen, ready, reported, checkPod, jobVars, errors, disruptions>>

PodReady(s) ==
  /\ ready[s] < pods[s]
  /\ pods[s] <= seen[s]
  /\ ready' = [ready EXCEPT ![s] = @ + 1]
  /\ UNCHANGED <<replicas, seen, pods, reported, checkPod, jobVars, errors, disruptions>>

(***************************************************************************)
(* A pod that is no longer wanted stops being available, and is gone some  *)
(* time later.                                                             *)
(***************************************************************************)
StopPod(s) ==
  /\ pods[s] > seen[s]
  /\ ready[s] > seen[s]
  /\ ready' = [ready EXCEPT ![s] = @ - 1]
  /\ UNCHANGED <<replicas, seen, pods, reported, checkPod, jobVars, errors, disruptions>>

PodGone(s) ==
  /\ pods[s] > seen[s]
  /\ pods[s] > ready[s]
  /\ pods' = [pods EXCEPT ![s] = @ - 1]
  /\ UNCHANGED <<replicas, seen, ready, reported, checkPod, jobVars, errors, disruptions>>

(***************************************************************************)
(* A status is written with the object: the job's copy of it is stale.     *)
(***************************************************************************)
ReportStatus(s) ==
  /\ reported[s] # Status(s)
  /\ reported' = [reported EXCEPT ![s] = Status(s)]
  /\ fresh' = fresh \ {s}
  /\ UNCHANGED <<replicas, seen, pods, ready, checkPod, pc, saved, todo, current, retries,
                 result, kept, lost, settled, runs, errors, disruptions>>

(***************************************************************************)
(* A pod fails its probes, or is evicted.                                  *)
(***************************************************************************)
Disrupt(s) ==
  /\ disruptions < MaxDisruptions
  /\ disruptions' = disruptions + 1
  /\ ready[s] > 0
  /\ ready' = [ready EXCEPT ![s] = @ - 1]
  /\ pods' \in {pods, [pods EXCEPT ![s] = @ - 1]}
  /\ UNCHANGED <<replicas, seen, reported, checkPod, jobVars, errors>>

CheckPodEnds ==
  /\ checkPod
  /\ checkPod' = FALSE
  /\ UNCHANGED <<replicas, seen, pods, ready, reported, jobVars, errors, disruptions>>

-----------------------------------------------------------------------------

Error == errors < MaxErrors /\ errors' = errors + 1

(***************************************************************************)
(* scaleDownSynapse: the list of the StatefulSets.                         *)
(***************************************************************************)
List ==
  /\ pc = "list"
  /\ pc' = "scaleDown"
  /\ saved' = replicas
  /\ fresh' = Sets
  /\ todo' = Sets
  /\ settled' = \A s \in Sets : AtRest(s)
  /\ UNCHANGED <<clusterVars, current, retries, result, kept, lost, runs, errors, disruptions>>

(***************************************************************************)
(* The first loop asks for no replicas with the object that was listed.    *)
(***************************************************************************)
VisitDown(s) ==
  /\ pc = "scaleDown"
  /\ s \in todo
  /\ todo' = todo \ {s}
  /\ pc' = IF todo' = {} THEN "waitDown" ELSE "scaleDown"
  /\ UNCHANGED <<seen, pods, ready, reported, checkPod, fresh, saved, current, retries,
                 result, lost, settled, runs, disruptions>>

ScaleDown(s) ==
  /\ VisitDown(s)
  /\ s \in fresh
  /\ replicas' = [replicas EXCEPT ![s] = 0]
  /\ UNCHANGED <<kept, errors>>

ScaleDownRefused(s) ==
  /\ VisitDown(s)
  /\ \/ s \notin fresh /\ UNCHANGED errors
     \/ Error
  /\ kept' = kept \cup {s}
  /\ UNCHANGED replicas

(***************************************************************************)
(* The second loop ends once no StatefulSet reports an available replica.  *)
(***************************************************************************)
WaitDown ==
  /\ pc = "waitDown"
  /\ \A s \in Sets : reported[s].ready = 0
  /\ pc' = "waitPods"
  /\ retries' = MaxRetries
  /\ UNCHANGED <<clusterVars, fresh, saved, todo, current, result, kept, lost, settled,
                 runs, errors, disruptions>>

PollAgain ==
  /\ pc = "waitDown"
  /\ \E s \in Sets : reported[s].ready # 0
  /\ UNCHANGED vars

AvailablePodsFound ==  \* mutant: does not count terminating pods
  checkPod \/ \E s \in Sets : ready[s] # 0

(***************************************************************************)
(* The third loop counts the pods with the label of Synapse, which those   *)
(* of the check-config hook carry as well.                                 *)
(***************************************************************************)
PodsFound == checkPod \/ \E s \in Sets : pods[s] # 0

WaitPodsOnceMore ==  \* mutant: compares the retries with < 0
  /\ pc = "waitPods"
  /\ \/ ~PodsFound /\ pc' = "migrating" /\ UNCHANGED retries
     \/ PodsFound /\ retries >= 0 /\ retries' = retries - 1 /\ UNCHANGED pc
     \/ PodsFound /\ retries < 0 /\ pc' = "aborted" /\ UNCHANGED retries
  /\ UNCHANGED <<clusterVars, fresh, saved, todo, current, result, kept, lost, settled,
                 runs, errors, disruptions>>

WaitPodsForever ==  \* mutant: the retries are not counted down
  /\ pc = "waitPods"
  /\ pc' = IF PodsFound THEN pc ELSE "migrating"
  /\ UNCHANGED <<clusterVars, fresh, saved, todo, current, retries, result, kept, lost,
                 settled, runs, errors, disruptions>>

WaitPods ==
  /\ pc = "waitPods"
  /\ \/ /\ ~PodsFound
        /\ pc' = "migrating"
        /\ UNCHANGED retries
     \/ /\ PodsFound
        /\ retries > 0
        /\ retries' = retries - 1
        /\ UNCHANGED pc
     \/ /\ PodsFound
        /\ retries = 0
        /\ pc' = "aborted"
        /\ UNCHANGED retries
  /\ UNCHANGED <<clusterVars, fresh, saved, todo, current, result, kept, lost, settled,
                 runs, errors, disruptions>>

MigrateOrExit ==  \* mutant: exits at once when mas-cli fails
  /\ pc = "migrating"
  /\ result' \in {"ok", "error"}
  /\ pc' = IF result' = "ok" THEN "scaleBack" ELSE "failed"
  /\ todo' = DOMAIN saved
  /\ UNCHANGED <<clusterVars, fresh, saved, current, retries, kept, lost, settled,
                 runs, errors, disruptions>>

(***************************************************************************)
(* RunSyn2MAS: mas-cli succeeds or fails; Synapse is scaled back anyhow.   *)
(***************************************************************************)
Migrate ==
  /\ pc = "migrating"
  /\ result' \in {"ok", "error"}
  /\ pc' = "scaleBack"
  /\ todo' = DOMAIN saved
  /\ UNCHANGED <<clusterVars, fresh, saved, current, retries, kept, lost, settled,
                 runs, errors, disruptions>>

ScaleBackGet(s) ==
  /\ pc = "scaleBack"
  /\ s \in todo
  /\ current' = s
  /\ fresh' = fresh \cup {s}
  /\ pc' = "scaleBackUpdate"
  /\ UNCHANGED <<clusterVars, saved, todo, retries, result, kept, lost, settled,
                 runs, errors, disruptions>>

VisitBack ==
  /\ pc = "scaleBackUpdate"
  /\ todo' = todo \ {current}
  /\ pc' = "scaleBack"
  /\ UNCHANGED <<seen, pods, ready, reported, checkPod, fresh, saved, current, retries,
                 result, kept, settled, runs, disruptions>>

ScaleBackUpdate ==
  /\ VisitBack
  /\ current \in fresh
  /\ replicas' = [replicas EXCEPT ![current] = saved[current]]
  /\ UNCHANGED <<lost, errors>>

ScaleBackRefused ==
  /\ VisitBack
  /\ \/ current \notin fresh /\ UNCHANGED errors
     \/ Error
  /\ lost' = lost \cup {current}
  /\ UNCHANGED replicas

Exit ==
  /\ pc = "scaleBack"
  /\ todo = {}
  /\ pc' = IF result = "ok" THEN "succeeded" ELSE "failed"
  /\ UNCHANGED <<clusterVars, fresh, saved, todo, current, retries, result, kept, lost,
                 settled, runs, errors, disruptions>>

(***************************************************************************)
(* A List or a Get that fails ends the command on the spot, and the job    *)
(* may be killed; its pod is not restarted (backoffLimit 0).               *)
(***************************************************************************)
Abort ==
  /\ pc \notin Ended
  /\ Error
  /\ pc' = "aborted"
  /\ UNCHANGED <<clusterVars, fresh, saved, todo, current, retries, result, kept, lost,
                 settled, runs, disruptions>>

(***************************************************************************)
(* The upgrade failed with its hook; the administrator may try it again.   *)
(***************************************************************************)
Rerun ==
  /\ pc \in {"failed", "aborted"}
  /\ runs < MaxRuns
  /\ runs' = runs + 1
  /\ pc' = "list"
  /\ fresh' = {}
  /\ todo' = {}
  /\ kept' = {}
  /\ lost' = {}
  /\ result' = "none"
  /\ UNCHANGED <<clusterVars, saved, current, retries, settled, errors, disruptions>>

-----------------------------------------------------------------------------

Init ==
  /\ replicas = Original
  /\ seen = Original
  /\ pods = Original
  /\ ready = Original
  /\ reported = [s \in Sets |-> Status(s)]
  /\ checkPod \in {FALSE, CheckPod}
  /\ pc = "list"
  /\ saved = Original
  /\ current = CHOOSE s \in Sets : TRUE
  /\ retries = 0
  /\ result = "none"
  /\ settled = TRUE
  /\ runs = 1
  /\ errors = 0
  /\ disruptions = 0
  /\ fresh = {}
  /\ todo = {}
  /\ kept = {}
  /\ lost = {}

Controller(s) ==
  Observe(s) \/ StartPod(s) \/ PodReady(s) \/ StopPod(s) \/ PodGone(s) \/ ReportStatus(s)

JobStep ==
  \/ List \/ WaitDown \/ WaitPods \/ Migrate \/ ScaleBackUpdate \/ ScaleBackRefused \/ Exit
  \/ \E s \in Sets : ScaleDown(s) \/ ScaleDownRefused(s) \/ ScaleBackGet(s)

Terminating ==
  /\ pc \in Ended
  /\ UNCHANGED vars

Next ==
  \/ JobStep
  \/ Abort
  \/ Rerun
  \/ \E s \in Sets : Controller(s) \/ Disrupt(s)
  \/ CheckPodEnds
  \/ PollAgain
  \/ Terminating

Spec == Init /\ [][Next]_vars

(***************************************************************************)
(* The job and the controller proceed; mas-cli ends.                       *)
(***************************************************************************)
Fairness == WF_vars(JobStep) /\ \A s \in Sets : WF_vars(Controller(s))

FairSpec == Spec /\ Fairness

-----------------------------------------------------------------------------

(***************************************************************************)
(* While the migration runs there is no pod of Synapse: not one that is    *)
(* still terminating, nor one the controller starts because it has yet to  *)
(* observe the update. It takes a cluster at rest when the job began, and  *)
(* no disruption: the status the job waits for may predate its update.     *)
(* It does not take the updates to be accepted.                            *)
(***************************************************************************)
QuietWhileMigrating ==
  pc = "migrating" /\ settled /\ disruptions = 0 => \A s \in Sets : pods[s] = 0

(***************************************************************************)
(* A job that comes to its end leaves every StatefulSet with the replicas  *)
(* it found, whether the migration succeeded or not, except those whose    *)
(* update was refused (scaleBack, "in case of failure, scale back synapse  *)
(* up").                                                                   *)
(***************************************************************************)
RestoredUnlessRefused ==
  pc \in {"succeeded", "failed"} => \A s \in Sets \ lost : replicas[s] = saved[s]

(***************************************************************************)
(* The job ends, unless an update that scales down was refused: then the   *)
(* second loop, which has no limit, waits for replicas nobody takes away.  *)
(***************************************************************************)
JobEnds == pc = "list" ~> (pc \in Ended \/ kept # {})

-----------------------------------------------------------------------------

(***************************************************************************)
(* "At the end of the migration, Synapse will be scaled back up to its     *)
(* original number of replicas" (docs/syn2mas.md:78).                      *)
(***************************************************************************)
ScaledBackAtTheEnd ==
  pc \in {"succeeded", "failed"} => \A s \in Sets : replicas[s] = Original[s]
=============================================================================
