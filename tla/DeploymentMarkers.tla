-------------------------- MODULE DeploymentMarkers --------------------------
(***************************************************************************)
(* The deployment-markers jobs: `matrix-tools deployment-markers` run as a *)
(* pre hook checks that the marker of the release allows the transition    *)
(* Helm is about to make, and run as a post hook records the new value.    *)
(*                                                                         *)
(* A pod is <<operation, step>>: the job Helm creates for the pre or post  *)
(* step of one install or upgrade. Pods of different operations can be at  *)
(* work together, because the job of an operation Helm gave up on goes on  *)
(* until the next operation replaces it. The chart renders exactly one     *)
(* marker for a release, so the list Run walks has one entry.              *)
(***************************************************************************)
EXTENDS KubeApi

CONSTANTS Operations,    \* the installs and upgrades of the release
          MarkerKey,     \* MATRIX_STACK_MSC3861
          BackoffLimit,  \* restarts the job controller grants a pod
          MaxFaults      \* bound on failed API calls and killed pods

MarkerValues == {"legacy_auth", "syn2mas_migrated", "delegated_auth"}

ASSUME MarkersAssumption ==
  /\ Operations \subseteq Nat \ {0}  \* as Helm numbers revisions
  /\ MarkerKey \in Keys
  /\ Unset \notin MarkerValues
  /\ BackoffLimit \in Nat
  /\ MaxFaults \in Nat

(***************************************************************************)
(* The four ways to set the values the marker depends on, with Synapse     *)
(* enabled: Matrix Authentication Service off; on with syn2mas in dry run; *)
(* on with syn2mas migrating; on without syn2mas.                          *)
(***************************************************************************)
Modes == {"legacy", "dryRun", "migrate", "delegated"}

NewValueAtDryRun ==  \* mutant: a dry run recorded as the migration
  [legacy    |-> "legacy_auth",      dryRun    |-> "syn2mas_migrated",
   migrate   |-> "syn2mas_migrated", delegated |-> "delegated_auth"]

NewValue == [legacy    |-> "legacy_auth",
             dryRun    |-> "legacy_auth",
             migrate   |-> "syn2mas_migrated",
             delegated |-> "delegated_auth"]

AllowedUnmigrated ==  \* mutant: MAS may be enabled without a migration
  [legacy    |-> {"legacy_auth"}, dryRun |-> {"legacy_auth"},
   migrate   |-> {"legacy_auth"}, delegated |-> MarkerValues]

AllowedAgain ==  \* mutant: the migration may be repeated
  [legacy    |-> {"legacy_auth"}, dryRun |-> {"legacy_auth"},
   migrate   |-> {"legacy_auth", "syn2mas_migrated"},
   delegated |-> {"delegated_auth", "syn2mas_migrated"}]

AllowedBack ==  \* mutant: MAS may be disabled
  [legacy    |-> {"legacy_auth", "delegated_auth"}, dryRun |-> {"legacy_auth"},
   migrate   |-> {"legacy_auth"},
   delegated |-> {"delegated_auth", "syn2mas_migrated"}]

AllowedValues == [legacy    |-> {"legacy_auth"},
                  dryRun    |-> {"legacy_auth"},
                  migrate   |-> {"legacy_auth"},
                  delegated |-> {"delegated_auth", "syn2mas_migrated"}]

Pods == Operations \X {"pre", "post"}

Ours == "matrix-tools-deployment-markers"

Owners == {Ours, "other", "none"}

Object == [rv : Nat, owner : Owners, data : [Keys -> MarkerValues \cup {Unset}]]

VARIABLES mode,       \* the values each operation was started with
          configMap,  \* the markers ConfigMap of the release
          nextRv,     \* the resourceVersion the next write is given
          pc,         \* where each pod is in GenerateConfigMap
          copy,       \* the ConfigMap a pod read, as it means to write it back
          runs,       \* how often the container of a pod was restarted
          faults      \* how many faults happened so far

podVars == <<pc, copy, runs>>

markerVars == <<mode, configMap, nextRv, pc, copy, runs, faults>>

PodStates == {"absent", "get", "create", "update", "failed", "done", "deleted"}

TypeOK ==
  /\ mode \in [Operations -> Modes \cup {"none"}]
  /\ configMap \in Object
  /\ nextRv \in Nat
  /\ pc \in [Pods -> PodStates]
  /\ copy \in [Pods -> Object]
  /\ runs \in [Pods -> 0..BackoffLimit]
  /\ faults \in 0..MaxFaults

-----------------------------------------------------------------------------

Marker == configMap.data[MarkerKey]

(***************************************************************************)
(* The pre step lets an unset marker and the allowed values pass; the post *)
(* step does not look at the value it replaces.                            *)
(***************************************************************************)
Passes(p, object) ==
  p[2] = "pre" =>
    object.data[MarkerKey] \in AllowedValues[mode[p[1]]] \cup {Unset}

Marked(p, object) ==
  IF p[2] = "post" THEN SetKey(object, MarkerKey, NewValue[mode[p[1]]]) ELSE object

Prepare(p, object) ==
  /\ copy' = [copy EXCEPT ![p] = Marked(p, object)]
  /\ pc' = [pc EXCEPT ![p] = "update"]

End(p, state) ==
  /\ pc' = [pc EXCEPT ![p] = state]
  /\ copy' = [copy EXCEPT ![p] = NoObject]

Fail(p) == End(p, "failed") /\ UNCHANGED <<mode, runs>>

Fault == faults < MaxFaults /\ faults' = faults + 1

(***************************************************************************)
(* Helm creates the job of a step.                                         *)
(***************************************************************************)
Launch(p) ==
  /\ pc[p] = "absent"
  /\ mode[p[1]] \in Modes
  /\ pc' = [pc EXCEPT ![p] = "get"]
  /\ UNCHANGED <<mode, configMap, nextRv, copy, runs, faults>>

(***************************************************************************)
(* Get, with the managed-by check and the step that follow it. Every error *)
(* of Get, "not found" or any other, leads to Create.                      *)
(***************************************************************************)
GetFound(p) ==
  /\ pc[p] = "get"
  /\ Exists(configMap)
  /\ configMap.owner = Ours
  /\ Passes(p, configMap)
  /\ Prepare(p, configMap)
  /\ UNCHANGED <<mode, configMap, nextRv, runs, faults>>

GetRefused(p) ==
  /\ pc[p] = "get"
  /\ Exists(configMap)
  /\ configMap.owner # Ours \/ ~Passes(p, configMap)
  /\ Fail(p)
  /\ UNCHANGED <<configMap, nextRv, faults>>

GetMissing(p) ==
  /\ pc[p] = "get"
  /\ ~Exists(configMap)
  /\ pc' = [pc EXCEPT ![p] = "create"]
  /\ UNCHANGED <<mode, configMap, nextRv, copy, runs, faults>>

GetError(p) ==
  /\ pc[p] = "get"
  /\ Fault
  /\ pc' = [pc EXCEPT ![p] = "create"]
  /\ UNCHANGED <<mode, configMap, nextRv, copy, runs>>

(***************************************************************************)
(* Create makes a ConfigMap without data and fails if there is one already.*)
(***************************************************************************)
StoreCreated ==
  /\ ~Exists(configMap)
  /\ configMap' = Created(Ours, nextRv)
  /\ nextRv' = nextRv + 1

Create(p) ==
  /\ pc[p] = "create"
  /\ StoreCreated
  /\ Prepare(p, Created(Ours, nextRv))
  /\ UNCHANGED <<mode, runs, faults>>

CreateConflict(p) ==
  /\ pc[p] = "create"
  /\ Exists(configMap)
  /\ Fail(p)
  /\ UNCHANGED <<configMap, nextRv, faults>>

StoreUnchecked(p) ==  \* mutant: an update without resourceVersion
  /\ Exists(configMap)
  /\ configMap' = Written(configMap, copy[p], nextRv)
  /\ nextRv' = nextRv + 1

StoreUpdated(p) ==
  /\ Accepts(configMap, copy[p])
  /\ configMap' = Written(configMap, copy[p], nextRv)
  /\ nextRv' = IF copy[p] = configMap THEN nextRv ELSE nextRv + 1

Update(p) ==
  /\ pc[p] = "update"
  /\ StoreUpdated(p)
  /\ End(p, "done")
  /\ UNCHANGED <<mode, runs, faults>>

ConflictIgnored(p) ==  \* mutant: prints the error of a conflict and exits with 0
  /\ pc[p] = "update"
  /\ ~Accepts(configMap, copy[p])
  /\ End(p, "done")
  /\ UNCHANGED <<mode, runs, configMap, nextRv, faults>>

UpdateConflict(p) ==
  /\ pc[p] = "update"
  /\ ~Accepts(configMap, copy[p])
  /\ Fail(p)
  /\ UNCHANGED <<configMap, nextRv, faults>>

(***************************************************************************)
(* A call carried out by the server whose response is lost, and a call     *)
(* that fails without effect or a container that is killed.                *)
(***************************************************************************)
LostResponse(p) ==
  /\ \/ pc[p] = "create" /\ StoreCreated
     \/ pc[p] = "update" /\ StoreUpdated(p)
  /\ Fault
  /\ Fail(p)

Killed(p) ==
  /\ pc[p] \in {"get", "create", "update"}
  /\ Fault
  /\ Fail(p)
  /\ UNCHANGED <<configMap, nextRv>>

RestartAlways(p) ==  \* mutant: no limit to the restarts
  /\ pc[p] = "failed"
  /\ pc' = [pc EXCEPT ![p] = "get"]
  /\ runs' = [runs EXCEPT ![p] = @ + 1]
  /\ UNCHANGED <<mode, configMap, nextRv, copy, faults>>

RestartUncounted(p) ==  \* mutant: restarts are not counted
  /\ pc[p] = "failed"
  /\ runs[p] < BackoffLimit
  /\ pc' = [pc EXCEPT ![p] = "get"]
  /\ UNCHANGED <<mode, configMap, nextRv, copy, runs, faults>>

Restart(p) ==
  /\ pc[p] = "failed"
  /\ runs[p] < BackoffLimit
  /\ pc' = [pc EXCEPT ![p] = "get"]
  /\ runs' = [runs EXCEPT ![p] = @ + 1]
  /\ UNCHANGED <<mode, configMap, nextRv, copy, faults>>

(***************************************************************************)
(* Before it creates the job of a step, Helm deletes the one the previous  *)
(* operation left (before-hook-creation); its pod goes some time after.    *)
(***************************************************************************)
Reap(p) ==
  /\ pc[p] \in {"get", "create", "update", "failed"}
  /\ \E o \in Operations : o > p[1] /\ pc[<<o, p[2]>>] # "absent"
  /\ End(p, "deleted")
  /\ UNCHANGED <<mode, configMap, nextRv, runs, faults>>

(***************************************************************************)
(* What a pod does when nothing goes wrong around it.                      *)
(***************************************************************************)
Progress(p) ==
  \/ GetFound(p) \/ GetRefused(p) \/ GetMissing(p)
  \/ Create(p) \/ CreateConflict(p)
  \/ Update(p) \/ UpdateConflict(p)
  \/ Restart(p)

PodStep(p) == Progress(p) \/ GetError(p) \/ LostResponse(p) \/ Killed(p) \/ Reap(p)

Succeeded(p) == pc[p] = "done"

GaveUp(p) == pc[p] = "failed" /\ runs[p] = BackoffLimit

(***************************************************************************)
(* Helm is run with one of the modes, and creates the jobs of one          *)
(* operation at a time, that of the post step once the check has passed.   *)
(***************************************************************************)
Begin(o, m) ==
  /\ mode[o] = "none"
  /\ \A q \in Operations : q < o => mode[q] # "none"
  /\ mode' = [mode EXCEPT ![o] = m]
  /\ UNCHANGED <<configMap, nextRv, podVars, faults>>

LaunchStep(p) ==
  /\ Launch(p)
  /\ \A o \in Operations : o > p[1] => mode[o] = "none"
  /\ p[2] = "post" => Succeeded(<<p[1], "pre">>)

Finished(p) == Succeeded(p) \/ GaveUp(p) \/ pc[p] \in {"absent", "deleted"}

(***************************************************************************)
(* The ConfigMap may be there already, left by an earlier release of this  *)
(* name or made by somebody else.                                          *)
(***************************************************************************)
MarkersInit ==
  /\ mode = [o \in Operations |-> "none"]
  /\ configMap \in {NoObject}
                   \cup {[rv |-> 1, owner |-> o, data |-> d] :
                           o \in Owners, d \in [Keys -> MarkerValues \cup {Unset}]}
  /\ nextRv = 2
  /\ pc = [p \in Pods |-> "absent"]
  /\ copy = [p \in Pods |-> NoObject]
  /\ runs = [p \in Pods |-> 0]
  /\ faults = 0

(***************************************************************************)
(* What the jobs may do whatever else an operation does. HelmRelease puts  *)
(* these steps in the order of an operation.                               *)
(***************************************************************************)
MarkersNext ==
  \/ \E o \in Operations, m \in Modes : Begin(o, m)
  \/ \E p \in Pods : LaunchStep(p) \/ PodStep(p)

MarkersSpec == MarkersInit /\ [][MarkersNext]_markerVars

-----------------------------------------------------------------------------

(***************************************************************************)
(* Only a post step gives the marker a value, and it is the value of the   *)
(* operation it belongs to: the update of a pre step, which writes back    *)
(* the whole ConfigMap it read, neither loses nor revives one.             *)
(***************************************************************************)
OnlyPostRecords ==
  [][Marker' # Marker =>
       \E o \in Operations : /\ pc[<<o, "post">>] = "update"
                             /\ pc'[<<o, "post">>] # "update"
                             /\ Marker' = NewValue[mode[o]]]_markerVars

(***************************************************************************)
(* When a pre step succeeds, the marker allows the transition at that      *)
(* moment, not only when the pod looked at it.                             *)
(***************************************************************************)
CheckHoldsAtSuccess ==
  [][\A o \in Operations :
       pc[<<o, "pre">>] # "done" /\ pc'[<<o, "pre">>] = "done" =>
         Marker' \in AllowedValues[mode[o]] \cup {Unset}]_markerVars

(***************************************************************************)
(* When a post step succeeds, its value is the marker.                     *)
(***************************************************************************)
RecordedAtSuccess ==
  [][\A o \in Operations :
       pc[<<o, "post">>] # "done" /\ pc'[<<o, "post">>] = "done" =>
         Marker' = NewValue[mode[o]]]_markerVars
=============================================================================
