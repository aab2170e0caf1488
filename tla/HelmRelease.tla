----------------------------- MODULE HelmRelease -----------------------------
(***************************************************************************)
(* The life of one release of the chart: a sequence of installs and        *)
(* upgrades, each running the chart's hooks in the order of their weights, *)
(* and of their names where weights are equal, around the rollout of the   *)
(* manifests. The marker jobs of DeploymentMarkers are the first and the   *)
(* last hook.                                                              *)
(*                                                                         *)
(* Helm runs one operation at a time. An operation stops at the first      *)
(* hook that fails, or when the rollout fails or is not ready in time; the *)
(* release is then "failed" and can be upgraded again with any values. A   *)
(* rollback applies the manifests of an earlier revision; no hook of the   *)
(* chart is annotated to run then.                                         *)
(***************************************************************************)
EXTENDS DeploymentMarkers, Integers

CONSTANTS Failures,   \* may hooks and rollouts fail?
          Timeouts,   \* may Helm give up on a marker job that goes on?
          Rollbacks,  \* may the administrator use helm rollback?
          Leftovers   \* may a ConfigMap of that name be there already?

VARIABLES op,        \* the current operation, or the last one
          phase,     \* how far it is; "idle" between operations
          hooks,     \* the hooks of weight 0 it has yet to run
          status,    \* the status of the release
          auth,      \* how the deployed Synapse authenticates its users
          accounts,  \* the services holding accounts no other service has
          tainted    \* has something happened that the marker cannot show?

helmVars == <<op, phase, hooks, status, auth, accounts, tainted>>

vars == <<mode, configMap, nextRv, pc, copy, runs, faults,
          op, phase, hooks, status, auth, accounts, tainted>>

Phases == {"idle", "pre", "initSecrets", "hooks", "apply", "wait", "dryRun", "post"}

ReleaseTypeOK ==
  /\ TypeOK
  /\ op \in Operations \cup {0}
  /\ phase \in Phases
  /\ hooks \subseteq {"syn2mas", "checkConfig"}
  /\ status \in {"none", "deployed", "failed"}
  /\ auth \in {"none", "legacy", "delegated"}
  /\ accounts \subseteq {"synapse", "mas"}
  /\ tainted \in BOOLEAN

-----------------------------------------------------------------------------

(***************************************************************************)
(* Synapse delegates authentication unless MAS is off or syn2mas is still  *)
(* in dry run (readyToHandleAuth).                                         *)
(***************************************************************************)
AuthOf(m) == IF m \in {"migrate", "delegated"} THEN "delegated" ELSE "legacy"

PreHooksWithoutMigration(m) ==  \* mutant: syn2mas is always a post hook
  {"checkConfig"}

(***************************************************************************)
(* The hooks of weight 0 that run before the manifests, in either order.   *)
(* In dry run syn2mas is a post hook.                                      *)
(***************************************************************************)
PreHooks(m) == {"checkConfig"} \cup IF m = "migrate" THEN {"syn2mas"} ELSE {}

(***************************************************************************)
(* The marker tells the truth if it agrees with how Synapse authenticates  *)
(* and with where the accounts are.                                        *)
(***************************************************************************)
Truthful ==
  /\ auth = "legacy" => Marker = "legacy_auth"
  /\ auth = "delegated" => Marker \in {"syn2mas_migrated", "delegated_auth"}
  /\ "mas" \in accounts => Marker \in {"syn2mas_migrated", "delegated_auth"}

GoTo(p) == phase' = p /\ UNCHANGED <<op, status, tainted>>

EndAs(result) ==
  /\ phase' = "idle"
  /\ status' = result
  /\ hooks' = {}
  /\ UNCHANGED <<op, tainted>>

-----------------------------------------------------------------------------

(***************************************************************************)
(* Helm gave up on a job, its pod goes on and may yet record a value.      *)
(***************************************************************************)
PostAtWork == \E o \in Operations : ~Finished(<<o, "post">>)

(***************************************************************************)
(* helm upgrade --install with one of the modes.                           *)
(***************************************************************************)
Start(m) ==
  /\ phase = "idle"
  /\ op + 1 \in Operations
  /\ op' = op + 1
  /\ Begin(op', m)
  /\ phase' = "pre"
  /\ hooks' = PreHooks(m)
  /\ tainted' = (tainted \/ ~Truthful \/ PostAtWork)
  /\ UNCHANGED <<status, auth, accounts>>

LaunchMarkers ==
  /\ phase \in {"pre", "post"}
  /\ LaunchStep(<<op, phase>>)
  /\ UNCHANGED helmVars

(***************************************************************************)
(* Helm waits for the marker job and goes on if it succeeds.               *)
(***************************************************************************)
MarkersSucceed ==
  /\ phase \in {"pre", "post"}
  /\ Succeeded(<<op, phase>>)
  /\ IF phase = "pre" THEN GoTo("initSecrets") /\ UNCHANGED hooks ELSE EndAs("deployed")
  /\ UNCHANGED <<markerVars, auth, accounts>>

MarkersFail ==
  /\ phase \in {"pre", "post"}
  /\ GaveUp(<<op, phase>>)
  /\ EndAs("failed")
  /\ UNCHANGED <<markerVars, auth, accounts>>

(***************************************************************************)
(* Helm gives up on a marker job that goes on.                             *)
(***************************************************************************)
MarkersTimeOut ==
  /\ Timeouts
  /\ phase \in {"pre", "post"}
  /\ pc[<<op, phase>>] \in {"get", "create", "update", "failed"}
  /\ EndAs("failed")
  /\ UNCHANGED <<markerVars, auth, accounts>>

InitSecrets ==
  /\ phase = "initSecrets"
  /\ GoTo("hooks")
  /\ UNCHANGED <<markerVars, hooks, auth, accounts>>

CheckConfig ==
  /\ phase = "hooks"
  /\ "checkConfig" \in hooks
  /\ hooks' = hooks \ {"checkConfig"}
  /\ UNCHANGED <<markerVars, op, phase, status, tainted, auth, accounts>>

(***************************************************************************)
(* The migration copies every account of Synapse to MAS. It needs the      *)
(* databases of a Synapse that has been set up.                            *)
(***************************************************************************)
Syn2Mas ==
  /\ phase = "hooks"
  /\ "syn2mas" \in hooks
  /\ auth # "none"
  /\ hooks' = hooks \ {"syn2mas"}
  /\ accounts' = accounts \ {"synapse"}
  /\ UNCHANGED <<markerVars, op, phase, status, tainted, auth>>

HooksDone ==
  /\ phase = "hooks"
  /\ hooks = {}
  /\ GoTo("apply")
  /\ UNCHANGED <<markerVars, hooks, auth, accounts>>

Apply ==
  /\ phase = "apply"
  /\ auth' = AuthOf(mode[op])
  /\ GoTo("wait")
  /\ UNCHANGED <<markerVars, hooks, accounts>>

Ready ==
  /\ phase = "wait"
  /\ GoTo(IF mode[op] = "dryRun" THEN "dryRun" ELSE "post")
  /\ UNCHANGED <<markerVars, hooks, auth, accounts>>

DryRun ==
  /\ phase = "dryRun"
  /\ GoTo("post")
  /\ UNCHANGED <<markerVars, hooks, auth, accounts>>

(***************************************************************************)
(* A hook fails, or the rollout fails or does not become ready in time.    *)
(* The migration cannot but fail where there is nothing to migrate from.   *)
(***************************************************************************)
OperationFails ==
  /\ phase \in {"initSecrets", "hooks", "apply", "wait", "dryRun"}
  /\ Failures \/ (auth = "none" /\ "syn2mas" \in hooks)
  /\ EndAs("failed")
  /\ UNCHANGED <<markerVars, auth, accounts>>

(***************************************************************************)
(* helm rollback to the manifests of an earlier operation.                 *)
(***************************************************************************)
Rollback(o) ==
  /\ Rollbacks
  /\ phase = "idle"
  /\ o < op
  /\ auth # "none"
  /\ AuthOf(mode[o]) # auth
  /\ auth' = AuthOf(mode[o])
  /\ status' = "deployed"
  /\ tainted' = TRUE
  /\ UNCHANGED <<markerVars, op, phase, hooks, accounts>>

(***************************************************************************)
(* Somebody registers, with the service the deployed Synapse asks. Synapse *)
(* is up again as soon as the migration is over, in the configuration it   *)
(* had before, until the rollout: who registers then is not migrated.      *)
(***************************************************************************)
MigratedNotRolledOut ==
  /\ phase \in {"hooks", "apply"}
  /\ mode[op] = "migrate"
  /\ "syn2mas" \notin hooks

Register ==
  /\ auth # "none"
  /\ accounts' = accounts \cup {IF auth = "legacy" THEN "synapse" ELSE "mas"}
  /\ accounts' # accounts
  /\ tainted' = (tainted \/ MigratedNotRolledOut)
  /\ UNCHANGED <<markerVars, op, phase, hooks, status, auth>>

-----------------------------------------------------------------------------

(***************************************************************************)
(* No operation is left and the pods Helm gave up on have ended.           *)
(***************************************************************************)
Terminating ==
  /\ phase = "idle"
  /\ op + 1 \notin Operations
  /\ \A p \in Pods : Finished(p)
  /\ UNCHANGED vars

Init ==
  /\ MarkersInit
  /\ Leftovers \/ configMap = NoObject
  /\ op = 0
  /\ phase = "idle"
  /\ hooks = {}
  /\ status = "none"
  /\ auth = "none"
  /\ accounts = {}
  /\ tainted = FALSE

HelmStep ==
  \/ LaunchMarkers \/ MarkersSucceed \/ MarkersFail
  \/ InitSecrets \/ CheckConfig \/ Syn2Mas \/ HooksDone
  \/ Apply \/ Ready \/ DryRun \/ OperationFails

Next ==
  \/ \E m \in Modes : Start(m)
  \/ HelmStep
  \/ MarkersTimeOut
  \/ \E p \in Pods : PodStep(p) /\ UNCHANGED helmVars
  \/ \E o \in Operations : Rollback(o)
  \/ Register
  \/ Terminating

Spec == Init /\ [][Next]_vars

(***************************************************************************)
(* Helm and the running pods go on. That Helm loses its patience with a    *)
(* marker job is not relied upon.                                          *)
(***************************************************************************)
Fairness ==
  /\ WF_vars(HelmStep)
  /\ \A p \in Pods : WF_vars(Progress(p) /\ UNCHANGED helmVars)

FairSpec == Spec /\ Fairness

-----------------------------------------------------------------------------

(***************************************************************************)
(* After a successful operation every account is where the deployed        *)
(* Synapse looks for it: the marker checks of _helpers.tpl, whatever the   *)
(* sequence of values the administrator tries and whichever hooks fail,    *)
(* never let a deployment strand an account. The exceptions are what a     *)
(* marker cannot show (tainted): an operation that began after a rollout   *)
(* whose marker was not recorded, or while a post job Helm gave up on was  *)
(* still at work; a rollback; and an account created between the migration *)
(* and the rollout.                                                        *)
(***************************************************************************)
Reachable ==
  /\ auth = "legacy" => "mas" \notin accounts
  /\ auth = "delegated" => "synapse" \notin accounts

AccountsReachable ==
  status = "deployed" /\ phase = "idle" /\ ~tainted => Reachable

(***************************************************************************)
(* A release that is deployed has a truthful marker: the post job, which   *)
(* looks at nothing, is the last word on every path to "deployed".         *)
(***************************************************************************)
DeployedIsTruthful ==
  status = "deployed" /\ phase = "idle" /\ ~tainted => Truthful

(***************************************************************************)
(* "Prevent running syn2mas migration again after it has run successfully  *)
(* and is in syn2mas_migrated state" (docs/syn2mas.md:111): the check is   *)
(* made by a pre hook ten weights earlier, and still holds.                *)
(***************************************************************************)
NoSecondMigration ==
  [][("syn2mas" \in hooks /\ "syn2mas" \notin hooks' /\ phase' = "hooks") =>
       Marker \notin {"syn2mas_migrated", "delegated_auth"}]_vars

(***************************************************************************)
(* The marker of the release follows its protocol (_helpers.tpl markers):  *)
(* no sequence of operations takes it anywhere but forward.                *)
(***************************************************************************)
Protocol == INSTANCE AuthMigration WITH state <- Marker

ImplementsAuthMigration == Protocol!Spec

(***************************************************************************)
(* Every operation ends, deployed or failed: no hook waits for a marker    *)
(* job that neither succeeds nor spends its restarts.                      *)
(***************************************************************************)
OperationsEnd == phase # "idle" ~> phase = "idle"

-----------------------------------------------------------------------------

(***************************************************************************)
(* "This effectively prevents enabling Matrix Authentication Service until *)
(* Synapse 2 Matrix Authentication Service has been run"                   *)
(* (deployment-markers/_helpers.tpl:47-48).                                *)
(***************************************************************************)
NoMasBeforeSyn2Mas ==
  [][auth = "legacy" /\ auth' = "delegated" => "synapse" \notin accounts]_vars

(***************************************************************************)
(* The marker will "Prevent downgrading from syn2mas_migrated /            *)
(* delegated_auth back to legacy_auth" (docs/syn2mas.md:110-112).          *)
(***************************************************************************)
NoDowngrade ==
  [][Marker' = "legacy_auth" => Marker \in {Unset, "legacy_auth"}]_vars

(***************************************************************************)
(* "Once the system is in the delegated_auth state, it cannot be rolled    *)
(* back to legacy_auth" (docs/syn2mas.md:27).                              *)
(***************************************************************************)
MigrationIsFinal ==
  [][Marker = "delegated_auth" /\ auth = "delegated" => auth' # "legacy"]_vars
=============================================================================
