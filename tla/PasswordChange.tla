--------------------------- MODULE PasswordChange ---------------------------
(***************************************************************************)
(* The Postgres of the chart beside a pod that uses it, while revisions    *)
(* change the password of its role. The role keeps its password until the  *)
(* sidecar of a new Postgres pod, postgres-ess-updater, runs configure-dbs *)
(* once; the pod that uses the database meanwhile starts with the new one. *)
(***************************************************************************)
EXTENDS PodStart

CONSTANTS PasswordFile,  \* the file the password is read from
          MaxOutages     \* bound on how often Postgres is restarted in place

ASSUME PasswordAssumption ==
  /\ PasswordFile \in Files
  /\ MaxOutages \in Nat

VARIABLES postgres,  \* the revision the Postgres pod was made from
          updater,   \* what the sidecar does
          role,      \* the password of the role
          serving,   \* has main connected with its password?
          outages

postgresVars == <<database, postgres, updater, role, outages>>

vars == <<helmVars, podVars, postgresVars, serving>>

TypeOK ==
  /\ PodTypeOK
  /\ postgres \in Revisions
  /\ updater \in {"none", "waiting", "running", "done", "failed"}
  /\ role \in Revisions
  /\ serving \in BOOLEAN
  /\ outages \in 0..MaxOutages

-----------------------------------------------------------------------------

(***************************************************************************)
(* The passwords a Postgres pod may find in the Secret it has mounted.     *)
(***************************************************************************)
Mounted == postgres..stored[SourceOf[PasswordFile]]

(***************************************************************************)
(* The pod template of Postgres has the hashes of its Secret and ConfigMap *)
(* too. Its StatefulSet replaces a pod that is ready (OrderedReady).       *)
(***************************************************************************)
DeletePostgres ==
  /\ postgres # 0
  /\ postgres # template
  /\ database
  /\ postgres' = 0
  /\ updater' = "none"
  /\ database' = FALSE
  /\ serving' = FALSE
  /\ UNCHANGED <<helmVars, podVars, role, outages>>

CreatePostgres ==
  /\ postgres = 0
  /\ template # 0
  /\ postgres' = template
  /\ updater' = "waiting"
  /\ UNCHANGED <<helmVars, podVars, database, role, serving, outages>>

(***************************************************************************)
(* Postgres comes up, on its first start only after the entrypoint has run *)
(* the script that creates the role.                                       *)
(***************************************************************************)
PostgresUp ==
  /\ postgres # 0
  /\ ~database
  /\ database' = TRUE
  /\ IF role = 0 THEN role' \in Mounted ELSE UNCHANGED role
  /\ UNCHANGED <<helmVars, podVars, postgres, updater, serving, outages>>

Outage ==
  /\ database
  /\ outages < MaxOutages
  /\ outages' = outages + 1
  /\ database' = FALSE
  /\ serving' = FALSE
  /\ UNCHANGED <<helmVars, podVars, postgres, updater, role>>

(***************************************************************************)
(* The sidecar waits until Postgres is ready and runs the script. Then it  *)
(* prints "Done" and sleeps, however the script ended.                     *)
(***************************************************************************)
UpdaterReady ==
  /\ updater = "waiting"
  /\ database
  /\ updater' = "running"
  /\ UNCHANGED <<helmVars, podVars, database, postgres, role, serving, outages>>

RoleKept ==  \* mutant of Configure: CREATE ROLE only if there is no such role
  /\ updater = "running"
  /\ database
  /\ updater' = "done"
  /\ UNCHANGED <<helmVars, podVars, database, postgres, role, serving, outages>>

Configure ==
  /\ updater = "running"
  /\ database
  /\ role' \in Mounted
  /\ updater' = "done"
  /\ UNCHANGED <<helmVars, podVars, database, postgres, serving, outages>>

ContainerEnds ==  \* mutant of ConfigureFails: the sidecar ends with its script
  /\ updater = "running"
  /\ ~database
  /\ updater' = "ended"
  /\ UNCHANGED <<helmVars, podVars, database, postgres, role, serving, outages>>

ConfigureFails ==
  /\ updater = "running"
  /\ ~database
  /\ updater' = "failed"
  /\ UNCHANGED <<helmVars, podVars, database, postgres, role, serving, outages>>

(***************************************************************************)
(* Its probes ask Postgres too: while Postgres is down for long the        *)
(* container is restarted, and its script will run again.                  *)
(***************************************************************************)
RestartUpdater ==
  /\ updater \in {"running", "done", "failed"}
  /\ ~database
  /\ updater' = "waiting"
  /\ UNCHANGED <<helmVars, podVars, database, postgres, role, serving, outages>>

PostgresStep ==
  \/ DeletePostgres \/ CreatePostgres \/ PostgresUp
  \/ UpdaterReady \/ Configure \/ ConfigureFails

(***************************************************************************)
(* Main connects; with another password than that of the role it ends, and *)
(* is restarted, until they agree. Open connections survive a change.      *)
(***************************************************************************)
Login ==
  /\ phase = "main"
  /\ ~serving
  /\ database
  /\ conf[PasswordFile] = role
  /\ serving' = TRUE
  /\ UNCHANGED <<helmVars, podVars, postgresVars>>

PodMoves(A) == A /\ serving' = (serving /\ phase' = "main") /\ UNCHANGED postgresVars

Terminating ==
  /\ release = MaxRevision
  /\ Current
  /\ serving \/ updater = "failed"
  /\ UNCHANGED vars

Init ==
  /\ PodInit
  /\ database = FALSE
  /\ postgres = 0
  /\ updater = "none"
  /\ role = 0
  /\ serving = FALSE
  /\ outages = 0

Next ==
  \/ PodMoves(HelmStep)
  \/ PodMoves(ControllerStep)
  \/ PodMoves(ContainerStep)
  \/ \E s \in Sources : PodMoves(SyncVolume(s))
  \/ PodMoves(Disturb)
  \/ PostgresStep \/ RestartUpdater \/ Outage \/ Login \/ Terminating

Spec == Init /\ [][Next]_vars

(***************************************************************************)
(* The controllers, the kubelet and the containers go on. Helm need not.   *)
(***************************************************************************)
Fairness ==
  /\ WF_vars(PodMoves(ControllerStep))
  /\ WF_vars(PodMoves(ContainerStep))
  /\ \A s \in Sources : WF_vars(PodMoves(SyncVolume(s)))
  /\ WF_vars(PostgresStep)
  /\ WF_vars(Login)

FairSpec == Spec /\ Fairness

-----------------------------------------------------------------------------

(***************************************************************************)
(* A change of password does not leave the pod outside for good, in        *)
(* whatever order the two pods are replaced and their passwords read. The  *)
(* exception is the sidecar whose script failed and which is not restarted *)
(* before Postgres is up again: it does not try a second time.             *)
(***************************************************************************)
EventuallyServing == <>[](Applied /\ updater # "failed") => <>[]serving
=============================================================================
