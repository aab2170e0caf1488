------------------------ MODULE PasswordChangeProofs ------------------------
(***************************************************************************)
(* For any number of revisions, files and objects, and any bounds: nothing *)
(* starts with an incomplete configuration, and a pod of the current       *)
(* revision runs that revision only.                                       *)
(***************************************************************************)
EXTENDS PasswordChange, TLAPS

(***************************************************************************)
(* Revisions only grow, and Helm applies the template after the objects: a *)
(* pod of revision r mounts r or later.                                    *)
(***************************************************************************)
AppliedInOrder ==
  /\ template <= release
  /\ pod <= template
  /\ \A s \in Sources : template <= stored[s] /\ stored[s] <= release
  /\ pod # 0 => \A s \in Sources : pod <= volume[s] /\ volume[s] <= stored[s]

(***************************************************************************)
(* So it reads, and renders, what is of r or later.                        *)
(***************************************************************************)
Since(contents) ==
  \A f \in Files : contents[f] # 0 => pod <= contents[f] /\ contents[f] <= release

Progressed ==
  /\ phase = "none" <=> pod = 0
  /\ phase = "write" => exists /\ AllRead
  /\ pod = 0 => read = Nothing
  /\ pod # 0 => Since(read) /\ Since(conf)

IInv == TypeOK /\ AppliedInOrder /\ Progressed /\ StartsComplete

-----------------------------------------------------------------------------

LEMMA NothingIsTyped == Nothing \in [Files -> Revisions] /\ \A f \in Files : Nothing[f] = 0
  BY PodAssumption DEF Nothing, Revisions

LEMMA InitInv == Init => IInv
<1> SUFFICES ASSUME Init PROVE IInv
  OBVIOUS
<1> USE DEF Init, PodInit
<1>1. TypeOK
  <2>1. 0 \in Revisions /\ [s \in Sources |-> 0] \in [Sources -> Revisions]
    BY PodAssumption DEF Revisions
  <2>2. 0 \in 0..MaxKills /\ 0 \in 0..MaxOutages
    BY PodAssumption, PasswordAssumption
  <2>3. PodTypeOK
    BY <2>1, <2>2, NothingIsTyped DEF PodTypeOK, Phases
  <2> QED BY <2>1, <2>2, <2>3 DEF TypeOK
<1>2. AppliedInOrder
  BY DEF AppliedInOrder
<1>3. Progressed /\ StartsComplete
  BY DEF Progressed, StartsComplete
<1> QED BY <1>1, <1>2, <1>3 DEF IInv

(***************************************************************************)
(* Helm: only the order of revisions can be disturbed.                     *)
(***************************************************************************)
LEMMA HelmKeepsInv == IInv /\ PodMoves(HelmStep) => IInv'
<1> SUFFICES ASSUME IInv, PodMoves(HelmStep) PROVE IInv'
  OBVIOUS
<1> USE DEF PodMoves, HelmStep, Upgrade, ApplyTemplate, ApplyObject, podVars, postgresVars
<1>1. TypeOK'
  BY PodAssumption DEF IInv, TypeOK, PodTypeOK, Revisions
<1>2. AppliedInOrder'
  BY PodAssumption DEF IInv, TypeOK, PodTypeOK, Revisions, AppliedInOrder
<1>3. Progressed'
  BY PodAssumption DEF IInv, TypeOK, PodTypeOK, Revisions, Progressed, Since, AllRead
<1>4. StartsComplete'
  BY DEF IInv, StartsComplete
<1> QED BY <1>1, <1>2, <1>3, <1>4 DEF IInv

(***************************************************************************)
(* The steps that change the pod or its volumes: a new pod mounts what is  *)
(* stored, and starts with nothing read and nothing rendered.              *)
(***************************************************************************)
LEMMA ControllerKeepsInv == IInv /\ PodMoves(ControllerStep) => IInv'
<1> SUFFICES ASSUME IInv, PodMoves(ControllerStep) PROVE IInv'
  OBVIOUS
<1> USE PodAssumption, NothingIsTyped DEF PodMoves, ControllerStep, helmVars, postgresVars
<1>1. CASE DeletePod
  <2>1. TypeOK' /\ AppliedInOrder'
    BY <1>1 DEF DeletePod, IInv, TypeOK, PodTypeOK, Revisions, Phases, AppliedInOrder
  <2>2. Progressed' /\ StartsComplete'
    BY <1>1 DEF DeletePod, IInv, Progressed, StartsComplete
  <2> QED BY <2>1, <2>2 DEF IInv
<1>2. CASE CreatePod
  <2>1. TypeOK'
    BY <1>2 DEF CreatePod, IInv, TypeOK, PodTypeOK, Phases
  <2>2. AppliedInOrder'
    BY <1>2 DEF CreatePod, IInv, TypeOK, PodTypeOK, Revisions, AppliedInOrder
  <2>3. Progressed' /\ StartsComplete'
    BY <1>2 DEF CreatePod, IInv, Progressed, Since, StartsComplete
  <2> QED BY <2>1, <2>2, <2>3 DEF IInv
<1> QED BY <1>1, <1>2

LEMMA VolumesKeepInv == ASSUME IInv, NEW s \in Sources, PodMoves(SyncVolume(s)) PROVE IInv'
<1> USE PodAssumption DEF PodMoves, SyncVolume, helmVars, postgresVars
<1>1. TypeOK' /\ AppliedInOrder'
  BY DEF IInv, TypeOK, PodTypeOK, Revisions, AppliedInOrder
<1>2. Progressed' /\ StartsComplete'
  BY DEF IInv, Progressed, Since, AllRead, StartsComplete
<1> QED BY <1>1, <1>2 DEF IInv

(***************************************************************************)
(* The containers of the pod.                                              *)
(***************************************************************************)
LEMMA ContainersKeepInv == IInv /\ PodMoves(ContainerStep) => IInv'
<1> SUFFICES ASSUME IInv, PodMoves(ContainerStep) PROVE IInv'
  OBVIOUS
<1> USE PodAssumption, NothingIsTyped DEF PodMoves, helmVars, postgresVars
<1>1. CASE RemoveOutput
  <2>1. TypeOK' /\ AppliedInOrder'
    BY <1>1 DEF RemoveOutput, IInv, TypeOK, PodTypeOK, Phases, AppliedInOrder
  <2>2. Progressed' /\ StartsComplete'
    BY <1>1 DEF RemoveOutput, IInv, Progressed, Since, StartsComplete
  <2> QED BY <2>1, <2>2 DEF IInv
<1>2. ASSUME NEW f \in Files, OpenFile(f) PROVE IInv'
  <2>1. SourceOf[f] \in Sources /\ pod # 0
    BY <1>2 DEF OpenFile, IInv, Progressed
  <2>2. TypeOK' /\ AppliedInOrder'
    BY <1>2, <2>1 DEF OpenFile, IInv, TypeOK, PodTypeOK, AppliedInOrder
  <2>3. pod <= volume[SourceOf[f]] /\ volume[SourceOf[f]] <= release
    BY <2>1 DEF IInv, TypeOK, PodTypeOK, Revisions, AppliedInOrder
  <2>4. Since(read)'
    BY <1>2, <2>1, <2>3 DEF OpenFile, IInv, TypeOK, PodTypeOK, Progressed, Since
  <2>5. Progressed' /\ StartsComplete'
    BY <1>2, <2>1, <2>4 DEF OpenFile, IInv, Progressed, Since, StartsComplete
  <2> QED BY <2>2, <2>5 DEF IInv
<1>3. CASE RenderFails
  <2>1. TypeOK' /\ AppliedInOrder'
    BY <1>3 DEF RenderFails, IInv, TypeOK, PodTypeOK, Phases, AppliedInOrder
  <2>2. Progressed' /\ StartsComplete'
    BY <1>3 DEF RenderFails, IInv, Progressed, Since, StartsComplete
  <2> QED BY <2>1, <2>2 DEF IInv
<1>4. CASE CreateOutput
  <2>1. TypeOK' /\ AppliedInOrder'
    BY <1>4 DEF CreateOutput, IInv, TypeOK, PodTypeOK, Phases, AppliedInOrder
  <2>2. Progressed' /\ StartsComplete'
    BY <1>4 DEF CreateOutput, IInv, Progressed, Since, AllRead, StartsComplete
  <2> QED BY <2>1, <2>2 DEF IInv
<1>5. CASE WriteOutput
  <2>1. TypeOK' /\ AppliedInOrder'
    BY <1>5 DEF WriteOutput, IInv, TypeOK, PodTypeOK, Phases, AppliedInOrder
  <2>2. Progressed' /\ StartsComplete'
    BY <1>5 DEF WriteOutput, IInv, Progressed, Since, AllRead, StartsComplete
  <2> QED BY <2>1, <2>2 DEF IInv
<1>6. CASE Connect
  <2>1. TypeOK' /\ AppliedInOrder'
    BY <1>6 DEF Connect, IInv, TypeOK, PodTypeOK, Phases, AppliedInOrder
  <2>2. Progressed' /\ StartsComplete'
    BY <1>6 DEF Connect, IInv, Progressed, Since, StartsComplete
  <2> QED BY <2>1, <2>2 DEF IInv
<1> QED BY <1>1, <1>2, <1>3, <1>4, <1>5, <1>6 DEF ContainerStep

LEMMA DisturbKeepsInv == IInv /\ PodMoves(Disturb) => IInv'
<1> SUFFICES ASSUME IInv, PodMoves(Disturb) PROVE IInv'
  OBVIOUS
<1> USE PodAssumption, NothingIsTyped DEF PodMoves, Disturb, helmVars, postgresVars
<1>1. kills' \in 0..MaxKills /\ serving' \in BOOLEAN
  BY DEF IInv, TypeOK, PodTypeOK
<1>2. exists' \in BOOLEAN /\ conf' \in [Files -> Revisions]
  BY DEF IInv, TypeOK, PodTypeOK
<1>3. TypeOK'
  BY <1>1, <1>2 DEF IInv, TypeOK, PodTypeOK, Phases
<1>4. AppliedInOrder'
  BY DEF IInv, AppliedInOrder
<1>5. Progressed' /\ StartsComplete'
  BY DEF IInv, Progressed, Since, StartsComplete
<1> QED BY <1>3, <1>4, <1>5 DEF IInv

(***************************************************************************)
(* Postgres, its sidecar and the login touch neither Helm nor the pod.     *)
(***************************************************************************)
LEMMA PostgresKeepsInv == IInv /\ (PostgresStep \/ RestartUpdater \/ Outage \/ Login) => IInv'
<1> SUFFICES ASSUME IInv, PostgresStep \/ RestartUpdater \/ Outage \/ Login PROVE IInv'
  OBVIOUS
<1>1. Mounted \subseteq Revisions
  BY PodAssumption, PasswordAssumption DEF Mounted, IInv, TypeOK, PodTypeOK, Revisions
<1>2. UNCHANGED <<helmVars, podVars>>
  BY DEF PostgresStep, DeletePostgres, CreatePostgres, PostgresUp, UpdaterReady, Configure,
         ConfigureFails, RestartUpdater, Outage, Login
<1>3. PodTypeOK'
  <2>1. database' \in BOOLEAN
    BY DEF IInv, TypeOK, PodTypeOK, PostgresStep, DeletePostgres, CreatePostgres, PostgresUp,
           UpdaterReady, Configure, ConfigureFails, RestartUpdater, Outage, Login, postgresVars
  <2> QED BY <1>2, <2>1 DEF IInv, TypeOK, PodTypeOK, helmVars, podVars
<1>4. role' \in Revisions
  BY <1>1 DEF IInv, TypeOK, PostgresStep, DeletePostgres, CreatePostgres, PostgresUp,
              UpdaterReady, Configure, ConfigureFails, RestartUpdater, Outage, Login, postgresVars
<1>5. TypeOK'
  <2>1. postgres' \in Revisions
    <3>1. 0 \in Revisions
      BY PodAssumption DEF Revisions
    <3>2. postgres' \in {0, template, postgres}
      BY DEF PostgresStep, DeletePostgres, CreatePostgres, PostgresUp, UpdaterReady, Configure,
             ConfigureFails, RestartUpdater, Outage, Login, postgresVars
    <3> QED BY <3>1, <3>2 DEF IInv, TypeOK, PodTypeOK
  <2>2. updater' \in {"none", "waiting", "running", "done", "failed"}
    BY DEF IInv, TypeOK, PostgresStep, DeletePostgres, CreatePostgres, PostgresUp,
           UpdaterReady, Configure, ConfigureFails, RestartUpdater, Outage, Login, postgresVars
  <2>3. serving' \in BOOLEAN
    BY Zenon DEF IInv, TypeOK, PostgresStep, DeletePostgres, CreatePostgres, PostgresUp,
           UpdaterReady, Configure, ConfigureFails, RestartUpdater, Outage, Login
  <2>4. outages' \in 0..MaxOutages
    BY PasswordAssumption
    DEF IInv, TypeOK, PostgresStep, DeletePostgres, CreatePostgres, PostgresUp,
        UpdaterReady, Configure, ConfigureFails, RestartUpdater, Outage, Login, postgresVars
  <2> QED BY <1>3, <1>4, <2>1, <2>2, <2>3, <2>4 DEF TypeOK
<1>6. AppliedInOrder' /\ Progressed' /\ StartsComplete'
  BY <1>2 DEF helmVars, podVars, IInv, AppliedInOrder, Progressed, Since, AllRead, StartsComplete
<1> QED BY <1>5, <1>6 DEF IInv

LEMMA StutteringKeepsInv == IInv /\ UNCHANGED vars => IInv'
  BY DEF vars, helmVars, podVars, postgresVars, IInv, TypeOK, PodTypeOK, AppliedInOrder,
         Progressed, Since, AllRead, StartsComplete

LEMMA NextKeepsInv == IInv /\ [Next]_vars => IInv'
  BY HelmKeepsInv, ControllerKeepsInv, VolumesKeepInv, ContainersKeepInv, DisturbKeepsInv,
     PostgresKeepsInv, StutteringKeepsInv DEF Next, Terminating

-----------------------------------------------------------------------------

(***************************************************************************)
(* The inductive invariant of the pod and of the Postgres beside it.       *)
(***************************************************************************)
THEOREM RevisionsInOrder == Spec => []IInv
  BY InitInv, NextKeepsInv, PTL DEF Spec

(***************************************************************************)
(* Type correctness (TypeOK).                                              *)
(***************************************************************************)
THEOREM PodsTypeCorrect == Spec => []TypeOK
<1>1. IInv => TypeOK
  BY DEF IInv
<1> QED BY <1>1, RevisionsInOrder, PTL

(***************************************************************************)
(* Nothing starts with a configuration that render-config wrote in part.   *)
(***************************************************************************)
THEOREM NeverPartial == Spec => []StartsComplete
<1>1. IInv => StartsComplete
  BY DEF IInv
<1> QED BY <1>1, RevisionsInOrder, PTL

(***************************************************************************)
(* A pod of the current revision runs files of that revision only: what it *)
(* rendered is not earlier than the pod and not later than the release.    *)
(***************************************************************************)
THEOREM OneRevision == Spec => []Unmixed
<1>1. ASSUME IInv PROVE Unmixed
  <2> SUFFICES ASSUME pod = release, phase \in {"wait", "main"}, NEW f \in Files
               PROVE  conf[f] = release
    BY DEF Unmixed
  <2>1. pod # 0 /\ conf[f] # 0
    BY <1>1 DEF IInv, Progressed, StartsComplete
  <2>2. pod <= conf[f] /\ conf[f] <= release
    BY <1>1, <2>1 DEF IInv, Progressed, Since
  <2> QED BY <1>1, <2>2 DEF IInv, TypeOK, PodTypeOK, Revisions
<1> QED BY <1>1, RevisionsInOrder, PTL
=============================================================================
