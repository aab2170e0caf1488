------------------------------ MODULE PodStart ------------------------------
(***************************************************************************)
(* How a pod of Synapse (or of Matrix Authentication Service) starts while *)
(* Helm applies revisions of the release: the init container renders the   *)
(* configuration from the mounted ConfigMap and Secrets into an emptyDir,  *)
(* a second one waits for the database, then the main container runs with  *)
(* what was rendered.                                                      *)
(*                                                                         *)
(* Contents are the numbers of the revisions they are from, 0 for nothing. *)
(* Each revision changes every ConfigMap and Secret of the chart; hashes   *)
(* of all of them are labels of the pod template, so it changes as well.   *)
(* The files are in the order in which they are read, first those that are *)
(* arguments, then those a variable names (readfile). Several come from    *)
(* one volume, which the kubelet may update while they are being opened.   *)
(***************************************************************************)
EXTENDS Naturals

CONSTANTS Sources,      \* the ConfigMap and the Secrets the pod mounts
          NFiles,       \* how many files are read
          SourceOf,     \* the object each file is in
          MaxRevision,  \* bound on the revisions of the release
          Broken,       \* the revisions that cannot be rendered
          MaxKills      \* bound on killed containers and lost sandboxes

Files == 1..NFiles

Revisions == 0..MaxRevision

ASSUME PodAssumption ==
  /\ NFiles \in Nat \ {0}
  /\ SourceOf \in [Files -> Sources]
  /\ MaxRevision \in Nat \ {0}
  /\ MaxKills \in Nat

VARIABLES release,   \* the revision Helm applies, or applied last
          stored,    \* the revision of each object
          template,  \* the revision of the pod template
          pod,       \* the revision the pod was made from
          volume,    \* the revision of each object as mounted
          phase,     \* how far the pod is
          read,      \* what was read of each file
          exists,    \* is there an output file?
          conf,      \* what it was rendered from; nothing if it is not complete
          database,  \* does the database accept connections?
          kills      \* how often the pod was disturbed

helmVars == <<release, stored, template>>

podVars == <<pod, volume, phase, read, exists, conf, kills>>

Phases == {"none", "remove", "open", "write", "wait", "main"}

Nothing == [f \in Files |-> 0]

PodTypeOK ==
  /\ release \in Revisions
  /\ stored \in [Sources -> Revisions]
  /\ template \in Revisions
  /\ pod \in Revisions
  /\ volume \in [Sources -> Revisions]
  /\ phase \in Phases
  /\ read \in [Files -> Revisions]
  /\ exists \in BOOLEAN
  /\ conf \in [Files -> Revisions]
  /\ database \in BOOLEAN
  /\ kills \in 0..MaxKills

-----------------------------------------------------------------------------

(***************************************************************************)
(* Helm starts the next operation, possibly because the one before failed  *)
(* half way, and applies ConfigMaps and Secrets before workloads.          *)
(***************************************************************************)
Upgrade ==
  /\ release < MaxRevision
  /\ release' = release + 1
  /\ UNCHANGED <<stored, template, podVars>>

ApplyObject(s) ==
  /\ stored[s] < release
  /\ stored' = [stored EXCEPT ![s] = release]
  /\ UNCHANGED <<release, template, podVars>>

ApplyTemplateFirst ==  \* mutant: workloads before ConfigMaps and Secrets
  /\ template < release
  /\ template' = release
  /\ UNCHANGED <<release, stored, podVars>>

ApplyTemplate ==
  /\ template < release
  /\ \A s \in Sources : stored[s] = release
  /\ template' = release
  /\ UNCHANGED <<release, stored, podVars>>

HelmStep == Upgrade \/ ApplyTemplate \/ \E s \in Sources : ApplyObject(s)

-----------------------------------------------------------------------------

(***************************************************************************)
(* The StatefulSet replaces a pod of another template, whatever its state  *)
(* (podManagementPolicy Parallel). The volumes of a new pod are mounted    *)
(* as the objects are then, and its emptyDir is empty.                     *)
(***************************************************************************)
OrderedReady ==  \* mutant of DeletePod: the default podManagementPolicy
  /\ pod # 0
  /\ pod # template
  /\ phase = "main"
  /\ pod' = 0
  /\ phase' = "none"
  /\ read' = Nothing
  /\ UNCHANGED <<helmVars, volume, exists, conf, kills>>

DeletePod ==
  /\ pod # 0
  /\ pod # template
  /\ pod' = 0
  /\ phase' = "none"
  /\ read' = Nothing
  /\ UNCHANGED <<helmVars, volume, exists, conf, kills>>

CreatePod ==
  /\ pod = 0
  /\ template # 0
  /\ pod' = template
  /\ volume' = stored
  /\ phase' = "remove"
  /\ exists' = FALSE
  /\ conf' = Nothing
  /\ UNCHANGED <<helmVars, read, kills>>

(***************************************************************************)
(* The kubelet brings a mounted object up to date.                         *)
(***************************************************************************)
SyncVolume(s) ==
  /\ pod # 0
  /\ volume[s] # stored[s]
  /\ volume' = [volume EXCEPT ![s] = stored[s]]
  /\ UNCHANGED <<helmVars, pod, phase, read, exists, conf, kills>>

(***************************************************************************)
(* render-config: an output that exists is removed, every file is opened,  *)
(* and only if all of them can be merged the output is written. It is made *)
(* with mode 0440: what exists already cannot be opened for writing.       *)
(***************************************************************************)
KeepOutput ==  \* mutant of RemoveOutput: nothing to do if there is an output
  /\ phase = "remove"
  /\ phase' = IF exists THEN "wait" ELSE "open"
  /\ UNCHANGED <<helmVars, pod, volume, read, exists, conf, kills>>

RemoveOutput ==
  /\ phase = "remove"
  /\ exists' = FALSE
  /\ conf' = Nothing
  /\ phase' = "open"
  /\ UNCHANGED <<helmVars, pod, volume, read, kills>>

OpenFile(f) ==
  /\ phase = "open"
  /\ read[f] = 0
  /\ \A g \in Files : g < f => read[g] # 0
  /\ read' = [read EXCEPT ![f] = volume[SourceOf[f]]]
  /\ UNCHANGED <<helmVars, pod, volume, phase, exists, conf, kills>>

Renderable == pod \notin Broken /\ \A f \in Files : read[f] \notin Broken

AllRead == \A f \in Files : read[f] # 0

RenderFails ==
  /\ phase = "open"
  /\ AllRead
  /\ ~Renderable
  /\ phase' = "remove"
  /\ read' = Nothing
  /\ UNCHANGED <<helmVars, pod, volume, exists, conf, kills>>

CreateOutput ==
  /\ phase = "open"
  /\ AllRead
  /\ Renderable
  /\ ~exists
  /\ exists' = TRUE
  /\ phase' = "write"
  /\ UNCHANGED <<helmVars, pod, volume, read, conf, kills>>

WriteOutput ==
  /\ phase = "write"
  /\ conf' = read
  /\ read' = Nothing
  /\ phase' = "wait"
  /\ UNCHANGED <<helmVars, pod, volume, exists, kills>>

(***************************************************************************)
(* tcpwait returns once a connection is accepted; then main is started.    *)
(***************************************************************************)
Connect ==
  /\ phase = "wait"
  /\ database
  /\ phase' = "main"
  /\ UNCHANGED <<helmVars, pod, volume, read, exists, conf, kills>>

(***************************************************************************)
(* The init container is killed, or the sandbox is lost and the pod starts *)
(* over. The emptyDir survives unless the node was started anew.           *)
(***************************************************************************)
Disturb ==
  /\ phase \in {"open", "write", "wait", "main"}
  /\ kills < MaxKills
  /\ kills' = kills + 1
  /\ phase' = "remove"
  /\ read' = Nothing
  /\ \/ UNCHANGED <<exists, conf>>
     \/ exists' = FALSE /\ conf' = Nothing
  /\ UNCHANGED <<helmVars, pod, volume>>

ControllerStep == DeletePod \/ CreatePod

ContainerStep ==
  \/ RemoveOutput \/ (\E f \in Files : OpenFile(f)) \/ RenderFails
  \/ CreateOutput \/ WriteOutput \/ Connect

PodInit ==
  /\ release = 0
  /\ stored = [s \in Sources |-> 0]
  /\ template = 0
  /\ pod = 0
  /\ volume = [s \in Sources |-> 0]
  /\ phase = "none"
  /\ read = Nothing
  /\ exists = FALSE
  /\ conf = Nothing
  /\ kills = 0

-----------------------------------------------------------------------------

(***************************************************************************)
(* Nothing starts with a configuration that was written in part, although  *)
(* the output is written in place and a killed container leaves it.        *)
(***************************************************************************)
StartsComplete == phase \in {"wait", "main"} => exists /\ \A f \in Files : conf[f] # 0

(***************************************************************************)
(* A pod of the current revision has a configuration of that revision. A   *)
(* pod of an earlier one that is started again in the middle of an upgrade *)
(* may well mix files of several revisions.                                *)
(***************************************************************************)
Unmixed ==
  pod = release /\ phase \in {"wait", "main"} => \A f \in Files : conf[f] = release

(***************************************************************************)
(* Once a revision that can be rendered is applied it is what runs in the  *)
(* end, also if the pods of the one before never got that far: "Without    *)
(* this CrashLoopBackoffs due to config failures block pod recreation"     *)
(* (_workloads.tpl:41).                                                    *)
(***************************************************************************)
Applied == template = release /\ release \notin Broken \cup {0}

Current == phase = "main" /\ \A f \in Files : conf[f] = release

EventuallyCurrent == <>[]Applied => <>[]Current
=============================================================================
