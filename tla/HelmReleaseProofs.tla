-------------------------- MODULE HelmReleaseProofs --------------------------
(***************************************************************************)
(* For any number of operations, in any modes, whichever of them fail: the *)
(* marker jobs of a release run as DeploymentMarkers lets them; a deployed *)
(* release strands no account and has a truthful marker; and as long as    *)
(* Helm does not give up on a marker job, the migration is not run twice   *)
(* and the marker only moves forward.                                      *)
(***************************************************************************)
EXTENDS HelmRelease, DeploymentMarkersProofs

(***************************************************************************)
(* Operations are started one after the other.                             *)
(***************************************************************************)
InTurn ==
  /\ \A o \in Operations : mode[o] = "none" <=> o > op
  /\ phase # "idle" => op \in Operations

PostNotYet == phase \notin {"idle", "post"} => pc[<<op, "post">>] = "absent"

(***************************************************************************)
(* Nobody but the current operation can record a value. That is so if Helm *)
(* never gives up on a job, and otherwise until it shows in tainted.       *)
(***************************************************************************)
Trusted == ~tainted \/ ~Timeouts

NoOtherPost == \A o \in Operations : o # op => Finished(<<o, "post">>)

Alone ==
  /\ Trusted /\ phase # "idle" => NoOtherPost
  /\ ~Timeouts /\ phase = "idle" => ~PostAtWork

(***************************************************************************)
(* So what the pre step has checked still holds until the post step of the *)
(* same operation has recorded its value.                                  *)
(***************************************************************************)
MayStart == Marker \in AllowedValues[mode[op]] \cup {Unset}

MidPhases == {"initSecrets", "hooks", "apply", "wait", "dryRun"}

Checked ==
  Trusted =>
    /\ phase = "pre" /\ Succeeded(<<op, "pre">>) => MayStart
    /\ phase \in MidPhases => MayStart
    /\ phase = "post" => MayStart \/ Marker = NewValue[mode[op]]
    /\ phase = "post" /\ Succeeded(<<op, "post">>) => Marker = NewValue[mode[op]]

HooksLeft ==
  /\ phase \in {"pre", "initSecrets"} => hooks = PreHooks(mode[op])
  /\ phase = "hooks" /\ "syn2mas" \in hooks => mode[op] = "migrate"
  /\ phase \in {"apply", "wait", "dryRun", "post"} => hooks = {}

(***************************************************************************)
(* What the check says of the marker is, in an operation that began with a *)
(* truthful one, also so of the accounts.                                  *)
(***************************************************************************)
Fitting ==
  /\ mode[op] # "delegated" => auth # "delegated"
  /\ mode[op] = "delegated" => auth # "legacy"
  /\ MigratedNotRolledOut => "synapse" \notin accounts

NotStranded ==
  ~tainted =>
    /\ auth = "none" => accounts = {}
    /\ Reachable
    /\ phase = "pre" => Truthful
    /\ phase \in {"initSecrets", "hooks", "apply"} => Fitting
    /\ phase \in {"wait", "dryRun", "post"} => auth = AuthOf(mode[op])

Settled ==
  ~tainted /\ status = "deployed" /\ phase = "idle" => ~PostAtWork /\ Truthful

HelmInv ==
  InTurn /\ PostNotYet /\ Alone /\ Checked /\ HooksLeft /\ NotStranded /\ Settled

IInv == ReleaseTypeOK /\ MarkersInv /\ HelmInv

-----------------------------------------------------------------------------

(***************************************************************************)
(* Every step of a release is a step of the marker jobs, or leaves them as *)
(* they are.                                                               *)
(***************************************************************************)
LEMMA StepOfMarkers ==
  ASSUME ReleaseTypeOK, InTurn, [Next]_vars
  PROVE  [MarkersNext]_markerVars
<1>1. ASSUME NEW m \in Modes, Start(m) PROVE MarkersNext
  BY <1>1 DEF Start, MarkersNext
<1>2. CASE LaunchMarkers
  <2>1. <<op, phase>> \in Pods
    BY <1>2 DEF LaunchMarkers, InTurn, Pods
  <2> QED BY <1>2, <2>1 DEF LaunchMarkers, MarkersNext
<1>3. ASSUME NEW p \in Pods, PodStep(p) PROVE MarkersNext
  BY <1>3 DEF MarkersNext
<1>4. ASSUME NEW o \in Operations, Rollback(o) PROVE UNCHANGED markerVars
  BY <1>4 DEF Rollback
<1>5. CASE (HelmStep /\ ~LaunchMarkers) \/ MarkersTimeOut \/ Register
  BY <1>5 DEF HelmStep, MarkersSucceed, MarkersFail, InitSecrets, CheckConfig, Syn2Mas, HooksDone,
              Apply, Ready, DryRun, OperationFails, MarkersTimeOut, Register
<1>6. CASE Terminating \/ UNCHANGED vars
  BY <1>6 DEF Terminating, vars, markerVars
<1> QED BY <1>1, <1>2, <1>3, <1>4, <1>5, <1>6 DEF Next

LEMMA MarkersInvKept ==
  ASSUME IInv, [Next]_vars
  PROVE  MarkersInv'
  BY StepOfMarkers, MarkersNextKeepsInv DEF IInv, HelmInv

LEMMA OpIsNumber ==
  ASSUME IInv
  PROVE  /\ op \in Nat
         /\ \A o \in Operations : o \in Nat
         /\ phase # "idle" => /\ op \in Operations
                              /\ mode[op] \in Modes
                              /\ <<op, "pre">> \in Pods
                              /\ <<op, "post">> \in Pods
  BY MarkersAssumption DEF IInv, ReleaseTypeOK, TypeOK, HelmInv, InTurn, Pods

LEMMA UnsetIsNoValue == Unset \notin {"legacy_auth", "syn2mas_migrated", "delegated_auth"}
  BY MarkersAssumption DEF MarkerValues

-----------------------------------------------------------------------------

(***************************************************************************)
(* helm upgrade: the operation starts with a truthful marker and alone, or *)
(* the release is tainted.                                                 *)
(***************************************************************************)
LEMMA StartKeepsInv ==
  ASSUME IInv, NEW m \in Modes, Start(m)
  PROVE  ReleaseTypeOK' /\ HelmInv'
<1> USE DEF IInv, HelmInv
<1>1. /\ op \in Nat /\ op' = op + 1 /\ op' \in Operations /\ phase' = "pre" /\ phase = "idle"
      /\ mode[op'] = "none" /\ mode' = [mode EXCEPT ![op'] = m]
      /\ UNCHANGED <<configMap, nextRv, pc, copy, runs, faults>>
  BY OpIsNumber DEF Start, Begin, podVars
<1>2. mode'[op'] = m /\ \A o \in Operations : o # op' => mode'[o] = mode[o]
  BY <1>1 DEF ReleaseTypeOK, TypeOK
<1>3. pc[<<op', "pre">>] = "absent" /\ pc[<<op', "post">>] = "absent"
  BY <1>1 DEF MarkersInv, StartedFirst, Pods
<1>4. ReleaseTypeOK'
  BY <1>1, <1>2 DEF Start, PreHooks, ReleaseTypeOK, TypeOK, Phases
<1>5. InTurn'
  BY <1>1, <1>2, MarkersAssumption DEF InTurn, Modes
<1>6. PostNotYet' /\ HooksLeft'
  BY <1>1, <1>2, <1>3 DEF Start, PostNotYet, HooksLeft
<1>7. Alone'
  <2>1. Trusted' => ~PostAtWork
    BY <1>1 DEF Start, Trusted, Alone
  <2> QED BY <1>1, <2>1 DEF Alone, NoOtherPost, PostAtWork, Finished, Succeeded, GaveUp
<1>8. Checked' /\ Settled'
  BY <1>1, <1>3 DEF Checked, Settled, Succeeded, MidPhases
<1>9. NotStranded'
  BY <1>1 DEF Start, NotStranded, Truthful, Reachable, Marker
<1> QED BY <1>4, <1>5, <1>6, <1>7, <1>8, <1>9

(***************************************************************************)
(* Helm creates the job of a marker step.                                  *)
(***************************************************************************)
LEMMA LaunchMarkersKeepsInv ==
  ASSUME IInv, LaunchMarkers
  PROVE  ReleaseTypeOK' /\ HelmInv'
<1> USE DEF IInv, HelmInv
<1> DEFINE p == <<op, phase>>
<1>1. /\ phase \in {"pre", "post"} /\ op \in Operations /\ p \in Pods
      /\ pc[p] = "absent" /\ pc' = [pc EXCEPT ![p] = "get"]
      /\ UNCHANGED <<mode, configMap, nextRv, copy, runs, faults>>
      /\ UNCHANGED helmVars
  BY OpIsNumber DEF LaunchMarkers, LaunchStep, Launch
<1>2. /\ pc'[p] = "get"
      /\ \A q \in Pods : q # p => pc'[q] = pc[q]
  BY <1>1 DEF ReleaseTypeOK, TypeOK
<1> HIDE DEF p
<1>3. ReleaseTypeOK'
  BY <1>1 DEF helmVars, ReleaseTypeOK, TypeOK, PodStates
<1>4. InTurn' /\ HooksLeft' /\ Settled'
  BY <1>1 DEF helmVars, InTurn, HooksLeft, Settled
<1>5. PostNotYet'
  <2>1. phase = "pre" => p # <<op, "post">>
    BY DEF p
  <2> QED BY <1>1, <1>2, <2>1, OpIsNumber DEF helmVars, PostNotYet
<1>6. Alone'
  <2>1. ASSUME NEW o \in Operations, o # op, Finished(<<o, "post">>)
        PROVE  Finished(<<o, "post">>)'
    <3>1. <<o, "post">> \in Pods /\ <<o, "post">> # p
      BY <2>1 DEF Pods, p
    <3> QED BY <1>1, <1>2, <2>1, <3>1 DEF Finished, Succeeded, GaveUp
  <2> QED BY <1>1, <2>1 DEF helmVars, Alone, Trusted, NoOtherPost
<1>7. Checked'
  <2>1. phase = "pre" => ~Succeeded(<<op, "pre">>)'
    BY <1>1, <1>2 DEF p, helmVars, Succeeded
  <2>2. phase = "post" => ~Succeeded(<<op, "post">>)'
    BY <1>1, <1>2 DEF p, helmVars, Succeeded
  <2> QED BY <1>1, <2>1, <2>2 DEF helmVars, Checked, Trusted, MayStart, Marker, MidPhases, Succeeded
<1>8. NotStranded'
  BY <1>1 DEF helmVars, NotStranded, Fitting, MigratedNotRolledOut, Truthful, Reachable, Marker
<1> QED BY <1>3, <1>4, <1>5, <1>6, <1>7, <1>8

-----------------------------------------------------------------------------

(***************************************************************************)
(* The steps of Helm that leave the marker jobs alone.                     *)
(***************************************************************************)
LEMMA TypesKept ==
  ASSUME ReleaseTypeOK, UNCHANGED <<markerVars, op>>,
         phase' \in Phases, hooks' \subseteq hooks,
         status' \in {"none", "deployed", "failed"},
         auth' \in {"none", "legacy", "delegated"},
         accounts' \subseteq {"synapse", "mas"}, tainted' \in BOOLEAN
  PROVE  ReleaseTypeOK'
  BY DEF ReleaseTypeOK, TypeOK, markerVars

(***************************************************************************)
(* The pre step has passed: the accounts are where the mode needs them.    *)
(***************************************************************************)
LEMMA CheckFits ==
  ASSUME IInv, phase = "pre", ~tainted, MayStart
  PROVE  /\ mode[op] # "delegated" => auth # "delegated"
         /\ mode[op] = "delegated" => auth # "legacy"
<1>1. Truthful /\ mode[op] \in Modes
  BY OpIsNumber DEF IInv, HelmInv, NotStranded
<1>2. mode[op] # "delegated" => Marker \in {"legacy_auth", Unset}
  BY <1>1 DEF MayStart, AllowedValues, Modes
<1>3. mode[op] = "delegated" => Marker \in {"syn2mas_migrated", "delegated_auth", Unset}
  BY DEF MayStart, AllowedValues
<1> QED BY <1>1, <1>2, <1>3, UnsetIsNoValue DEF Truthful

LEMMA PreSucceedsKeepsInv ==
  ASSUME IInv, MarkersSucceed, phase = "pre"
  PROVE  ReleaseTypeOK' /\ HelmInv'
<1> USE DEF IInv, HelmInv
<1>1. /\ Succeeded(<<op, "pre">>) /\ phase' = "initSecrets"
      /\ UNCHANGED <<markerVars, op, hooks, status, auth, accounts, tainted>>
  BY DEF MarkersSucceed, GoTo
<1>2. ReleaseTypeOK'
  BY <1>1, TypesKept DEF Phases, ReleaseTypeOK
<1>3. InTurn' /\ PostNotYet' /\ Alone' /\ HooksLeft' /\ Settled'
  BY <1>1 DEF markerVars, InTurn, PostNotYet, Alone, Trusted, NoOtherPost, Finished, Succeeded,
              GaveUp, HooksLeft, Settled
<1>4. Checked'
  BY <1>1 DEF markerVars, Checked, Trusted, MidPhases, MayStart, Marker
<1>5. NotStranded'
  <2>1. ~tainted => MayStart
    BY <1>1 DEF Checked, Trusted
  <2> QED BY <1>1, <2>1, CheckFits
          DEF markerVars, NotStranded, Reachable, Fitting, MigratedNotRolledOut
<1> QED BY <1>2, <1>3, <1>4, <1>5

(***************************************************************************)
(* The post step has recorded its value: the operation is deployed, and    *)
(* nobody is left to record another.                                       *)
(***************************************************************************)
LEMMA RecordedIsTruthful ==
  ASSUME IInv, phase = "post", ~tainted, Marker = NewValue[mode[op]]
  PROVE  Truthful
<1>1. mode[op] \in Modes /\ auth = AuthOf(mode[op]) /\ Reachable
  BY OpIsNumber DEF IInv, HelmInv, NotStranded
<1>2. CASE mode[op] \in {"legacy", "dryRun"}
  BY <1>1, <1>2 DEF AuthOf, NewValue, Truthful, Reachable
<1>3. CASE mode[op] \in {"migrate", "delegated"}
  BY <1>1, <1>3 DEF AuthOf, NewValue, Truthful
<1> QED BY <1>1, <1>2, <1>3 DEF Modes

LEMMA NobodyAtWork ==
  ASSUME IInv, phase # "idle", Trusted, Finished(<<op, "post">>)
  PROVE  ~PostAtWork
  BY DEF IInv, HelmInv, Alone, NoOtherPost, PostAtWork

LEMMA PostSucceedsKeepsInv ==
  ASSUME IInv, MarkersSucceed, phase = "post"
  PROVE  ReleaseTypeOK' /\ HelmInv'
<1> USE DEF IInv, HelmInv
<1>1. /\ Succeeded(<<op, "post">>) /\ phase' = "idle" /\ status' = "deployed" /\ hooks' = {}
      /\ UNCHANGED <<markerVars, op, auth, accounts, tainted>>
  BY DEF MarkersSucceed, EndAs
<1>2. ReleaseTypeOK'
  BY <1>1, TypesKept DEF Phases, ReleaseTypeOK
<1>3. InTurn' /\ PostNotYet' /\ HooksLeft' /\ Checked'
  BY <1>1 DEF markerVars, InTurn, PostNotYet, HooksLeft, Checked, MidPhases
<1>4. Trusted => ~PostAtWork
  BY <1>1, NobodyAtWork DEF Finished
<1>5. PostAtWork' = PostAtWork /\ Truthful' = Truthful
  BY <1>1 DEF markerVars, PostAtWork, Finished, Succeeded, GaveUp, Truthful, Marker
<1>6. Alone'
  BY <1>1, <1>4, <1>5 DEF Alone, Trusted
<1>7. NotStranded'
  BY <1>1 DEF NotStranded, Reachable
<1>8. Settled'
  <2>1. ~tainted => Truthful
    BY <1>1, RecordedIsTruthful DEF Checked, Trusted
  <2> QED BY <1>1, <1>4, <1>5, <2>1 DEF Settled, Trusted
<1> QED BY <1>2, <1>3, <1>6, <1>7, <1>8

(***************************************************************************)
(* An operation that fails: its post job was never launched, has spent its *)
(* restarts, or was given up.                                              *)
(***************************************************************************)
LEMMA FailureKeepsInv ==
  ASSUME IInv, MarkersFail \/ MarkersTimeOut \/ OperationFails
  PROVE  ReleaseTypeOK' /\ HelmInv'
<1> USE DEF IInv, HelmInv
<1>1. /\ phase # "idle" /\ phase' = "idle" /\ status' = "failed" /\ hooks' = {}
      /\ UNCHANGED <<markerVars, op, auth, accounts, tainted>>
  BY DEF MarkersFail, MarkersTimeOut, OperationFails, EndAs
<1>2. ReleaseTypeOK'
  BY <1>1, TypesKept DEF Phases, ReleaseTypeOK
<1>3. InTurn' /\ PostNotYet' /\ HooksLeft' /\ Checked' /\ Settled'
  BY <1>1 DEF markerVars, InTurn, PostNotYet, HooksLeft, Checked, MidPhases, Settled
<1>4. Alone'
  <2>1. ~Timeouts => Finished(<<op, "post">>)
    BY DEF MarkersFail, MarkersTimeOut, OperationFails, PostNotYet, Finished
  <2>2. ~Timeouts => ~PostAtWork
    BY <1>1, <2>1, NobodyAtWork DEF Trusted
  <2> QED BY <1>1, <2>2 DEF markerVars, Alone, PostAtWork, Finished, Succeeded, GaveUp
<1>5. NotStranded'
  BY <1>1 DEF NotStranded, Reachable
<1> QED BY <1>2, <1>3, <1>4, <1>5

(***************************************************************************)
(* The hooks between the marker steps, and the rollout.                    *)
(***************************************************************************)
LEMMA MarkersLeftAlone ==
  ASSUME IInv, UNCHANGED <<markerVars, op, tainted>>,
         phase \in MidPhases, phase' \in MidPhases \cup {"post"}
  PROVE  InTurn' /\ PostNotYet' /\ Alone' /\ Checked' /\ Settled'
<1> USE DEF IInv, HelmInv, markerVars
<1>1. phase \notin {"idle", "post"} /\ phase' # "idle" /\ phase' # "pre"
  BY DEF MidPhases
<1>2. pc[<<op, "post">>] = "absent"
  BY <1>1 DEF PostNotYet
<1>3. InTurn' /\ PostNotYet' /\ Alone' /\ Settled'
  BY <1>1, <1>2
  DEF InTurn, PostNotYet, Alone, Trusted, NoOtherPost, Finished, Succeeded, GaveUp, Settled
<1>4. Checked'
  BY <1>1, <1>2 DEF Checked, Trusted, MayStart, Marker, Succeeded
<1> QED BY <1>3, <1>4

LEMMA InitSecretsKeepsInv ==
  ASSUME IInv, InitSecrets
  PROVE  ReleaseTypeOK' /\ HelmInv'
<1> USE DEF IInv, HelmInv
<1>1. /\ phase = "initSecrets" /\ phase' = "hooks"
      /\ UNCHANGED <<markerVars, op, hooks, status, auth, accounts, tainted>>
  BY DEF InitSecrets, GoTo
<1>2. ReleaseTypeOK'
  BY <1>1, TypesKept DEF Phases, ReleaseTypeOK
<1>3. InTurn' /\ PostNotYet' /\ Alone' /\ Checked' /\ Settled'
  BY <1>1, MarkersLeftAlone DEF MidPhases
<1>4. hooks = PreHooks(mode[op])
  BY <1>1 DEF HooksLeft
<1>5. HooksLeft'
  BY <1>1, <1>4 DEF markerVars, HooksLeft, PreHooks
<1>6. NotStranded'
  BY <1>1, <1>4 DEF markerVars, NotStranded, Reachable, Fitting, MigratedNotRolledOut, PreHooks
<1> QED BY <1>2, <1>3, <1>5, <1>6

LEMMA CheckConfigKeepsInv ==
  ASSUME IInv, CheckConfig
  PROVE  ReleaseTypeOK' /\ HelmInv'
<1> USE DEF IInv, HelmInv
<1>1. /\ phase = "hooks" /\ hooks' = hooks \ {"checkConfig"}
      /\ UNCHANGED <<markerVars, op, phase, status, auth, accounts, tainted>>
  BY DEF CheckConfig
<1>2. ReleaseTypeOK'
  BY <1>1, TypesKept DEF ReleaseTypeOK
<1>3. InTurn' /\ PostNotYet' /\ Alone' /\ Checked' /\ Settled'
  BY <1>1, MarkersLeftAlone DEF MidPhases
<1>4. HooksLeft'
  BY <1>1 DEF markerVars, HooksLeft
<1>5. NotStranded'
  BY <1>1 DEF markerVars, NotStranded, Reachable, Fitting, MigratedNotRolledOut
<1> QED BY <1>2, <1>3, <1>4, <1>5

LEMMA Syn2MasKeepsInv ==
  ASSUME IInv, Syn2Mas
  PROVE  ReleaseTypeOK' /\ HelmInv'
<1> USE DEF IInv, HelmInv
<1>1. /\ phase = "hooks" /\ hooks' = hooks \ {"syn2mas"} /\ auth # "none"
      /\ accounts' = accounts \ {"synapse"}
      /\ UNCHANGED <<markerVars, op, phase, status, auth, tainted>>
  BY DEF Syn2Mas
<1>2. ReleaseTypeOK'
  BY <1>1, TypesKept DEF ReleaseTypeOK
<1>3. InTurn' /\ PostNotYet' /\ Alone' /\ Checked' /\ Settled'
  BY <1>1, MarkersLeftAlone DEF MidPhases
<1>4. HooksLeft'
  BY <1>1 DEF markerVars, HooksLeft
<1>5. NotStranded'
  BY <1>1 DEF markerVars, NotStranded, Reachable, Fitting, MigratedNotRolledOut
<1> QED BY <1>2, <1>3, <1>4, <1>5

LEMMA HooksDoneKeepsInv ==
  ASSUME IInv, HooksDone
  PROVE  ReleaseTypeOK' /\ HelmInv'
<1> USE DEF IInv, HelmInv
<1>1. /\ phase = "hooks" /\ phase' = "apply" /\ hooks = {}
      /\ UNCHANGED <<markerVars, op, hooks, status, auth, accounts, tainted>>
  BY DEF HooksDone, GoTo
<1>2. ReleaseTypeOK'
  BY <1>1, TypesKept DEF Phases, ReleaseTypeOK
<1>3. InTurn' /\ PostNotYet' /\ Alone' /\ Checked' /\ Settled'
  BY <1>1, MarkersLeftAlone DEF MidPhases
<1>4. HooksLeft'
  BY <1>1 DEF HooksLeft
<1>5. NotStranded'
  BY <1>1 DEF markerVars, NotStranded, Reachable, Fitting, MigratedNotRolledOut
<1> QED BY <1>2, <1>3, <1>4, <1>5

(***************************************************************************)
(* The rollout: authentication is delegated once every account is with     *)
(* MAS, and is with Synapse only if none is.                               *)
(***************************************************************************)
LEMMA ApplyKeepsInv ==
  ASSUME IInv, Apply
  PROVE  ReleaseTypeOK' /\ HelmInv'
<1> USE DEF IInv, HelmInv
<1>1. /\ phase = "apply" /\ phase' = "wait" /\ auth' = AuthOf(mode[op])
      /\ UNCHANGED <<markerVars, op, hooks, status, accounts, tainted>>
  BY DEF Apply, GoTo
<1>2. hooks = {} /\ mode[op] \in Modes
  BY <1>1, OpIsNumber DEF HooksLeft
<1>3. ReleaseTypeOK'
  BY <1>1, TypesKept DEF Phases, ReleaseTypeOK, AuthOf
<1>4. InTurn' /\ PostNotYet' /\ Alone' /\ Checked' /\ Settled'
  BY <1>1, MarkersLeftAlone DEF MidPhases
<1>5. HooksLeft'
  BY <1>1, <1>2 DEF HooksLeft
<1>6. ASSUME ~tainted PROVE Reachable'
  <2>1. /\ auth \in {"none", "legacy", "delegated"}
        /\ auth = "none" => accounts = {}
        /\ Reachable /\ Fitting
    BY <1>1, <1>6 DEF NotStranded, ReleaseTypeOK
  <2>2. CASE mode[op] \in {"legacy", "dryRun"}
    <3>1. "mas" \notin accounts
      BY <2>1, <2>2 DEF Fitting, Reachable
    <3> QED BY <1>1, <2>2, <3>1 DEF AuthOf, Reachable
  <2>3. CASE mode[op] = "migrate"
    <3>1. "synapse" \notin accounts
      BY <1>1, <1>2, <2>1, <2>3 DEF Fitting, MigratedNotRolledOut
    <3> QED BY <1>1, <2>3, <3>1 DEF AuthOf, Reachable
  <2>4. CASE mode[op] = "delegated"
    <3>1. "synapse" \notin accounts
      BY <2>1, <2>4 DEF Fitting, Reachable
    <3> QED BY <1>1, <2>4, <3>1 DEF AuthOf, Reachable
  <2> QED BY <1>2, <2>2, <2>3, <2>4 DEF Modes
<1>7. NotStranded'
  BY <1>1, <1>6 DEF markerVars, NotStranded, AuthOf
<1> QED BY <1>3, <1>4, <1>5, <1>7

LEMMA RolloutKeepsInv ==
  ASSUME IInv, Ready \/ DryRun
  PROVE  ReleaseTypeOK' /\ HelmInv'
<1> USE DEF IInv, HelmInv
<1>1. /\ phase \in {"wait", "dryRun"} /\ phase' \in {"dryRun", "post"}
      /\ UNCHANGED <<markerVars, op, hooks, status, auth, accounts, tainted>>
  BY DEF Ready, DryRun, GoTo
<1>2. ReleaseTypeOK'
  BY <1>1, TypesKept DEF Phases, ReleaseTypeOK
<1>3. InTurn' /\ PostNotYet' /\ Alone' /\ Checked' /\ Settled'
  BY <1>1, MarkersLeftAlone DEF MidPhases
<1>4. HooksLeft'
  BY <1>1 DEF HooksLeft
<1>5. NotStranded'
  BY <1>1 DEF markerVars, NotStranded, Reachable
<1> QED BY <1>2, <1>3, <1>4, <1>5

-----------------------------------------------------------------------------

(***************************************************************************)
(* A rollback taints; so does an account created between the migration and *)
(* the rollout. Any other is created where it is looked for.               *)
(***************************************************************************)
LEMMA RollbackKeepsInv ==
  ASSUME IInv, NEW o \in Operations, Rollback(o)
  PROVE  ReleaseTypeOK' /\ HelmInv'
<1> USE DEF IInv, HelmInv
<1>1. /\ phase = "idle" /\ tainted' = TRUE /\ auth' = AuthOf(mode[o]) /\ status' = "deployed"
      /\ UNCHANGED <<markerVars, op, phase, hooks, accounts>>
  BY DEF Rollback
<1>2. ReleaseTypeOK'
  BY <1>1, TypesKept DEF ReleaseTypeOK, AuthOf
<1>3. InTurn' /\ PostNotYet' /\ Alone' /\ Checked' /\ HooksLeft'
  BY <1>1 DEF markerVars, InTurn, PostNotYet, Alone, PostAtWork, Finished, Succeeded, GaveUp,
              Checked, MidPhases, HooksLeft
<1>4. NotStranded' /\ Settled'
  BY <1>1 DEF NotStranded, Settled
<1> QED BY <1>2, <1>3, <1>4

LEMMA RegisterKeepsInv ==
  ASSUME IInv, Register
  PROVE  ReleaseTypeOK' /\ HelmInv'
<1> USE DEF IInv, HelmInv
<1>1. /\ auth # "none"
      /\ accounts' = accounts \cup {IF auth = "legacy" THEN "synapse" ELSE "mas"}
      /\ tainted' = (tainted \/ MigratedNotRolledOut)
      /\ UNCHANGED <<markerVars, op, phase, hooks, status, auth>>
  BY DEF Register
<1>2. ReleaseTypeOK'
  <2>1. tainted' \in BOOLEAN
    BY <1>1
  <2>2. accounts' \subseteq {"synapse", "mas"}
    BY <1>1 DEF ReleaseTypeOK
  <2> QED BY <1>1, <2>1, <2>2, TypesKept DEF ReleaseTypeOK
<1>3. InTurn' /\ PostNotYet' /\ HooksLeft'
  BY <1>1 DEF markerVars, InTurn, PostNotYet, HooksLeft
<1>4. Trusted' => Trusted
  BY <1>1 DEF Trusted
<1>5. Alone'
  BY <1>1, <1>4 DEF markerVars, Alone, NoOtherPost, PostAtWork, Finished, Succeeded, GaveUp
<1>6. Checked'
  BY <1>1, <1>4 DEF markerVars, Checked, MayStart, Marker, Succeeded
<1>7. ASSUME ~tainted' PROVE ~tainted /\ ~MigratedNotRolledOut
  BY <1>1, <1>7
<1>8. NotStranded'
  BY <1>1, <1>7 DEF markerVars, NotStranded, Reachable, Truthful, Marker, Fitting,
                    MigratedNotRolledOut, ReleaseTypeOK
<1>9. Settled'
  BY <1>1, <1>7 DEF markerVars, Settled, PostAtWork, Finished, Succeeded, GaveUp, Truthful,
                    Marker, ReleaseTypeOK
<1> QED BY <1>2, <1>3, <1>5, <1>6, <1>8, <1>9

-----------------------------------------------------------------------------

(***************************************************************************)
(* A step of a pod. Where the release can be trusted only the post pod of  *)
(* the current operation changes the marker.                               *)
(***************************************************************************)
LEMMA TrustedRecord ==
  ASSUME IInv, NEW p \in Pods, PodStep(p), Trusted,
         phase # "idle" \/ ~PostAtWork
  PROVE  \/ Marker' = Marker
         \/ phase = "post" /\ p = <<op, "post">> /\ Marker' = NewValue[mode[op]]
<1> SUFFICES ASSUME Marker' # Marker
             PROVE  phase = "post" /\ p = <<op, "post">> /\ Marker' = NewValue[mode[op]]
  OBVIOUS
<1>1. RecordedBy(p)
  BY PodStepRecords DEF IInv
<1>2. p[1] \in Operations /\ p = <<p[1], "post">> /\ pc[p] = "update"
  BY <1>1, PodIsPair DEF RecordedBy
<1>3. ~Finished(<<p[1], "post">>)
  BY <1>2 DEF Finished, Succeeded, GaveUp
<1>4. phase # "idle" /\ p[1] = op
  BY <1>2, <1>3 DEF IInv, HelmInv, Alone, NoOtherPost, PostAtWork
<1>5. phase = "post"
  BY <1>2, <1>4 DEF IInv, HelmInv, PostNotYet
<1> QED BY <1>1, <1>2, <1>4, <1>5 DEF RecordedBy

LEMMA PodStepKeepsHelmInv ==
  ASSUME IInv, MarkersInv', NEW p \in Pods, PodStep(p), UNCHANGED helmVars
  PROVE  ReleaseTypeOK' /\ HelmInv'
<1> USE DEF IInv, HelmInv, helmVars
<1>1. /\ mode' = mode
      /\ \A q \in Pods : pc[q] = "absent" => pc'[q] = "absent"
      /\ \A q \in Pods : Finished(q) => Finished(q)'
  BY PodStepFrame
<1>2. \A o \in Operations : <<o, "pre">> \in Pods /\ <<o, "post">> \in Pods
  BY DEF Pods
<1>3. ~PostAtWork => ~PostAtWork'
  BY <1>1, <1>2 DEF PostAtWork
<1>4. ReleaseTypeOK'
  BY DEF ReleaseTypeOK, MarkersInv
<1>5. InTurn' /\ HooksLeft'
  BY <1>1 DEF InTurn, HooksLeft
<1>6. PostNotYet'
  BY <1>1, OpIsNumber DEF PostNotYet
<1>7. Alone'
  BY <1>1, <1>2, <1>3 DEF Alone, Trusted, NoOtherPost
<1>8. Checked'
  <2> SUFFICES ASSUME Trusted, phase # "idle" PROVE Checked'
    BY DEF Checked, Trusted, MidPhases
  <2>1. /\ <<op, "pre">> \in Pods /\ <<op, "post">> \in Pods
        /\ [MarkersNext]_markerVars
    BY OpIsNumber DEF MarkersNext
  <2>2. \/ Marker' = Marker
        \/ phase = "post" /\ p = <<op, "post">> /\ Marker' = NewValue[mode[op]]
    BY TrustedRecord
  <2>3. ASSUME phase = "pre", Succeeded(<<op, "pre">>)' PROVE MayStart'
    <3>1. CASE pc[<<op, "pre">>] = "done"
      BY <1>1, <2>2, <2>3, <3>1 DEF Checked, Succeeded, MayStart
    <3>2. CASE pc[<<op, "pre">>] # "done"
      <4>1. pc[<<op, "pre">>] = "update" /\ StoreUpdated(<<op, "pre">>)
        BY <2>1, <2>3, <3>2, SuccessIsUpdate DEF Succeeded
      <4>2. Marker' = Marker /\ Marker \in AllowedValues[mode[op]] \cup {Unset}
        BY <2>1, <4>1, UpdateTakesEffect
      <4> QED BY <1>1, <4>2 DEF MayStart
    <3> QED BY <3>1, <3>2
  <2>4. ASSUME phase = "post", Succeeded(<<op, "post">>)' PROVE Marker' = NewValue[mode[op]]
    <3>1. CASE pc[<<op, "post">>] = "done"
      BY <2>2, <2>4, <3>1 DEF Checked, Succeeded
    <3>2. CASE pc[<<op, "post">>] # "done"
      <4>1. pc[<<op, "post">>] = "update" /\ StoreUpdated(<<op, "post">>)
        BY <2>1, <2>4, <3>2, SuccessIsUpdate DEF Succeeded
      <4> QED BY <2>1, <4>1, UpdateTakesEffect
    <3> QED BY <3>1, <3>2
  <2>5. phase \in MidPhases => MayStart'
    BY <1>1, <2>2 DEF Checked, MayStart, MidPhases
  <2>6. phase = "post" => MayStart' \/ Marker' = NewValue[mode[op]]
    BY <1>1, <2>2 DEF Checked, MayStart
  <2> QED BY <1>1, <2>3, <2>4, <2>5, <2>6 DEF Checked
<1>9. NotStranded'
  <2>1. ~tainted /\ phase = "pre" => Truthful'
    <3>1. ~tainted /\ phase = "pre" => Marker' = Marker
      BY TrustedRecord DEF Trusted
    <3> QED BY <3>1 DEF NotStranded, Truthful
  <2> QED BY <1>1, <2>1 DEF NotStranded, Reachable, Fitting, MigratedNotRolledOut
<1>10. Settled'
  <2>1. ~tainted /\ status = "deployed" /\ phase = "idle" => ~PostAtWork' /\ Marker' = Marker
    BY <1>3, TrustedRecord DEF Settled, Trusted
  <2> QED BY <2>1 DEF Settled, Truthful
<1> QED BY <1>4, <1>5, <1>6, <1>7, <1>8, <1>9, <1>10

LEMMA StutteringKeepsInv ==
  ASSUME IInv, UNCHANGED vars
  PROVE  ReleaseTypeOK' /\ HelmInv'
<1> USE DEF IInv, HelmInv, vars
<1>1. ReleaseTypeOK'
  BY DEF ReleaseTypeOK, TypeOK
<1>2. InTurn' /\ PostNotYet' /\ Alone' /\ HooksLeft' /\ Checked'
  BY DEF InTurn, PostNotYet, Alone, Trusted, NoOtherPost, PostAtWork, Finished, Succeeded, GaveUp,
         HooksLeft, Checked, MayStart, Marker, MidPhases
<1>3. NotStranded' /\ Settled'
  BY DEF NotStranded, Reachable, Truthful, Marker, Fitting, MigratedNotRolledOut, Settled,
         PostAtWork, Finished, Succeeded, GaveUp
<1> QED BY <1>1, <1>2, <1>3

LEMMA InitInv == Init => IInv
<1> SUFFICES ASSUME Init PROVE IInv
  OBVIOUS
<1>1. MarkersInv
  BY MarkersInitInv DEF Init
<1>2. ReleaseTypeOK
  BY <1>1 DEF MarkersInv, Init, ReleaseTypeOK, Phases
<1>3. /\ \A o \in Operations : mode[o] = "none" /\ Finished(<<o, "post">>)
      /\ \A o \in Operations : o > 0
  <2>1. \A o \in Operations : <<o, "post">> \in Pods
    BY DEF Pods
  <2> QED BY <2>1, MarkersAssumption DEF Init, MarkersInit, Finished
<1>4. HelmInv
  BY <1>3 DEF Init, HelmInv, InTurn, PostNotYet, Alone, PostAtWork, Checked, MidPhases, HooksLeft,
              NotStranded, Reachable, Settled
<1> QED BY <1>1, <1>2, <1>4 DEF IInv

LEMMA NextKeepsInv == IInv /\ [Next]_vars => IInv'
<1> SUFFICES ASSUME IInv, [Next]_vars PROVE IInv'
  OBVIOUS
<1>1. MarkersInv'
  BY MarkersInvKept
<1>2. CASE HelmStep
  <2>1. MarkersSucceed => phase \in {"pre", "post"}
    BY DEF MarkersSucceed
  <2>2. ReleaseTypeOK' /\ HelmInv'
    BY <1>2, <2>1, LaunchMarkersKeepsInv, PreSucceedsKeepsInv, PostSucceedsKeepsInv, FailureKeepsInv,
       InitSecretsKeepsInv, CheckConfigKeepsInv, Syn2MasKeepsInv, HooksDoneKeepsInv, ApplyKeepsInv,
       RolloutKeepsInv DEF HelmStep
  <2> QED BY <1>1, <2>2 DEF IInv
<1>3. CASE ~HelmStep
  <2>1. ReleaseTypeOK' /\ HelmInv'
    BY <1>1, <1>3, StartKeepsInv, FailureKeepsInv, PodStepKeepsHelmInv, RollbackKeepsInv,
       RegisterKeepsInv, StutteringKeepsInv DEF Next, Terminating
  <2> QED BY <1>1, <2>1 DEF IInv
<1> QED BY <1>2, <1>3

-----------------------------------------------------------------------------

(***************************************************************************)
(* The inductive invariant of a release.                                   *)
(***************************************************************************)
THEOREM ReleaseIsSafe == Spec => []IInv
  BY InitInv, NextKeepsInv, PTL DEF Spec

(***************************************************************************)
(* Type correctness (ReleaseTypeOK).                                       *)
(***************************************************************************)
THEOREM ReleaseTypeCorrect == Spec => []ReleaseTypeOK
<1>1. IInv => ReleaseTypeOK
  BY DEF IInv
<1> QED BY <1>1, ReleaseIsSafe, PTL

(***************************************************************************)
(* After a successful operation every account is where the deployed        *)
(* Synapse looks for it (AccountsReachable): the marker checks let no      *)
(* sequence of values and failures strand one.                             *)
(***************************************************************************)
THEOREM NobodyStranded == Spec => []AccountsReachable
<1>1. IInv => AccountsReachable
  BY DEF IInv, HelmInv, NotStranded, AccountsReachable
<1> QED BY <1>1, ReleaseIsSafe, PTL

(***************************************************************************)
(* A deployed release has a truthful marker (DeployedIsTruthful): the post *)
(* job, which looks at nothing, records what the rollout has made true.    *)
(***************************************************************************)
THEOREM DeployedTruth == Spec => []DeployedIsTruthful
<1>1. IInv => DeployedIsTruthful
  BY DEF IInv, HelmInv, Settled, DeployedIsTruthful
<1> QED BY <1>1, ReleaseIsSafe, PTL

-----------------------------------------------------------------------------

(***************************************************************************)
(* The order Helm gives the hooks of a release is one the marker jobs of   *)
(* DeploymentMarkers allow (MarkersSpec) ...                               *)
(***************************************************************************)
THEOREM ReleaseRunsMarkers == Spec => MarkersSpec
<1>1. Init => MarkersInit
  BY DEF Init
<1>2. IInv /\ [Next]_vars => [MarkersNext]_markerVars
  BY StepOfMarkers DEF IInv, HelmInv
<1> QED BY <1>1, <1>2, ReleaseIsSafe, PTL DEF Spec, MarkersSpec

(***************************************************************************)
(* ... so that in a release, too, only a post step gives the marker a      *)
(* value (OnlyPostRecords),                                                *)
(***************************************************************************)
THEOREM ReleasePostRecordsOnly == Spec => OnlyPostRecords
  BY ReleaseRunsMarkers, PostRecordsOnly, PTL

(***************************************************************************)
(* the transition is allowed when the pre step succeeds, not only when its *)
(* pod looked at the marker (CheckHoldsAtSuccess),                         *)
(***************************************************************************)
THEOREM ReleaseCheckHolds == Spec => CheckHoldsAtSuccess
  BY ReleaseRunsMarkers, CheckHolds, PTL

(***************************************************************************)
(* and a post step that succeeds has recorded its value                    *)
(* (RecordedAtSuccess).                                                    *)
(***************************************************************************)
THEOREM ReleaseRecords == Spec => RecordedAtSuccess
  BY ReleaseRunsMarkers, Records, PTL

-----------------------------------------------------------------------------

(***************************************************************************)
(* Only the migration leaves its hook behind it.                           *)
(***************************************************************************)
LEMMA MigrationIsSyn2Mas ==
  ASSUME IInv, [Next]_vars, "syn2mas" \in hooks, "syn2mas" \notin hooks', phase' = "hooks"
  PROVE  phase = "hooks"
  BY DEF Next, HelmStep, Start, LaunchMarkers, MarkersSucceed, MarkersFail, MarkersTimeOut,
      InitSecrets, CheckConfig, Syn2Mas, HooksDone, Apply, Ready, DryRun, OperationFails, Rollback,
      Register, Terminating, GoTo, EndAs, helmVars, vars

(***************************************************************************)
(* The migration is never run again once the marker shows it was           *)
(* (NoSecondMigration): the check is ten weights old when syn2mas starts,  *)
(* but unless Helm gives up on a job nobody else can record a value.       *)
(***************************************************************************)
THEOREM MigratedOnce ==
  ASSUME ~Timeouts
  PROVE  Spec => NoSecondMigration
<1>1. IInv /\ [Next]_vars =>
        [("syn2mas" \in hooks /\ "syn2mas" \notin hooks' /\ phase' = "hooks") =>
           Marker \notin {"syn2mas_migrated", "delegated_auth"}]_vars
  <2> SUFFICES ASSUME IInv, [Next]_vars,
                      "syn2mas" \in hooks, "syn2mas" \notin hooks', phase' = "hooks"
               PROVE  Marker \notin {"syn2mas_migrated", "delegated_auth"}
    OBVIOUS
  <2>1. phase = "hooks"
    BY MigrationIsSyn2Mas
  <2>2. mode[op] = "migrate" /\ MayStart
    BY <2>1 DEF IInv, HelmInv, HooksLeft, Checked, Trusted, MidPhases
  <2> QED BY <2>2, UnsetIsNoValue DEF MayStart, AllowedValues
<1> QED BY <1>1, ReleaseIsSafe, PTL DEF Spec, NoSecondMigration

-----------------------------------------------------------------------------

(***************************************************************************)
(* What an operation records is ahead of what its check let pass.          *)
(***************************************************************************)
LEMMA RecordsForward ==
  ASSUME NEW m \in Modes, NEW old \in AllowedValues[m] \cup {Unset}
  PROVE  \/ NewValue[m] = old
         \/ old = Unset /\ NewValue[m] \in MarkerValues
         \/ <<old, NewValue[m]>> \in Protocol!Forward
  BY ModesHaveValues DEF Modes, AllowedValues, NewValue, Protocol!Forward

LEMMA StepGoesForward ==
  ASSUME ~Timeouts, IInv, [Next]_vars
  PROVE  [Protocol!Next]_Marker
<1>1. CASE \E p \in Pods : PodStep(p) /\ UNCHANGED helmVars
  <2>1. PICK p \in Pods : PodStep(p)
    BY <1>1
  <2>2. phase # "idle" \/ ~PostAtWork
    BY DEF IInv, HelmInv, Alone
  <2>3. CASE Marker' = Marker
    BY <2>3
  <2>4. CASE phase = "post" /\ Marker' = NewValue[mode[op]] /\ Marker' # Marker
    <3>1. mode[op] \in Modes /\ Marker \in AllowedValues[mode[op]] \cup {Unset}
      BY <2>4, OpIsNumber DEF IInv, HelmInv, Checked, Trusted, MayStart
    <3> QED BY <2>4, <3>1, RecordsForward DEF Protocol!Next, MarkerValues
  <2> QED BY <2>1, <2>2, <2>3, <2>4, TrustedRecord DEF Trusted
<1>2. CASE ~\E p \in Pods : PodStep(p) /\ UNCHANGED helmVars
  <2>1. UNCHANGED configMap
    BY <1>2 DEF Next, HelmStep, Start, Begin, LaunchMarkers, LaunchStep, Launch, MarkersSucceed,
         MarkersFail, MarkersTimeOut, InitSecrets, CheckConfig, Syn2Mas, HooksDone, Apply, Ready,
         DryRun, OperationFails, Rollback, Register, Terminating, markerVars, vars
  <2> QED BY <2>1 DEF Marker
<1> QED BY <1>1, <1>2

(***************************************************************************)
(* The refinement: a release implements the protocol of its marker         *)
(* (ImplementsAuthMigration), which only moves forward, as long as Helm    *)
(* does not give up on a marker job. No ConfigMap of that name is there    *)
(* before the first operation.                                             *)
(***************************************************************************)
THEOREM MarkerGoesForward ==
  ASSUME ~Timeouts, ~Leftovers
  PROVE  Spec => ImplementsAuthMigration
<1>1. Init => Protocol!Init
  BY NoObjectTyped DEF Init, Protocol!Init, Marker
<1>2. IInv /\ [Next]_vars => [Protocol!Next]_Marker
  BY StepGoesForward
<1> QED BY <1>1, <1>2, ReleaseIsSafe, PTL DEF Spec, ImplementsAuthMigration, Protocol!Spec

-----------------------------------------------------------------------------

(***************************************************************************)
(* What it takes for the three claims of the documents that do not hold    *)
(* (NoDowngrade, MigrationIsFinal, NoMasBeforeSyn2Mas) to hold.            *)
(*                                                                         *)
(* The marker prevents a downgrade (NoDowngrade, docs/syn2mas.md:110-112)  *)
(* unless Helm gives up on a marker job that goes on.                      *)
(***************************************************************************)
THEOREM DowngradeNeedsTimeout ==
  ASSUME ~Timeouts
  PROVE  Spec => NoDowngrade
<1>1. IInv /\ [Next]_vars =>
        [Marker' = "legacy_auth" => Marker \in {Unset, "legacy_auth"}]_vars
  BY StepGoesForward DEF Protocol!Next, Protocol!Forward
<1> QED BY <1>1, ReleaseIsSafe, PTL DEF Spec, NoDowngrade

LEMMA DelegatedStays ==
  ASSUME ~Timeouts, ~Rollbacks, IInv, [Next]_vars,
         Marker = "delegated_auth", auth = "delegated"
  PROVE  auth' # "legacy"
<1>1. CASE Apply
  <2>1. mode[op] \in Modes /\ MayStart /\ auth' = AuthOf(mode[op])
    BY <1>1, OpIsNumber DEF Apply, IInv, HelmInv, Checked, Trusted, MidPhases
  <2> QED BY <2>1, UnsetIsNoValue DEF MayStart, AllowedValues, Modes, AuthOf
<1>2. CASE ~Apply
  BY <1>2 DEF Next, HelmStep, Start, LaunchMarkers, MarkersSucceed, MarkersFail, MarkersTimeOut,
       InitSecrets, CheckConfig, Syn2Mas, HooksDone, Ready, DryRun, OperationFails, Rollback,
       Register, Terminating, helmVars, vars
<1> QED BY <1>1, <1>2

(***************************************************************************)
(* A release whose marker is delegated_auth keeps delegating               *)
(* authentication (MigrationIsFinal, docs/syn2mas.md:27) unless it is      *)
(* rolled back or Helm gives up on a marker job.                           *)
(***************************************************************************)
THEOREM BackNeedsRollback ==
  ASSUME ~Timeouts, ~Rollbacks
  PROVE  Spec => MigrationIsFinal
<1>1. IInv /\ [Next]_vars =>
        [Marker = "delegated_auth" /\ auth = "delegated" => auth' # "legacy"]_vars
  BY DelegatedStays
<1> QED BY <1>1, ReleaseIsSafe, PTL DEF Spec, MigrationIsFinal

(***************************************************************************)
(* Authentication is delegated only once Synapse holds no account          *)
(* (NoMasBeforeSyn2Mas, deployment-markers/_helpers.tpl:47-48) unless the  *)
(* marker did not show what had happened (tainted).                        *)
(***************************************************************************)
THEOREM MasNeedsMigration ==
  Spec => [][auth = "legacy" /\ auth' = "delegated" /\ ~tainted' => "synapse" \notin accounts]_vars
<1>1. IInv /\ [Next]_vars =>
        [auth = "legacy" /\ auth' = "delegated" /\ ~tainted' => "synapse" \notin accounts]_vars
  <2> SUFFICES ASSUME IInv, [Next]_vars, auth = "legacy", auth' = "delegated", ~tainted'
               PROVE  "synapse" \notin accounts
    OBVIOUS
  <2>1. Apply
    BY DEF Next, HelmStep, Start, LaunchMarkers, MarkersSucceed, MarkersFail, MarkersTimeOut,
       InitSecrets, CheckConfig, Syn2Mas, HooksDone, Ready, DryRun, OperationFails, Rollback,
       Register, Terminating, helmVars, vars
  <2>2. ReleaseTypeOK' /\ HelmInv' /\ accounts' = accounts
    BY <2>1, ApplyKeepsInv DEF Apply
  <2> QED BY <2>2 DEF HelmInv, NotStranded, Reachable
<1> QED BY <1>1, ReleaseIsSafe, PTL DEF Spec
=============================================================================
