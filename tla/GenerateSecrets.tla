--------------------------- MODULE GenerateSecrets ---------------------------
(***************************************************************************)
(* The init-secrets job: `matrix-tools generate-secrets` walks a list of   *)
(* name:key:type requests and, for each, reads the Secret, adds the key if *)
(* it is missing and writes the Secret back.                               *)
(*                                                                         *)
(* Several pods can be at it at once: the job controller replaces a pod    *)
(* that is still terminating, and the pod of an earlier upgrade may        *)
(* outlive the next one. A pod that exits with an error, or is killed, is  *)
(* restarted from its first request (restartPolicy OnFailure) until        *)
(* backoffLimit is spent. An API call can fail before or after it took     *)
(* effect, and an administrator can edit or delete a Secret at any time.   *)
(***************************************************************************)
EXTENDS KubeApi, Sequences, FiniteSets

CONSTANTS Pods,          \* the pods that run the command
          Names,         \* the Secrets they are asked about
          Requests,      \* [Pods -> Seq([name, key, type])]
          RandomValues,  \* what the random generators can return
          SeededKey,     \* what the signing key generator returns
          BackoffLimit,  \* restarts the job controller grants a pod
          MaxFaults,     \* bound on failed API calls and killed pods
          MaxEdits       \* bound on edits by an administrator

RandomTypes == {"rand32", "hex32", "rsa4096", "ecdsaprime256v1"}

SecretTypes == RandomTypes \cup {"signingkey"}

Request == [name : Names, key : Keys, type : SecretTypes]

Values == RandomValues \cup {SeededKey}

Data == [Keys -> Values \cup {Unset}]

Ours == "matrix-tools-init-secrets"

Owners == {Ours, "other", "none"}

Object == [rv : Nat, owner : Owners, data : Data]

ASSUME ConstantsAssumption ==
  /\ Requests \in [Pods -> Seq(Request)]
  /\ \A p \in Pods : Requests[p] # <<>>
  /\ Unset \notin Values
  /\ {BackoffLimit, MaxFaults, MaxEdits} \subseteq Nat

VARIABLES secrets,  \* the Secrets of the namespace
          nextRv,   \* the resourceVersion the next write is given
          pc,       \* where each pod is in GenerateSecret
          idx,      \* the request of its list a pod is working on
          copy,     \* the Secret a pod read, as it means to write it back
          runs,     \* how often the container of a pod was restarted
          faults,   \* how many faults happened so far
          edits     \* how many edits happened so far

podVars == <<pc, idx, copy, runs>>

vars == <<secrets, nextRv, pc, idx, copy, runs, faults, edits>>

TypeOK ==
  /\ secrets \in [Names -> Object]
  /\ nextRv \in Nat
  /\ pc \in [Pods -> {"get", "create", "update", "failed", "done"}]
  /\ idx \in [Pods -> Nat]
  /\ \A p \in Pods : idx[p] \in 1..Len(Requests[p])
  /\ copy \in [Pods -> Object]
  /\ runs \in [Pods -> 0..BackoffLimit]
  /\ faults \in 0..MaxFaults
  /\ edits \in 0..MaxEdits

-----------------------------------------------------------------------------

Current(p) == Requests[p][idx[p]]

(***************************************************************************)
(* What a generator may return. The signing key generator draws from a     *)
(* source with a constant seed.                                            *)
(***************************************************************************)
Generated(type) == IF type = "signingkey" THEN {SeededKey} ELSE RandomValues

Regenerated(object, request) ==  \* mutant: replaces a value that is there
  {SetKey(object, request.key, v) : v \in Generated(request.type)}

(***************************************************************************)
(* The object a pod means to write back: labelled as its own, with the     *)
(* requested key added if it is missing and every other key as it was.     *)
(***************************************************************************)
Completed(object, request) ==
  IF object.data[request.key] # Unset
  THEN {object}
  ELSE {SetKey(object, request.key, v) : v \in Generated(request.type)}

Prepare(p, object) ==
  /\ copy' \in {[copy EXCEPT ![p] = c] : c \in Completed(object, Current(p))}
  /\ pc' = [pc EXCEPT ![p] = "update"]

FailAsSuccess(p) ==  \* mutant: prints the error and exits with 0
  /\ pc' = [pc EXCEPT ![p] = "done"]
  /\ copy' = [copy EXCEPT ![p] = NoObject]
  /\ UNCHANGED <<idx, runs>>

Fail(p) ==
  /\ pc' = [pc EXCEPT ![p] = "failed"]
  /\ copy' = [copy EXCEPT ![p] = NoObject]
  /\ UNCHANGED <<idx, runs>>

Fault == faults < MaxFaults /\ faults' = faults + 1

(***************************************************************************)
(* The requests are taken in order; after the last one the command ends    *)
(* with success.                                                           *)
(***************************************************************************)
NextRequest(p) ==
  /\ copy' = [copy EXCEPT ![p] = NoObject]
  /\ IF idx[p] < Len(Requests[p])
     THEN /\ idx' = [idx EXCEPT ![p] = @ + 1]
          /\ pc' = [pc EXCEPT ![p] = "get"]
     ELSE /\ pc' = [pc EXCEPT ![p] = "done"]
          /\ UNCHANGED idx

-----------------------------------------------------------------------------

(***************************************************************************)
(* Get, with the managed-by check and the generation that follow it. Every *)
(* error of Get, "not found" or any other, leads to Create.                *)
(***************************************************************************)
GetFound(p) ==
  /\ pc[p] = "get"
  /\ LET object == secrets[Current(p).name]
     IN  /\ Exists(object)
         /\ object.owner = Ours
         /\ Prepare(p, object)
  /\ UNCHANGED <<secrets, nextRv, idx, runs, faults, edits>>

GetForeign(p) ==
  /\ pc[p] = "get"
  /\ Exists(secrets[Current(p).name])
  /\ secrets[Current(p).name].owner # Ours
  /\ Fail(p)
  /\ UNCHANGED <<secrets, nextRv, faults, edits>>

GetMissing(p) ==
  /\ pc[p] = "get"
  /\ ~Exists(secrets[Current(p).name])
  /\ pc' = [pc EXCEPT ![p] = "create"]
  /\ UNCHANGED <<secrets, nextRv, idx, copy, runs, faults, edits>>

GetError(p) ==
  /\ pc[p] = "get"
  /\ Fault
  /\ pc' = [pc EXCEPT ![p] = "create"]
  /\ UNCHANGED <<secrets, nextRv, idx, copy, runs, edits>>

(***************************************************************************)
(* Create makes a Secret without data and fails if there is one already.   *)
(***************************************************************************)
StoreCreated(p) ==
  /\ ~Exists(secrets[Current(p).name])
  /\ secrets' = [secrets EXCEPT ![Current(p).name] = Created(Ours, nextRv)]
  /\ nextRv' = nextRv + 1

CreateUnlabelled(p) ==  \* mutant: forgets the labels of a new Secret
  /\ pc[p] = "create"
  /\ ~Exists(secrets[Current(p).name])
  /\ secrets' = [secrets EXCEPT ![Current(p).name] = Created("none", nextRv)]
  /\ nextRv' = nextRv + 1
  /\ Prepare(p, Created("none", nextRv))
  /\ UNCHANGED <<idx, runs, faults, edits>>

Create(p) ==
  /\ pc[p] = "create"
  /\ StoreCreated(p)
  /\ Prepare(p, Created(Ours, nextRv))
  /\ UNCHANGED <<idx, runs, faults, edits>>

CreateConflict(p) ==
  /\ pc[p] = "create"
  /\ Exists(secrets[Current(p).name])
  /\ Fail(p)
  /\ UNCHANGED <<secrets, nextRv, faults, edits>>

StoreUnchecked(p) ==  \* mutant: an update without resourceVersion
  /\ Exists(secrets[Current(p).name])
  /\ secrets' = [secrets EXCEPT ![Current(p).name] = Written(@, copy[p], nextRv)]
  /\ nextRv' = nextRv + 1

(***************************************************************************)
(* Update is refused if the Secret is not the version the copy was made    *)
(* from.                                                                   *)
(***************************************************************************)
StoreUpdated(p) ==
  LET name == Current(p).name
  IN  /\ Accepts(secrets[name], copy[p])
      /\ secrets' = [secrets EXCEPT ![name] = Written(@, copy[p], nextRv)]
      /\ nextRv' = IF copy[p] = secrets[name] THEN nextRv ELSE nextRv + 1

Update(p) ==
  /\ pc[p] = "update"
  /\ StoreUpdated(p)
  /\ NextRequest(p)
  /\ UNCHANGED <<runs, faults, edits>>

UpdateConflict(p) ==
  /\ pc[p] = "update"
  /\ ~Accepts(secrets[Current(p).name], copy[p])
  /\ Fail(p)
  /\ UNCHANGED <<secrets, nextRv, faults, edits>>

(***************************************************************************)
(* A call that fails although the server carried it out (the response was  *)
(* lost): the command exits as for any other error.                        *)
(***************************************************************************)
LostResponse(p) ==
  /\ \/ pc[p] = "create" /\ StoreCreated(p)
     \/ pc[p] = "update" /\ StoreUpdated(p)
  /\ Fault
  /\ Fail(p)
  /\ UNCHANGED edits

(***************************************************************************)
(* A call that fails without effect, a generator that fails, or a          *)
(* container that is killed.                                               *)
(***************************************************************************)
Killed(p) ==
  /\ pc[p] \in {"get", "create", "update"}
  /\ Fault
  /\ Fail(p)
  /\ UNCHANGED <<secrets, nextRv, edits>>

RestartAlways(p) ==  \* mutant: no limit to the restarts
  /\ pc[p] = "failed"
  /\ pc' = [pc EXCEPT ![p] = "get"]
  /\ idx' = [idx EXCEPT ![p] = 1]
  /\ runs' = [runs EXCEPT ![p] = @ + 1]
  /\ UNCHANGED <<secrets, nextRv, copy, faults, edits>>

Restart(p) ==
  /\ pc[p] = "failed"
  /\ runs[p] < BackoffLimit
  /\ pc' = [pc EXCEPT ![p] = "get"]
  /\ idx' = [idx EXCEPT ![p] = 1]
  /\ runs' = [runs EXCEPT ![p] = @ + 1]
  /\ UNCHANGED <<secrets, nextRv, copy, faults, edits>>

(***************************************************************************)
(* An administrator deletes a Secret, creates one, takes one over by       *)
(* changing its label, or changes, adds or removes the value of a key.     *)
(***************************************************************************)
EditTo(n, object) ==
  /\ edits < MaxEdits
  /\ edits' = edits + 1
  /\ secrets' = [secrets EXCEPT ![n] = object]
  /\ nextRv' = nextRv + 1
  /\ UNCHANGED <<podVars, faults>>

Edit(n) ==
  \/ Exists(secrets[n]) /\ EditTo(n, NoObject)
  \/ /\ Exists(secrets[n])
     /\ \E o \in Owners : EditTo(n, [secrets[n] EXCEPT !.owner = o, !.rv = nextRv])
  \/ /\ Exists(secrets[n])
     /\ \E k \in Keys, v \in Values \cup {Unset} :
          EditTo(n, [SetKey(secrets[n], k, v) EXCEPT !.rv = nextRv])
  \/ ~Exists(secrets[n]) /\ \E o \in Owners : EditTo(n, Created(o, nextRv))

-----------------------------------------------------------------------------

(***************************************************************************)
(* The namespace may already hold Secrets: generated by an earlier         *)
(* install, or somebody else's.                                            *)
(***************************************************************************)
Init ==
  /\ secrets \in [Names -> {NoObject}
                     \cup {[rv |-> 1, owner |-> o, data |-> d] :
                             o \in Owners, d \in Data}]
  /\ nextRv = 2
  /\ pc = [p \in Pods |-> "get"]
  /\ idx = [p \in Pods |-> 1]
  /\ copy = [p \in Pods |-> NoObject]
  /\ runs = [p \in Pods |-> 0]
  /\ faults = 0
  /\ edits = 0

(***************************************************************************)
(* What a pod does when nothing goes wrong around it.                      *)
(***************************************************************************)
Progress(p) ==
  \/ GetFound(p) \/ GetForeign(p) \/ GetMissing(p)
  \/ Create(p) \/ CreateConflict(p)
  \/ Update(p) \/ UpdateConflict(p)
  \/ Restart(p)

PodStep(p) == Progress(p) \/ GetError(p) \/ LostResponse(p) \/ Killed(p)

Finished(p) == pc[p] = "done" \/ (pc[p] = "failed" /\ runs[p] = BackoffLimit)

(***************************************************************************)
(* Both jobs have ended.                                                   *)
(***************************************************************************)
Terminating == (\A p \in Pods : Finished(p)) /\ UNCHANGED vars

Next ==
  \/ \E p \in Pods : PodStep(p)
  \/ \E n \in Names : Edit(n)
  \/ Terminating

Spec == Init /\ [][Next]_vars

(***************************************************************************)
(* A running container proceeds and the kubelet restarts a failed one;     *)
(* nothing obliges a fault or an edit to happen.                           *)
(***************************************************************************)
Fairness == \A p \in Pods : WF_vars(Progress(p))

FairSpec == Spec /\ Fairness

-----------------------------------------------------------------------------

(***************************************************************************)
(* Every resourceVersion in use was handed out before: what a pod read is  *)
(* told apart from everything written after it. A Secret without version   *)
(* is not there.                                                           *)
(***************************************************************************)
VersionsPast ==
  /\ \A n \in Names : secrets[n].rv < nextRv /\ (Exists(secrets[n]) \/ secrets[n] = NoObject)
  /\ \A p \in Pods : copy[p].rv < nextRv

(***************************************************************************)
(* The copy a pod is about to write, as long as its version is current, is *)
(* the stored Secret, labelled as ours, with at most the requested key     *)
(* added. This is what makes the read-modify-write of GenerateSecret safe. *)
(***************************************************************************)
AddsOnly(object, stored, key) ==
  /\ object.owner = Ours
  /\ stored.owner = Ours
  /\ \A k \in Keys : (k # key \/ stored.data[k] # Unset) => object.data[k] = stored.data[k]

CopyCurrent(p) ==
  pc[p] = "update" =>
    /\ copy[p].data[Current(p).key] # Unset
    /\ Accepts(secrets[Current(p).name], copy[p]) =>
         AddsOnly(copy[p], secrets[Current(p).name], Current(p).key)

SafeCopies == TypeOK /\ VersionsPast /\ \A p \in Pods : CopyCurrent(p)

(***************************************************************************)
(* A pod that ended with success found or stored every key it was asked    *)
(* for, and each is still there unless an administrator edited a Secret:   *)
(* the exit status Helm waits for can be believed (cmd.go Run, the test's  *)
(* "Expected key to be set in the secret"). A pod that is not done has     *)
(* achieved this for the requests before the current one.                  *)
(***************************************************************************)
Achieved(p) == IF pc[p] = "done" THEN Len(Requests[p]) ELSE idx[p] - 1

DoneMeansPresent ==
  edits = 0 =>
    \A p \in Pods : \A i \in 1..Achieved(p) :
      secrets[Requests[p][i].name].data[Requests[p][i].key] # Unset

(***************************************************************************)
(* No step of a pod changes anything of a Secret another owner has         *)
(* labelled as its own, even if the label changed after the pod checked it *)
(* (secret.go GenerateSecret: the check is at Get, the write is later).    *)
(***************************************************************************)
ForeignUntouched ==
  [][edits' = edits =>
       \A n \in Names :
         Exists(secrets[n]) /\ secrets[n].owner # Ours =>
           secrets'[n] = secrets[n]]_vars

(***************************************************************************)
(* A step of a pod adds the key it is working on and touches no other: it  *)
(* neither changes a value another pod or an administrator has set since   *)
(* the pod read the Secret, nor brings back one that was removed           *)
(* (secret.go GenerateSecret writes the whole object it read).             *)
(***************************************************************************)
NoLostUpdate ==
  [][\A n \in Names, k \in Keys :
       edits' = edits /\ secrets'[n].data[k] # secrets[n].data[k] =>
         /\ secrets[n].data[k] = Unset
         /\ \E p \in Pods : /\ pc[p] = "update" /\ pc'[p] # "update"
                            /\ Current(p).name = n /\ Current(p).key = k]_vars

(***************************************************************************)
(* The job implements its abstract promise.                                *)
(***************************************************************************)
Cells == Names \X Keys

RequestedCells ==
  {<<r.name, r.key>> : r \in UNION {{Requests[p][i] : i \in DOMAIN Requests[p]} : p \in Pods}}

Promise == INSTANCE WriteOnce WITH
  Requested <- RequestedCells,
  value <- [c \in Cells |-> secrets[c[1]].data[c[2]]],
  overrides <- edits

ImplementsWriteOnce == Promise!Spec

(***************************************************************************)
(* If no Secret belongs to somebody else and nobody edits one, every pod   *)
(* succeeds within its restarts: pods that collide on a Secret, calls that *)
(* fail and Secrets left empty by an earlier attempt do not exhaust the    *)
(* backoff limit of job.yaml.                                              *)
(***************************************************************************)
AllSucceed ==
  (\A n \in Names : Exists(secrets[n]) => secrets[n].owner = Ours) =>
    <>[](\A p \in Pods : pc[p] = "done")
=============================================================================
