------------------------ MODULE GenerateSecretsProofs ------------------------
(***************************************************************************)
(* For every set of pods, list of requests and number of faults and edits: *)
(* the job never loses an update, never touches a foreign Secret and       *)
(* implements the write-once promise.                                      *)
(***************************************************************************)
EXTENDS GenerateSecrets, TLAPS

(***************************************************************************)
(* A pod that still has work is at one of its requests.                    *)
(***************************************************************************)
LEMMA CurrentRequest ==
  ASSUME TypeOK, NEW p \in Pods
  PROVE  /\ Current(p) \in Request
         /\ Current(p).name \in Names
         /\ Current(p).key \in Keys
<1>1. Requests[p] \in Seq(Request) /\ idx[p] \in 1..Len(Requests[p])
  BY ConstantsAssumption DEF TypeOK
<1>2. Current(p) \in Request
  BY <1>1 DEF Current
<1> QED BY <1>2 DEF Request

(***************************************************************************)
(* Setting a key changes that key and nothing else.                        *)
(***************************************************************************)
LEMMA SetKeySetsKey ==
  ASSUME NEW object \in Object, NEW key \in Keys, NEW v \in Values \cup {Unset}
  PROVE  /\ SetKey(object, key, v) \in Object
         /\ SetKey(object, key, v).rv = object.rv
         /\ SetKey(object, key, v).owner = object.owner
         /\ SetKey(object, key, v).data = [object.data EXCEPT ![key] = v]
<1>1. SetKey(object, key, v) = [object EXCEPT !.data = [object.data EXCEPT ![key] = v]]
  BY DEF SetKey
<1> QED BY <1>1 DEF Object, Data

(***************************************************************************)
(* What a pod prepares from an object of its own: the same version, the    *)
(* requested key set, nothing else changed.                                *)
(***************************************************************************)
LEMMA CompletedAddsOnly ==
  ASSUME NEW object \in Object, object.owner = Ours,
         NEW request \in Request,
         NEW c \in Completed(object, request)
  PROVE  /\ c \in Object
         /\ c.rv = object.rv
         /\ AddsOnly(c, object, request.key)
         /\ c.data[request.key] # Unset
<1>1. request.key \in Keys /\ request.type \in SecretTypes
  BY DEF Request
<1>2. CASE object.data[request.key] # Unset
  BY <1>2 DEF Completed, AddsOnly
<1>3. CASE object.data[request.key] = Unset
  <2>1. PICK v \in Generated(request.type) : c = SetKey(object, request.key, v)
    BY <1>3 DEF Completed
  <2>2. v \in Values /\ v # Unset
    BY <1>1, ConstantsAssumption DEF Generated, Values
  <2>3. /\ c \in Object
        /\ c.rv = object.rv
        /\ c.owner = object.owner
        /\ c.data = [object.data EXCEPT ![request.key] = v]
    BY <1>1, <2>1, <2>2, SetKeySetsKey
  <2> QED BY <1>1, <1>3, <2>2, <2>3 DEF Object, Data, AddsOnly
<1> QED BY <1>2, <1>3

(***************************************************************************)
(* A Secret that Create has just made.                                     *)
(***************************************************************************)
LEMMA CreatedObject ==
  ASSUME NEW rv \in Nat, NEW owner \in Owners
  PROVE  /\ Created(owner, rv) \in Object
         /\ Created(owner, rv).rv = rv
         /\ Created(owner, rv).owner = owner
BY DEF Created, Blank, Object, Data

(***************************************************************************)
(* A Secret that is not there is an object too, of version 0.              *)
(***************************************************************************)
LEMMA NoObjectTyped == NoObject \in Object /\ NoObject.rv = 0
BY DEF NoObject, Blank, Object, Data, Owners

-----------------------------------------------------------------------------

(***************************************************************************)
(* Whoever writes a Secret, a pod or an administrator, gives it a version  *)
(* that nobody has read yet, or deletes it.                                *)
(***************************************************************************)
FreshWrites ==
  /\ secrets' \in [Names -> Object]
  /\ nextRv' \in Nat /\ nextRv' >= nextRv
  /\ \A n \in Names :
       \/ secrets'[n] = secrets[n]
       \/ secrets'[n] = NoObject /\ nextRv' > nextRv
       \/ secrets'[n].rv = nextRv /\ nextRv' > nextRv

(***************************************************************************)
(* The state of the pods other than p is untouched by a step of p.         *)
(***************************************************************************)
OthersKept(p) ==
  \A q \in Pods \ {p} : pc'[q] = pc[q] /\ idx'[q] = idx[q] /\ copy'[q] = copy[q]

(***************************************************************************)
(* Create stores one Secret, where there was none, under the next version. *)
(***************************************************************************)
LEMMA CreateIsFresh ==
  ASSUME SafeCopies, NEW p \in Pods, StoreCreated(p)
  PROVE  FreshWrites
<1>1. Current(p).name \in Names
  BY CurrentRequest DEF SafeCopies
<1>2. nextRv \in Nat /\ secrets \in [Names -> Object]
  BY DEF SafeCopies, TypeOK
<1>3. Created(Ours, nextRv) \in Object /\ Created(Ours, nextRv).rv = nextRv
  BY <1>2, CreatedObject DEF Owners
<1> QED BY <1>1, <1>2, <1>3 DEF StoreCreated, FreshWrites

(***************************************************************************)
(* An accepted Update stores one Secret under the next version, or nothing *)
(* new.                                                                    *)
(***************************************************************************)
LEMMA UpdateIsFresh ==
  ASSUME SafeCopies, NEW p \in Pods, StoreUpdated(p)
  PROVE  FreshWrites
<1>1. Current(p).name \in Names
  BY CurrentRequest DEF SafeCopies
<1>2. nextRv \in Nat /\ secrets \in [Names -> Object] /\ copy[p] \in Object
  BY DEF SafeCopies, TypeOK
<1>3. CASE copy[p] = secrets[Current(p).name]
  BY <1>1, <1>2, <1>3 DEF StoreUpdated, Written, FreshWrites
<1>4. CASE copy[p] # secrets[Current(p).name]
  <2>1. secrets' = [secrets EXCEPT ![Current(p).name] = [copy[p] EXCEPT !.rv = nextRv]]
        /\ nextRv' = nextRv + 1
    BY <1>4, <1>1, <1>2 DEF StoreUpdated, Written
  <2>2. [copy[p] EXCEPT !.rv = nextRv] \in Object
        /\ [copy[p] EXCEPT !.rv = nextRv].rv = nextRv
    BY <1>2 DEF Object
  <2> QED BY <1>1, <1>2, <2>1, <2>2 DEF FreshWrites
<1> QED BY <1>3, <1>4

(***************************************************************************)
(* So does an edit by an administrator, deletions included.                *)
(***************************************************************************)
LEMMA EditIsFresh ==
  ASSUME SafeCopies, NEW n \in Names, Edit(n)
  PROVE  FreshWrites
<1>1. nextRv \in Nat /\ secrets \in [Names -> Object]
  BY DEF SafeCopies, TypeOK
<1>2. ASSUME NEW object \in Object, object = NoObject \/ object.rv = nextRv, EditTo(n, object)
      PROVE  FreshWrites
  BY <1>1, <1>2 DEF EditTo, FreshWrites
<1>3. CASE EditTo(n, NoObject)
  BY <1>2, <1>3, NoObjectTyped
<1>4. ASSUME NEW o \in Owners, EditTo(n, [secrets[n] EXCEPT !.owner = o, !.rv = nextRv])
      PROVE  FreshWrites
  <2>1. [secrets[n] EXCEPT !.owner = o, !.rv = nextRv] \in Object
        /\ [secrets[n] EXCEPT !.owner = o, !.rv = nextRv].rv = nextRv
    BY <1>1 DEF Object
  <2> QED BY <1>2, <1>4, <2>1
<1>5. ASSUME NEW k \in Keys, NEW v \in Values \cup {Unset},
             EditTo(n, [SetKey(secrets[n], k, v) EXCEPT !.rv = nextRv])
      PROVE  FreshWrites
  <2>1. SetKey(secrets[n], k, v) \in Object
    BY <1>1, SetKeySetsKey
  <2>2. [SetKey(secrets[n], k, v) EXCEPT !.rv = nextRv] \in Object
        /\ [SetKey(secrets[n], k, v) EXCEPT !.rv = nextRv].rv = nextRv
    BY <1>1, <2>1 DEF Object
  <2> QED BY <1>2, <1>5, <2>2
<1>6. ASSUME NEW o \in Owners, EditTo(n, Created(o, nextRv))
      PROVE  FreshWrites
  BY <1>1, <1>2, <1>6, CreatedObject
<1> QED BY <1>3, <1>4, <1>5, <1>6 DEF Edit

(***************************************************************************)
(* A fresh write turns every copy of the object it replaces stale, so what *)
(* the other pods have in hand stays safe.                                 *)
(***************************************************************************)
LEMMA FreshWriteKeepsCopy ==
  ASSUME SafeCopies, FreshWrites, NEW q \in Pods,
         pc'[q] = pc[q], idx'[q] = idx[q], copy'[q] = copy[q]
  PROVE  CopyCurrent(q)'
<1>1. Current(q)' = Current(q)
  BY DEF Current
<1>2. Current(q).name \in Names
  BY CurrentRequest DEF SafeCopies
<1>3. copy[q].rv < nextRv /\ CopyCurrent(q)
  BY DEF SafeCopies, VersionsPast
<1>4. copy[q].rv \in Nat /\ nextRv \in Nat
  BY DEF SafeCopies, TypeOK, Object
<1>5. Accepts(secrets'[Current(q).name], copy[q]) =>
        secrets'[Current(q).name] = secrets[Current(q).name]
  BY <1>2, <1>3, <1>4, NoObjectTyped DEF FreshWrites, Accepts, Exists
<1> QED BY <1>1, <1>3, <1>5 DEF CopyCurrent

(***************************************************************************)
(* Fresh writes keep every version in use in the past.                     *)
(***************************************************************************)
LEMMA FreshWriteKeepsVersions ==
  ASSUME SafeCopies, FreshWrites,
         \A p \in Pods : copy'[p].rv < nextRv'
  PROVE  VersionsPast'
<1>1. nextRv \in Nat /\ nextRv' \in Nat /\ \A n \in Names : secrets[n].rv \in Nat /\ secrets[n].rv < nextRv
  BY DEF SafeCopies, VersionsPast, TypeOK, Object, FreshWrites
<1>2. \A n \in Names : secrets'[n].rv < nextRv'
  BY <1>1, NoObjectTyped DEF FreshWrites
<1>3. \A n \in Names : Exists(secrets'[n]) \/ secrets'[n] = NoObject
  BY <1>1 DEF FreshWrites, SafeCopies, VersionsPast, Exists
<1> QED BY <1>2, <1>3 DEF VersionsPast

(***************************************************************************)
(* What a pod prepares from the stored Secret is safe to write.            *)
(***************************************************************************)
LEMMA PrepareIsSafe ==
  ASSUME SafeCopies, NEW p \in Pods, NEW object \in Object,
         object.owner = Ours, Prepare(p, object), idx' = idx,
         secrets'[Current(p).name] = object
  PROVE  /\ copy' \in [Pods -> Object]
         /\ pc' \in [Pods -> {"get", "create", "update", "failed", "done"}]
         /\ copy'[p].rv = object.rv
         /\ OthersKept(p)
         /\ CopyCurrent(p)'
<1>1. Current(p) \in Request /\ Current(p)' = Current(p)
  BY CurrentRequest DEF SafeCopies, Current
<1>2. PICK c \in Completed(object, Current(p)) : copy' = [copy EXCEPT ![p] = c]
  BY DEF Prepare
<1>3. /\ c \in Object
      /\ c.rv = object.rv
      /\ AddsOnly(c, object, Current(p).key)
      /\ c.data[Current(p).key] # Unset
  BY <1>1, <1>2, CompletedAddsOnly
<1>4. /\ copy \in [Pods -> Object]
      /\ pc \in [Pods -> {"get", "create", "update", "failed", "done"}]
      /\ idx \in [Pods -> Nat]
  BY DEF SafeCopies, TypeOK
<1>5. copy'[p] = c /\ copy' \in [Pods -> Object] /\ OthersKept(p)
      /\ pc' \in [Pods -> {"get", "create", "update", "failed", "done"}]
  BY <1>2, <1>3, <1>4 DEF Prepare, OthersKept
<1>6. CopyCurrent(p)'
  BY <1>1, <1>3, <1>5 DEF CopyCurrent
<1> QED BY <1>3, <1>5, <1>6

(***************************************************************************)
(* A pod that drops its copy has nothing unsafe left.                      *)
(***************************************************************************)
LEMMA DroppedCopyIsSafe ==
  ASSUME SafeCopies, NEW p \in Pods,
         copy' = [copy EXCEPT ![p] = NoObject],
         NEW next \in {"get", "failed", "done"},
         pc' = [pc EXCEPT ![p] = next]
  PROVE  /\ copy' \in [Pods -> Object]
         /\ pc' \in [Pods -> {"get", "create", "update", "failed", "done"}]
         /\ copy'[p].rv = 0
         /\ CopyCurrent(p)'
         /\ \A q \in Pods \ {p} : pc'[q] = pc[q] /\ copy'[q] = copy[q]
<1>1. /\ copy \in [Pods -> Object]
      /\ pc \in [Pods -> {"get", "create", "update", "failed", "done"}]
  BY DEF SafeCopies, TypeOK
<1> QED BY <1>1, NoObjectTyped DEF CopyCurrent

(***************************************************************************)
(* A step of one pod whose write, if any, is fresh and whose own copy is   *)
(* safe afterwards preserves the invariant.                                *)
(***************************************************************************)
LEMMA PodStepPreserves ==
  ASSUME SafeCopies, NEW p \in Pods, FreshWrites, TypeOK', OthersKept(p),
         copy'[p].rv < nextRv', CopyCurrent(p)'
  PROVE  SafeCopies'
<1>1. \A q \in Pods : copy'[q].rv < nextRv'
  <2>1. \A q \in Pods : copy[q].rv \in Nat /\ copy[q].rv < nextRv
    BY DEF SafeCopies, VersionsPast, TypeOK, Object
  <2>2. nextRv \in Nat /\ nextRv' \in Nat /\ nextRv' >= nextRv
    BY DEF SafeCopies, TypeOK, FreshWrites
  <2> QED BY <2>1, <2>2 DEF OthersKept
<1>2. VersionsPast'
  BY <1>1, FreshWriteKeepsVersions
<1>3. \A q \in Pods : CopyCurrent(q)'
  BY FreshWriteKeepsCopy DEF OthersKept
<1> QED BY <1>2, <1>3 DEF SafeCopies

-----------------------------------------------------------------------------

(***************************************************************************)
(* Before any pod has read anything the invariant holds.                   *)
(***************************************************************************)
LEMMA InitIsSafe == Init => SafeCopies
<1> SUFFICES ASSUME Init PROVE SafeCopies
  OBVIOUS
<1>1. /\ secrets \in [Names -> Object]
      /\ \A n \in Names : secrets[n].rv < nextRv /\ (Exists(secrets[n]) \/ secrets[n] = NoObject)
  BY NoObjectTyped DEF Init, Object, Exists
<1>2. \A p \in Pods : Len(Requests[p]) \in Nat /\ Len(Requests[p]) >= 1
  BY ConstantsAssumption
<1>3. TypeOK
  BY <1>1, <1>2, NoObjectTyped, ConstantsAssumption DEF Init, TypeOK
<1>4. VersionsPast
  BY <1>1, NoObjectTyped DEF Init, VersionsPast
<1> QED BY <1>3, <1>4 DEF Init, SafeCopies, CopyCurrent

(***************************************************************************)
(* The steps of a pod, one lemma for each group that changes the same      *)
(* things.                                                                 *)
(***************************************************************************)
LEMMA FaultTyped ==
  ASSUME SafeCopies, Fault
  PROVE  faults' \in 0..MaxFaults
BY ConstantsAssumption DEF Fault, SafeCopies, TypeOK

(***************************************************************************)
(* A pod that gives up after a fresh write, or none, leaves no copy        *)
(* behind.                                                                 *)
(***************************************************************************)
LEMMA FailPreserves ==
  ASSUME SafeCopies, NEW p \in Pods, FreshWrites, Fail(p),
         faults' \in 0..MaxFaults, edits' = edits
  PROVE  SafeCopies'
<1>1. /\ copy' \in [Pods -> Object]
      /\ pc' \in [Pods -> {"get", "create", "update", "failed", "done"}]
      /\ copy'[p].rv = 0
      /\ CopyCurrent(p)'
      /\ \A q \in Pods \ {p} : pc'[q] = pc[q] /\ copy'[q] = copy[q]
  BY DroppedCopyIsSafe DEF Fail
<1>2. OthersKept(p)
  BY <1>1 DEF Fail, OthersKept
<1>3. TypeOK'
  BY <1>1 DEF Fail, FreshWrites, SafeCopies, TypeOK
<1>4. copy'[p].rv < nextRv'
  <2>1. PICK n \in Names : n = Current(p).name
    BY CurrentRequest DEF SafeCopies
  <2>2. secrets[n].rv \in Nat /\ secrets[n].rv < nextRv /\ nextRv \in Nat
    BY DEF SafeCopies, VersionsPast, TypeOK, Object
  <2> QED BY <1>1, <2>2 DEF FreshWrites
<1> QED BY <1>1, <1>2, <1>3, <1>4, PodStepPreserves

(***************************************************************************)
(* A step that stores nothing is a fresh write of nothing.                 *)
(***************************************************************************)
LEMMA UnchangedIsFresh ==
  ASSUME SafeCopies, UNCHANGED <<secrets, nextRv>>
  PROVE  FreshWrites
BY DEF SafeCopies, TypeOK, FreshWrites

(***************************************************************************)
(* The copy made from a Secret of ours is safe.                            *)
(***************************************************************************)
LEMMA GetFoundPreserves ==
  ASSUME SafeCopies, NEW p \in Pods, GetFound(p)
  PROVE  SafeCopies'
<1> DEFINE object == secrets[Current(p).name]
<1>1. Current(p).name \in Names
  BY CurrentRequest DEF SafeCopies
<1>2. object \in Object /\ object.owner = Ours /\ object.rv < nextRv
  BY <1>1 DEF SafeCopies, TypeOK, VersionsPast, GetFound
<1>3. /\ Prepare(p, object)
      /\ idx' = idx /\ secrets' = secrets /\ nextRv' = nextRv
      /\ runs' = runs /\ faults' = faults /\ edits' = edits
  BY DEF GetFound
<1>4. /\ copy' \in [Pods -> Object]
      /\ pc' \in [Pods -> {"get", "create", "update", "failed", "done"}]
      /\ copy'[p].rv = object.rv
      /\ OthersKept(p)
      /\ CopyCurrent(p)'
  BY <1>2, <1>3, PrepareIsSafe
<1>5. TypeOK'
  BY <1>3, <1>4 DEF SafeCopies, TypeOK
<1>6. FreshWrites
  BY <1>3, UnchangedIsFresh
<1> QED BY <1>2, <1>3, <1>4, <1>5, <1>6, PodStepPreserves

(***************************************************************************)
(* The copy made from the Secret just created is safe.                     *)
(***************************************************************************)
LEMMA CreatePreserves ==
  ASSUME SafeCopies, NEW p \in Pods, Create(p)
  PROVE  SafeCopies'
<1> DEFINE object == Created(Ours, nextRv)
<1>1. Current(p).name \in Names /\ secrets \in [Names -> Object] /\ nextRv \in Nat
  BY CurrentRequest DEF SafeCopies, TypeOK
<1>2. object \in Object /\ object.owner = Ours /\ object.rv = nextRv
  BY <1>1, CreatedObject DEF Owners
<1>3. /\ Prepare(p, object)
      /\ idx' = idx /\ runs' = runs /\ faults' = faults /\ edits' = edits
      /\ StoreCreated(p)
  BY DEF Create
<1>4. secrets'[Current(p).name] = object /\ nextRv' = nextRv + 1
  BY <1>1, <1>3 DEF StoreCreated
<1>5. /\ copy' \in [Pods -> Object]
      /\ pc' \in [Pods -> {"get", "create", "update", "failed", "done"}]
      /\ copy'[p].rv = object.rv
      /\ OthersKept(p)
      /\ CopyCurrent(p)'
  BY <1>2, <1>3, <1>4, PrepareIsSafe
<1>6. FreshWrites
  BY <1>3, CreateIsFresh
<1>7. TypeOK'
  BY <1>3, <1>5, <1>6 DEF SafeCopies, TypeOK, FreshWrites
<1> QED BY <1>1, <1>2, <1>4, <1>5, <1>6, <1>7, PodStepPreserves

(***************************************************************************)
(* After its Update a pod has no copy and goes on to its next request.     *)
(***************************************************************************)
LEMMA UpdatePreserves ==
  ASSUME SafeCopies, NEW p \in Pods, Update(p)
  PROVE  SafeCopies'
<1>1. FreshWrites
  BY UpdateIsFresh DEF Update
<1>2. PICK next \in {"get", "done"} :
        /\ pc' = [pc EXCEPT ![p] = next]
        /\ copy' = [copy EXCEPT ![p] = NoObject]
        /\ \/ idx' = idx
           \/ idx[p] < Len(Requests[p]) /\ idx' = [idx EXCEPT ![p] = @ + 1]
  BY DEF Update, NextRequest
<1>3. /\ copy' \in [Pods -> Object]
      /\ pc' \in [Pods -> {"get", "create", "update", "failed", "done"}]
      /\ copy'[p].rv = 0
      /\ CopyCurrent(p)'
      /\ \A q \in Pods \ {p} : pc'[q] = pc[q] /\ copy'[q] = copy[q]
  BY <1>2, DroppedCopyIsSafe
<1>4. /\ idx' \in [Pods -> Nat]
      /\ \A q \in Pods : idx'[q] \in 1..Len(Requests[q])
      /\ \A q \in Pods \ {p} : idx'[q] = idx[q]
  <2>1. idx \in [Pods -> Nat] /\ \A q \in Pods : idx[q] \in 1..Len(Requests[q])
    BY DEF SafeCopies, TypeOK
  <2>2. \A q \in Pods : Len(Requests[q]) \in Nat
    BY ConstantsAssumption
  <2> QED BY <1>2, <2>1, <2>2
<1>5. TypeOK'
  BY <1>1, <1>3, <1>4 DEF Update, FreshWrites, SafeCopies, TypeOK
<1>6. OthersKept(p)
  BY <1>3, <1>4 DEF OthersKept
<1>7. copy'[p].rv < nextRv'
  <2>1. copy[p].rv \in Nat /\ copy[p].rv < nextRv /\ nextRv \in Nat
    BY DEF SafeCopies, VersionsPast, TypeOK, Object
  <2> QED BY <1>1, <1>3, <2>1 DEF FreshWrites
<1> QED BY <1>1, <1>3, <1>5, <1>6, <1>7, PodStepPreserves

(***************************************************************************)
(* Moving on to Create, or starting over, leaves every copy as it is.      *)
(***************************************************************************)
LEMMA MovePreserves ==
  ASSUME SafeCopies, NEW p \in Pods,
         GetMissing(p) \/ GetError(p) \/ Restart(p)
  PROVE  SafeCopies'
<1>1. secrets' = secrets /\ nextRv' = nextRv /\ copy' = copy /\ edits' = edits
  BY DEF GetMissing, GetError, Restart
<1>2. FreshWrites
  BY <1>1, UnchangedIsFresh
<1>3. PICK next \in {"create", "get"} : pc' = [pc EXCEPT ![p] = next]
  BY DEF GetMissing, GetError, Restart
<1>4. \/ idx' = idx /\ runs' = runs
      \/ idx' = [idx EXCEPT ![p] = 1] /\ runs' = [runs EXCEPT ![p] = @ + 1] /\ runs[p] < BackoffLimit
  BY DEF GetMissing, GetError, Restart
<1>5. faults' \in 0..MaxFaults
  BY FaultTyped DEF GetMissing, GetError, Restart, SafeCopies, TypeOK
<1>6. TypeOK'
  <2>1. runs' \in [Pods -> 0..BackoffLimit]
    BY <1>4, ConstantsAssumption DEF SafeCopies, TypeOK
  <2>2. idx' \in [Pods -> Nat] /\ \A q \in Pods : idx'[q] \in 1..Len(Requests[q])
    <3>1. \A q \in Pods : Len(Requests[q]) \in Nat /\ Len(Requests[q]) >= 1
      BY ConstantsAssumption
    <3>2. idx \in [Pods -> Nat] /\ \A q \in Pods : idx[q] \in 1..Len(Requests[q])
      BY DEF SafeCopies, TypeOK
    <3>3. CASE idx' = idx
      BY <3>2, <3>3
    <3>4. CASE idx' = [idx EXCEPT ![p] = 1]
      <4>1. \A q \in Pods : idx'[q] = IF q = p THEN 1 ELSE idx[q]
        BY <3>2, <3>4
      <4> QED BY <3>1, <3>2, <3>4, <4>1
    <3> QED BY <1>4, <3>3, <3>4
  <2> QED BY <1>1, <1>3, <1>5, <2>1, <2>2 DEF SafeCopies, TypeOK
<1>7. OthersKept(p) /\ pc'[p] # "update" /\ copy'[p] = copy[p]
  BY <1>1, <1>3, <1>4 DEF OthersKept, SafeCopies, TypeOK
<1>8. copy'[p].rv < nextRv' /\ CopyCurrent(p)'
  BY <1>1, <1>7 DEF CopyCurrent, SafeCopies, VersionsPast
<1> QED BY <1>2, <1>6, <1>7, <1>8, PodStepPreserves

(***************************************************************************)
(* An edit turns every copy of the Secret stale, so all stay safe.         *)
(***************************************************************************)
LEMMA EditPreserves ==
  ASSUME SafeCopies, NEW n \in Names, Edit(n)
  PROVE  SafeCopies'
<1>1. FreshWrites
  BY EditIsFresh
<1>2. /\ pc' = pc /\ idx' = idx /\ copy' = copy /\ runs' = runs /\ faults' = faults
      /\ edits < MaxEdits /\ edits' = edits + 1
  BY DEF Edit, EditTo, podVars
<1>3. TypeOK'
  BY <1>1, <1>2, ConstantsAssumption DEF FreshWrites, SafeCopies, TypeOK
<1>4. \A p \in Pods : copy'[p].rv < nextRv'
  <2>1. \A p \in Pods : copy[p].rv \in Nat /\ copy[p].rv < nextRv
    BY DEF SafeCopies, VersionsPast, TypeOK, Object
  <2>2. nextRv \in Nat /\ nextRv' \in Nat /\ nextRv' >= nextRv
    BY <1>1 DEF SafeCopies, TypeOK, FreshWrites
  <2> QED BY <1>2, <2>1, <2>2
<1>5. VersionsPast'
  BY <1>1, <1>4, FreshWriteKeepsVersions
<1>6. \A p \in Pods : CopyCurrent(p)'
  BY <1>1, <1>2, FreshWriteKeepsCopy
<1> QED BY <1>3, <1>5, <1>6 DEF SafeCopies

(***************************************************************************)
(* The invariant depends on nothing but the variables.                     *)
(***************************************************************************)
LEMMA StutterPreserves == SafeCopies /\ UNCHANGED vars => SafeCopies'
BY DEF SafeCopies, TypeOK, VersionsPast, CopyCurrent, Current, vars

(***************************************************************************)
(* The invariant is inductive: one case for each action.                   *)
(***************************************************************************)
LEMMA NextPreserves == SafeCopies /\ [Next]_vars => SafeCopies'
<1> SUFFICES ASSUME SafeCopies, [Next]_vars PROVE SafeCopies'
  OBVIOUS
<1>1. ASSUME NEW p \in Pods, PodStep(p) PROVE SafeCopies'
  <2>1. CASE GetFound(p)
    BY <2>1, GetFoundPreserves
  <2>2. CASE GetMissing(p) \/ GetError(p) \/ Restart(p)
    BY <2>2, MovePreserves
  <2>3. CASE Create(p)
    BY <2>3, CreatePreserves
  <2>4. CASE Update(p)
    BY <2>4, UpdatePreserves
  <2>5. CASE GetForeign(p) \/ CreateConflict(p) \/ UpdateConflict(p)
    <3>1. Fail(p) /\ UNCHANGED <<secrets, nextRv>> /\ faults' = faults /\ edits' = edits
      BY <2>5 DEF GetForeign, CreateConflict, UpdateConflict
    <3>2. faults' \in 0..MaxFaults
      BY <3>1 DEF SafeCopies, TypeOK
    <3> QED BY <3>1, <3>2, UnchangedIsFresh, FailPreserves
  <2>6. CASE LostResponse(p)
    <3>1. FreshWrites
      BY <2>6, CreateIsFresh, UpdateIsFresh DEF LostResponse
    <3> QED BY <2>6, <3>1, FaultTyped, FailPreserves DEF LostResponse
  <2>7. CASE Killed(p)
    BY <2>7, UnchangedIsFresh, FaultTyped, FailPreserves DEF Killed
  <2> QED BY <1>1, <2>1, <2>2, <2>3, <2>4, <2>5, <2>6, <2>7 DEF PodStep, Progress
<1>2. ASSUME NEW n \in Names, Edit(n) PROVE SafeCopies'
  BY <1>2, EditPreserves
<1>3. CASE Terminating
  BY <1>3, StutterPreserves DEF Terminating
<1>4. CASE UNCHANGED vars
  BY <1>4, StutterPreserves
<1> QED BY <1>1, <1>2, <1>3, <1>4 DEF Next

(***************************************************************************)
(* The inductive invariant: whatever a pod is about to write is either     *)
(* refused as stale or adds one key to what is stored.                     *)
(***************************************************************************)
THEOREM CopiesAreSafe == Spec => []SafeCopies
BY InitIsSafe, NextPreserves, PTL DEF Spec

(***************************************************************************)
(* Type correctness.                                                       *)
(***************************************************************************)
THEOREM TypeCorrect == Spec => []TypeOK
<1>1. SafeCopies => TypeOK
  BY DEF SafeCopies
<1> QED BY <1>1, CopiesAreSafe, PTL

-----------------------------------------------------------------------------

(***************************************************************************)
(* What a step of a pod may do to the Secrets: make the missing one it was *)
(* asked about, empty, or add the requested key to one of its own.         *)
(***************************************************************************)
AddsCurrentKey(p) ==
  LET n == Current(p).name
      key == Current(p).key
  IN  /\ pc[p] = "update" /\ pc'[p] # "update"
      /\ secrets[n].owner = Ours
      /\ \A k \in Keys : (k # key \/ secrets[n].data[k] # Unset) =>
                          secrets'[n].data[k] = secrets[n].data[k]
      /\ secrets'[n].data[key] \in Values

(***************************************************************************)
(* All that a step of a pod does to the Secrets: it leaves each as it is,  *)
(* creates one without data, or adds the key it is working on to one of    *)
(* ours.                                                                   *)
(***************************************************************************)
LEMMA PodStepEffect ==
  ASSUME SafeCopies, NEW p \in Pods, PodStep(p)
  PROVE  /\ edits' = edits
         /\ \A m \in Names : \/ secrets'[m] = secrets[m]
                             \/ /\ ~Exists(secrets[m])
                                /\ secrets'[m].data = secrets[m].data
                             \/ m = Current(p).name /\ AddsCurrentKey(p)
<1> DEFINE n == Current(p).name
           key == Current(p).key
<1>1. n \in Names /\ key \in Keys
  BY CurrentRequest DEF SafeCopies
<1>2. secrets \in [Names -> Object] /\ copy[p] \in Object /\ pc \in [Pods -> {"get", "create", "update", "failed", "done"}]
  BY DEF SafeCopies, TypeOK
<1>3. edits' = edits
  BY DEF PodStep, Progress, GetFound, GetForeign, GetMissing, Create, CreateConflict,
         Update, UpdateConflict, Restart, GetError, LostResponse, Killed
<1>4. CASE StoreCreated(p)
  <2>1. secrets[n] = NoObject /\ ~Exists(secrets[n])
    BY <1>1, <1>4 DEF StoreCreated, SafeCopies, VersionsPast
  <2>2. secrets' = [secrets EXCEPT ![n] = Created(Ours, nextRv)]
    BY <1>4 DEF StoreCreated
  <2>3. Created(Ours, nextRv).data = NoObject.data
    BY DEF Created, NoObject
  <2> QED BY <1>1, <1>2, <1>3, <2>1, <2>2, <2>3
<1>5. CASE pc[p] = "update" /\ StoreUpdated(p) /\ pc'[p] # "update"
  <2>1. AddsOnly(copy[p], secrets[n], key) /\ copy[p].data[key] # Unset
    BY <1>5 DEF SafeCopies, CopyCurrent, StoreUpdated
  <2>2. \A m \in Names \ {n} : secrets'[m] = secrets[m]
    BY <1>1, <1>2, <1>5 DEF StoreUpdated
  <2>3. secrets'[n].data = copy[p].data
    BY <1>1, <1>2, <1>5 DEF StoreUpdated, Written, Object
  <2>4. copy[p].data[key] \in Values
    BY <1>1, <1>2, <2>1 DEF Object, Data
  <2>5. AddsCurrentKey(p)
    BY <1>5, <2>1, <2>3, <2>4 DEF AddsCurrentKey, AddsOnly
  <2> QED BY <1>3, <2>2, <2>5
<1>6. CASE Update(p)
  <2>1. pc'[p] # "update"
    BY <1>2, <1>6 DEF Update, NextRequest
  <2> QED BY <1>5, <1>6, <2>1 DEF Update
<1>7. CASE LostResponse(p)
  <2>1. pc'[p] # "update"
    BY <1>2, <1>7 DEF LostResponse, Fail
  <2> QED BY <1>4, <1>5, <1>7, <2>1 DEF LostResponse
<1>8. CASE Create(p)
  BY <1>4, <1>8 DEF Create
<1>9. CASE \/ GetFound(p) \/ GetForeign(p) \/ GetMissing(p) \/ CreateConflict(p)
           \/ UpdateConflict(p) \/ Restart(p) \/ GetError(p) \/ Killed(p)
  <2>1. secrets' = secrets
    BY <1>9 DEF GetFound, GetForeign, GetMissing, CreateConflict, UpdateConflict,
                Restart, GetError, Killed
  <2> QED BY <1>3, <2>1
<1> QED BY <1>6, <1>7, <1>8, <1>9 DEF PodStep, Progress

(***************************************************************************)
(* A step that is not an edit is a step of a pod or leaves the Secrets     *)
(* alone.                                                                  *)
(***************************************************************************)
LEMMA StepKinds ==
  ASSUME SafeCopies, [Next]_vars
  PROVE  \/ \E p \in Pods : PodStep(p)
         \/ UNCHANGED <<secrets, edits>>
         \/ edits' = edits + 1 /\ edits' # edits /\ secrets' \in [Names -> Object]
<1>1. ASSUME NEW n \in Names, Edit(n)
      PROVE  edits' = edits + 1 /\ edits' # edits /\ secrets' \in [Names -> Object]
  <2>1. edits' = edits + 1
    BY <1>1 DEF Edit, EditTo
  <2>2. edits \in Nat
    BY ConstantsAssumption DEF SafeCopies, TypeOK
  <2> QED BY <1>1, <2>1, <2>2, EditIsFresh DEF FreshWrites
<1> QED BY <1>1 DEF Next, Terminating, vars

(***************************************************************************)
(* No lost update, for any number of pods, faults and edits.               *)
(***************************************************************************)
THEOREM UpdatesAreKept == Spec => NoLostUpdate
<1> DEFINE Step == \A n \in Names, k \in Keys :
       edits' = edits /\ secrets'[n].data[k] # secrets[n].data[k] =>
         /\ secrets[n].data[k] = Unset
         /\ \E p \in Pods : /\ pc[p] = "update" /\ pc'[p] # "update"
                            /\ Current(p).name = n /\ Current(p).key = k
<1>1. SafeCopies /\ [Next]_vars => [Step]_vars
  <2> SUFFICES ASSUME SafeCopies, [Next]_vars, NEW n \in Names, NEW k \in Keys,
                      edits' = edits, secrets'[n].data[k] # secrets[n].data[k]
               PROVE  /\ secrets[n].data[k] = Unset
                      /\ \E p \in Pods : /\ pc[p] = "update" /\ pc'[p] # "update"
                                         /\ Current(p).name = n /\ Current(p).key = k
    OBVIOUS
  <2>1. PICK p \in Pods : PodStep(p)
    BY StepKinds
  <2>2. n = Current(p).name /\ AddsCurrentKey(p)
    BY <2>1, PodStepEffect
  <2> QED BY <2>2 DEF AddsCurrentKey
<1>2. SafeCopies /\ SafeCopies' /\ [Next]_vars => [Step]_vars
  BY <1>1
<1> QED BY <1>1, CopiesAreSafe, PTL DEF Spec, NoLostUpdate

(***************************************************************************)
(* A Secret that belongs to somebody else is never written.                *)
(***************************************************************************)
THEOREM ForeignIsUntouched == Spec => ForeignUntouched
<1> DEFINE Step == edits' = edits =>
       \A n \in Names :
         Exists(secrets[n]) /\ secrets[n].owner # Ours =>
           secrets'[n] = secrets[n]
<1>1. SafeCopies /\ [Next]_vars => [Step]_vars
  <2> SUFFICES ASSUME SafeCopies, [Next]_vars, NEW n \in Names, edits' = edits,
                      Exists(secrets[n]), secrets[n].owner # Ours
               PROVE  secrets'[n] = secrets[n]
    OBVIOUS
  <2>1. CASE \E p \in Pods : PodStep(p)
    BY <2>1, PodStepEffect DEF AddsCurrentKey
  <2> QED BY <2>1, StepKinds
<1> QED BY <1>1, CopiesAreSafe, PTL DEF Spec, ForeignUntouched

-----------------------------------------------------------------------------

(***************************************************************************)
(* The job implements the write-once promise.                              *)
(***************************************************************************)
LEMMA CurrentIsRequested ==
  ASSUME SafeCopies, NEW p \in Pods
  PROVE  <<Current(p).name, Current(p).key>> \in RequestedCells
<1>1. idx[p] \in DOMAIN Requests[p]
  BY ConstantsAssumption DEF SafeCopies, TypeOK
<1>2. Current(p) \in UNION {{Requests[q][i] : i \in DOMAIN Requests[q]} : q \in Pods}
  BY <1>1 DEF Current
<1> QED BY <1>2 DEF RequestedCells

(***************************************************************************)
(* The cells of the promise hold values or nothing.                        *)
(***************************************************************************)
LEMMA CellsTyped ==
  ASSUME secrets \in [Names -> Object]
  PROVE  [c \in Cells |-> secrets[c[1]].data[c[2]]] \in [Cells -> Values \cup {Unset}]
BY DEF Cells, Object, Data

(***************************************************************************)
(* Every step is a step of the promise or a stutter: a pod chooses the     *)
(* value of one requested cell, an edit is an override.                    *)
(***************************************************************************)
LEMMA StepKeepsPromise ==
  ASSUME SafeCopies, [Next]_vars
  PROVE  [Promise!Next]_(Promise!vars)
<1> DEFINE value == [c \in Cells |-> secrets[c[1]].data[c[2]]]
<1>1. secrets \in [Names -> Object] /\ secrets' \in [Names -> Object]
  BY NextPreserves DEF SafeCopies, TypeOK
<1>2. CASE edits' = edits + 1 /\ edits' # edits
  BY <1>1, <1>2, CellsTyped DEF Promise!Next, Promise!Override, Cells, Object, Data
<1>3. CASE UNCHANGED <<secrets, edits>>
  BY <1>3 DEF Promise!vars
<1>4. ASSUME NEW p \in Pods, PodStep(p)
      PROVE  [Promise!Next]_(Promise!vars)
  <2> DEFINE n == Current(p).name
             key == Current(p).key
  <2>1. n \in Names /\ key \in Keys
    BY CurrentRequest DEF SafeCopies
  <2>2. edits' = edits
    BY <1>4, PodStepEffect
  <2>3. CASE \A m \in Names : secrets'[m].data = secrets[m].data
    <3>1. value' = value
      BY <2>3 DEF Cells
    <3> QED BY <2>2, <3>1 DEF Promise!vars
  <2>4. CASE /\ AddsCurrentKey(p)
             /\ \A m \in Names \ {n} : secrets'[m].data = secrets[m].data
    <3>1. CASE secrets[n].data[key] = Unset
      <4>1. PICK v \in Values : v = secrets'[n].data[key]
        BY <2>4 DEF AddsCurrentKey
      <4>2. \A c \in Cells : secrets'[c[1]].data[c[2]] =
              IF c = <<n, key>> THEN v ELSE secrets[c[1]].data[c[2]]
        BY <2>1, <2>4, <4>1 DEF AddsCurrentKey, Cells
      <4>3. value' = [value EXCEPT ![<<n, key>>] = v]
        BY <2>1, <4>2 DEF Cells
      <4>4. value[<<n, key>>] = Unset
        BY <2>1, <3>1 DEF Cells
      <4> QED BY <2>2, <4>3, <4>4, CurrentIsRequested DEF Promise!Next, Promise!Choose
    <3>2. CASE secrets[n].data[key] # Unset
      <4>1. \A k \in Keys : secrets'[n].data[k] = secrets[n].data[k]
        BY <2>4, <3>2 DEF AddsCurrentKey
      <4>2. value' = value
        BY <2>4, <4>1 DEF Cells
      <4> QED BY <2>2, <4>2 DEF Promise!vars
    <3> QED BY <3>1, <3>2
  <2>5. \A m \in Names : secrets'[m].data = secrets[m].data \/ (m = n /\ AddsCurrentKey(p))
    BY <1>4, PodStepEffect
  <2> QED BY <2>3, <2>4, <2>5
<1> QED BY <1>2, <1>3, <1>4, StepKinds

(***************************************************************************)
(* The job implements its abstract promise (secret.go GenerateSecret): a   *)
(* generated value is chosen once, whatever the interleaving, and only an  *)
(* edit changes it afterwards.                                             *)
(***************************************************************************)
THEOREM PromiseKept == Spec => ImplementsWriteOnce
<1>1. Init => Promise!Init
  BY InitIsSafe, CellsTyped DEF Init, Promise!Init, SafeCopies, TypeOK
<1>2. SafeCopies /\ [Next]_vars => [Promise!Next]_(Promise!vars)
  BY StepKeepsPromise
<1> QED BY <1>1, <1>2, CopiesAreSafe, PTL DEF Spec, ImplementsWriteOnce, Promise!Spec

-----------------------------------------------------------------------------

(***************************************************************************)
(* Success means success: as long as nobody edits the Secrets, every       *)
(* request a pod has got through is present.                               *)
(***************************************************************************)
Present(p, i) == secrets[Requests[p][i].name].data[Requests[p][i].key] # Unset

(***************************************************************************)
(* No step of a pod takes away a key that is there.                        *)
(***************************************************************************)
LEMMA PresentStays ==
  ASSUME SafeCopies, NEW p \in Pods, PodStep(p),
         NEW q \in Pods, NEW i \in 1..Len(Requests[q]), Present(q, i)
  PROVE  Present(q, i)'
<1>1. Requests[q][i] \in Request
  BY ConstantsAssumption
<1>2. Requests[q][i].name \in Names /\ Requests[q][i].key \in Keys
  BY <1>1 DEF Request
<1> QED BY <1>2, PodStepEffect DEF Present, AddsCurrentKey

(***************************************************************************)
(* What a pod has achieved after a step it had achieved before, or the     *)
(* step has just found or stored.                                          *)
(***************************************************************************)
LEMMA AchievedByStep ==
  ASSUME SafeCopies, NEW p \in Pods, PodStep(p),
         NEW q \in Pods, NEW i \in 1..Achieved(q)'
  PROVE  /\ i \in 1..Len(Requests[q])
         /\ i \in 1..Achieved(q) \/ Present(q, i)'
<1>1. /\ idx \in [Pods -> Nat]
      /\ \A r \in Pods : idx[r] \in 1..Len(Requests[r])
      /\ pc \in [Pods -> {"get", "create", "update", "failed", "done"}]
      /\ \A r \in Pods : Len(Requests[r]) \in Nat
  BY ConstantsAssumption DEF SafeCopies, TypeOK
<1>2. /\ idx' \in [Pods -> Nat]
      /\ \A r \in Pods : idx'[r] \in 1..Len(Requests[r])
  BY NextPreserves DEF SafeCopies, TypeOK, Next
<1>3. i \in 1..Len(Requests[q])
  BY <1>1, <1>2 DEF Achieved
<1>4. CASE Update(p) /\ q = p
  <2>1. i \in 1..Achieved(q) \/ i = idx[p]
    BY <1>1, <1>2, <1>4 DEF Update, NextRequest, Achieved
  <2>2. CASE i = idx[p]
    <3>1. copy[p].data[Current(p).key] # Unset /\ Current(p).name \in Names
      BY <1>4, CurrentRequest DEF SafeCopies, CopyCurrent, Update
    <3>2. secrets \in [Names -> Object] /\ copy[p] \in Object
      BY DEF SafeCopies, TypeOK
    <3>3. secrets'[Current(p).name].data = copy[p].data
      BY <1>4, <3>1, <3>2 DEF Update, StoreUpdated, Written, Object
    <3> QED BY <1>3, <1>4, <2>2, <3>1, <3>3 DEF Present, Current
  <2> QED BY <1>3, <2>1, <2>2
<1>5. CASE Restart(p) /\ q = p
  BY <1>1, <1>5 DEF Restart, Achieved
<1>6. CASE ~(q = p /\ (Update(p) \/ Restart(p)))
  <2>1. idx'[q] = idx[q] /\ (pc'[q] = "done" <=> pc[q] = "done")
    BY <1>1, <1>6 DEF PodStep, Progress, GetFound, GetForeign, GetMissing, Create,
       CreateConflict, UpdateConflict, GetError, LostResponse, Killed, Prepare, Fail,
       Update, NextRequest, Restart
  <2> QED BY <1>3, <2>1 DEF Achieved
<1> QED BY <1>4, <1>5, <1>6

(***************************************************************************)
(* A pod that ends with success has every key it was asked for in place,   *)
(* as long as nobody edits a Secret (cmd.go Run).                          *)
(***************************************************************************)
THEOREM SuccessIsReal == Spec => []DoneMeansPresent
<1>1. Init => DoneMeansPresent
  BY DEF Init, DoneMeansPresent, Achieved
<1>2. SafeCopies /\ DoneMeansPresent /\ [Next]_vars => DoneMeansPresent'
  <2> SUFFICES ASSUME SafeCopies, DoneMeansPresent, [Next]_vars, edits' = 0,
                      NEW q \in Pods, NEW i \in 1..Achieved(q)'
               PROVE  Present(q, i)'
    BY DEF DoneMeansPresent, Present
  <2>1. CASE \E p \in Pods : PodStep(p)
    <3>1. PICK p \in Pods : PodStep(p)
      BY <2>1
    <3>2. edits = 0
      BY <3>1, PodStepEffect
    <3>3. i \in 1..Achieved(q) => Present(q, i)
      BY <3>2 DEF DoneMeansPresent, Present
    <3> QED BY <3>1, <3>3, PresentStays, AchievedByStep
  <2>2. CASE UNCHANGED vars
    BY <2>2 DEF DoneMeansPresent, Present, Achieved, vars
  <2>3. CASE \E n \in Names : Edit(n)
    <3>1. edits' = edits + 1
      BY <2>3 DEF Edit, EditTo
    <3>2. edits \in Nat
      BY ConstantsAssumption DEF SafeCopies, TypeOK
    <3> QED BY <3>1, <3>2
  <2> QED BY <2>1, <2>2, <2>3 DEF Next, Terminating
<1> QED BY <1>1, <1>2, CopiesAreSafe, PTL DEF Spec
=============================================================================
