----------------------- MODULE DeploymentMarkersProofs -----------------------
(***************************************************************************)
(* For any number of operations, restarts and faults, in any order of the  *)
(* jobs: the marker is written by post steps only, and the exit status of  *)
(* a pod is true at the moment the pod ends.                               *)
(***************************************************************************)
EXTENDS DeploymentMarkers, TLAPS

(***************************************************************************)
(* Pods belong to operations that have been started.                       *)
(***************************************************************************)
StartedFirst == \A p \in Pods : mode[p[1]] = "none" => pc[p] = "absent"

(***************************************************************************)
(* Every version in use is in the past.                                    *)
(***************************************************************************)
VersionsPast == configMap.rv < nextRv /\ \A p \in Pods : copy[p].rv < nextRv

(***************************************************************************)
(* What a pod is about to write has passed its check, and if it is not     *)
(* refused as stale it is the ConfigMap as it is stored, marked by a post  *)
(* step.                                                                   *)
(***************************************************************************)
CopyCurrent(p) ==
  pc[p] = "update" =>
    /\ Passes(p, copy[p])
    /\ Accepts(configMap, copy[p]) => copy[p] = Marked(p, configMap)

MarkersInv ==
  /\ TypeOK
  /\ StartedFirst
  /\ VersionsPast
  /\ Exists(configMap) \/ configMap = NoObject
  /\ \A p \in Pods : CopyCurrent(p)

-----------------------------------------------------------------------------

(***************************************************************************)
(* The operators on objects.                                               *)
(***************************************************************************)
LEMMA ModesHaveValues ==
  ASSUME NEW m \in Modes
  PROVE  NewValue[m] \in MarkerValues /\ AllowedValues[m] \subseteq MarkerValues
  BY DEF Modes, NewValue, AllowedValues, MarkerValues

LEMMA PodIsPair ==
  ASSUME NEW p \in Pods
  PROVE  p[1] \in Operations /\ p[2] \in {"pre", "post"} /\ p = <<p[1], p[2]>>
  BY DEF Pods

LEMMA NoObjectTyped ==
  NoObject \in Object /\ NoObject.rv = 0 /\ NoObject.data[MarkerKey] = Unset
  BY MarkersAssumption DEF NoObject, Blank, Object, Owners

LEMMA CreatedTyped ==
  ASSUME NEW rv \in Nat
  PROVE  /\ Created(Ours, rv) \in Object
         /\ Created(Ours, rv).rv = rv
         /\ Created(Ours, rv).data[MarkerKey] = Unset
  BY MarkersAssumption DEF Created, Blank, Object, Owners

LEMMA SetKeySetsMarker ==
  ASSUME NEW object \in Object, NEW v \in MarkerValues
  PROVE  /\ SetKey(object, MarkerKey, v) \in Object
         /\ SetKey(object, MarkerKey, v).rv = object.rv
         /\ SetKey(object, MarkerKey, v).data[MarkerKey] = v
<1>1. SetKey(object, MarkerKey, v)
        = [object EXCEPT !.data = [object.data EXCEPT ![MarkerKey] = v]]
  BY DEF SetKey
<1> QED BY <1>1, MarkersAssumption DEF Object

(***************************************************************************)
(* A pod that has been started marks an object without changing its        *)
(* version, and it does so only if it is of a post step.                   *)
(***************************************************************************)
LEMMA MarkedObject ==
  ASSUME NEW p \in Pods, mode[p[1]] \in Modes, NEW object \in Object
  PROVE  /\ Marked(p, object) \in Object
         /\ Marked(p, object).rv = object.rv
         /\ p[2] = "pre" => Marked(p, object) = object
         /\ p[2] = "post" => Marked(p, object).data[MarkerKey] = NewValue[mode[p[1]]]
<1>1. p[2] = "pre" \/ p[2] = "post"
  BY PodIsPair
<1> QED BY <1>1, ModesHaveValues, SetKeySetsMarker DEF Marked

(***************************************************************************)
(* A pod at work belongs to an operation with a mode.                      *)
(***************************************************************************)
LEMMA AtWorkHasMode ==
  ASSUME MarkersInv, NEW p \in Pods, pc[p] # "absent"
  PROVE  mode[p[1]] \in Modes
  BY PodIsPair DEF MarkersInv, TypeOK, StartedFirst

-----------------------------------------------------------------------------

(***************************************************************************)
(* How the store may change in a step: not at all, or to an object of the  *)
(* next version.                                                           *)
(***************************************************************************)
FreshWrite ==
  /\ configMap' \in Object
  /\ nextRv' \in Nat /\ nextRv' >= nextRv
  /\ \/ configMap' = configMap
     \/ configMap'.rv = nextRv /\ nextRv' > nextRv

LEMMA CreateIsFresh ==
  ASSUME MarkersInv, StoreCreated
  PROVE  FreshWrite /\ Exists(configMap') /\ configMap' = Created(Ours, nextRv)
<1>1. nextRv \in Nat /\ nextRv # 0
  BY DEF MarkersInv, TypeOK, VersionsPast, Object
<1> QED BY <1>1, CreatedTyped DEF StoreCreated, FreshWrite, Exists

(***************************************************************************)
(* An accepted Update leaves what the pod meant to write, under the next   *)
(* version unless it is what was stored.                                   *)
(***************************************************************************)
LEMMA UpdateIsFresh ==
  ASSUME MarkersInv, NEW p \in Pods, pc[p] = "update", StoreUpdated(p)
  PROVE  /\ FreshWrite
         /\ Exists(configMap')
         /\ Marker' = Marked(p, configMap).data[MarkerKey]
         /\ Passes(p, copy[p])
<1>1. nextRv \in Nat /\ configMap \in Object /\ copy[p] \in Object
  BY DEF MarkersInv, TypeOK
<1>2. copy[p] = Marked(p, configMap) /\ Passes(p, copy[p])
  BY DEF MarkersInv, CopyCurrent, StoreUpdated
<1>3. Exists(configMap) /\ configMap.rv < nextRv
  BY DEF StoreUpdated, Accepts, MarkersInv, VersionsPast
<1>4. CASE copy[p] = configMap
  <2>1. configMap' = configMap /\ nextRv' = nextRv
    BY <1>4 DEF StoreUpdated, Written
  <2> QED BY <2>1, <1>1, <1>2, <1>3, <1>4 DEF FreshWrite, Marker
<1>5. CASE copy[p] # configMap
  <2>1. configMap' = [copy[p] EXCEPT !.rv = nextRv] /\ nextRv' = nextRv + 1
    BY <1>5 DEF StoreUpdated, Written
  <2>2. configMap' \in Object /\ configMap'.rv = nextRv /\ configMap'.data = copy[p].data
    BY <1>1, <2>1 DEF Object
  <2>3. nextRv # 0
    BY <1>1, <1>3 DEF Object
  <2> QED BY <2>1, <2>2, <2>3, <1>1, <1>2 DEF FreshWrite, Exists, Marker
<1> QED BY <1>4, <1>5

(***************************************************************************)
(* A fresh write makes every copy of what it replaces stale.               *)
(***************************************************************************)
LEMMA FreshWriteKeepsCopy ==
  ASSUME MarkersInv, FreshWrite, mode' = mode, NEW q \in Pods,
         pc'[q] = pc[q], copy'[q] = copy[q]
  PROVE  CopyCurrent(q)'
<1>1. copy[q].rv < nextRv /\ CopyCurrent(q) /\ copy[q].rv \in Nat /\ nextRv \in Nat
  BY DEF MarkersInv, VersionsPast, TypeOK, Object
<1>2. Accepts(configMap', copy[q]) => configMap' = configMap
  BY <1>1 DEF FreshWrite, Accepts
<1>3. Passes(q, copy[q])' = Passes(q, copy[q])
  BY DEF Passes
<1>4. Marked(q, configMap') = Marked(q, configMap)' /\ (configMap' = configMap => Marked(q, configMap)' = Marked(q, configMap))
  BY DEF Marked
<1> QED BY <1>1, <1>2, <1>3, <1>4 DEF CopyCurrent

(***************************************************************************)
(* What all steps of a pod have in common: one pod moves, the store is     *)
(* kept or freshly written, and what the pod means to write is current.    *)
(***************************************************************************)
LEMMA OnePodKeepsInv ==
  ASSUME MarkersInv, FreshWrite, mode' = mode,
         Exists(configMap') \/ configMap' = NoObject,
         NEW p \in Pods, mode[p[1]] \in Modes,
         NEW state \in PodStates, pc' = [pc EXCEPT ![p] = state],
         NEW object \in Object, copy' = [copy EXCEPT ![p] = object],
         object.rv < nextRv', CopyCurrent(p)',
         runs' \in [Pods -> 0..BackoffLimit], faults' \in 0..MaxFaults
  PROVE  MarkersInv'
<1>1. TypeOK'
  BY DEF MarkersInv, TypeOK, FreshWrite
<1>2. \A q \in Pods : q # p => pc'[q] = pc[q] /\ copy'[q] = copy[q]
  BY DEF MarkersInv, TypeOK
<1>3. StartedFirst'
  <2>1. mode[p[1]] # "none"
    BY DEF Modes
  <2> QED BY <1>2, <2>1 DEF MarkersInv, StartedFirst
<1>4. VersionsPast'
  <2>1. configMap'.rv < nextRv'
    BY DEF FreshWrite, MarkersInv, VersionsPast, TypeOK, Object
  <2>2. copy'[p] = object
    BY DEF MarkersInv, TypeOK
  <2>3. ASSUME NEW q \in Pods, q # p PROVE copy'[q].rv < nextRv'
    BY <1>2, <2>3 DEF FreshWrite, MarkersInv, VersionsPast, TypeOK, Object
  <2> QED BY <2>1, <2>2, <2>3 DEF VersionsPast
<1>5. \A q \in Pods : CopyCurrent(q)'
  BY <1>2, FreshWriteKeepsCopy
<1> QED BY <1>1, <1>3, <1>4, <1>5 DEF MarkersInv

(***************************************************************************)
(* A pod that ends, or one that has yet to read, has nothing in hand.      *)
(***************************************************************************)
LEMMA EndKeepsInv ==
  ASSUME MarkersInv, FreshWrite, mode' = mode,
         Exists(configMap') \/ configMap' = NoObject,
         NEW p \in Pods, mode[p[1]] \in Modes,
         NEW state \in PodStates \ {"update"}, End(p, state),
         runs' = runs, faults' \in 0..MaxFaults
  PROVE  MarkersInv'
<1>1. pc'[p] # "update" /\ runs' \in [Pods -> 0..BackoffLimit]
  BY DEF End, MarkersInv, TypeOK
<1>2. CopyCurrent(p)'
  BY <1>1 DEF CopyCurrent
<1>3. NoObject.rv < nextRv'
  BY NoObjectTyped DEF MarkersInv, VersionsPast, TypeOK, Object, FreshWrite
<1> QED BY <1>1, <1>2, <1>3, NoObjectTyped, OnePodKeepsInv DEF End

LEMMA MoveKeepsInv ==
  ASSUME MarkersInv, UNCHANGED <<mode, configMap, nextRv, copy>>,
         NEW p \in Pods, mode[p[1]] \in Modes,
         NEW state \in PodStates \ {"update"}, pc' = [pc EXCEPT ![p] = state],
         runs' \in [Pods -> 0..BackoffLimit], faults' \in 0..MaxFaults
  PROVE  MarkersInv'
<1>1. FreshWrite
  BY DEF FreshWrite, MarkersInv, TypeOK
<1>2. CopyCurrent(p)'
  BY DEF CopyCurrent, MarkersInv, TypeOK
<1>3. copy[p] \in Object /\ copy' = [copy EXCEPT ![p] = copy[p]] /\ copy[p].rv < nextRv'
  BY DEF MarkersInv, TypeOK, VersionsPast
<1>4. Exists(configMap') \/ configMap' = NoObject
  BY DEF MarkersInv
<1> QED BY <1>1, <1>2, <1>3, <1>4, OnePodKeepsInv

LEMMA Unwritten ==
  ASSUME MarkersInv, UNCHANGED <<configMap, nextRv>>
  PROVE  FreshWrite /\ (Exists(configMap') \/ configMap' = NoObject)
  BY DEF FreshWrite, MarkersInv, TypeOK

(***************************************************************************)
(* Prepare puts the stored ConfigMap, marked, in the hands of the pod.     *)
(***************************************************************************)
LEMMA PrepareKeepsInv ==
  ASSUME MarkersInv, FreshWrite, Exists(configMap'), mode' = mode,
         NEW p \in Pods, mode[p[1]] \in Modes,
         Passes(p, configMap'), Prepare(p, configMap'),
         UNCHANGED <<runs, faults>>
  PROVE  MarkersInv'
<1> DEFINE marked == Marked(p, configMap')
<1>1. configMap' \in Object /\ configMap'.rv < nextRv'
  BY DEF FreshWrite, MarkersInv, VersionsPast, TypeOK, Object
<1>2. /\ marked \in Object
      /\ marked.rv = configMap'.rv
      /\ p[2] = "pre" => marked = configMap'
  BY <1>1, MarkedObject
<1>3. pc' = [pc EXCEPT ![p] = "update"] /\ copy' = [copy EXCEPT ![p] = marked]
  BY DEF Prepare
<1>4. copy'[p] = marked
  BY <1>3 DEF MarkersInv, TypeOK
<1>5. CopyCurrent(p)'
  <2>1. Passes(p, copy[p])'
    BY <1>2, <1>4 DEF Passes
  <2>2. Marked(p, configMap)' = marked
    BY DEF Marked
  <2> QED BY <1>4, <2>1, <2>2 DEF CopyCurrent
<1>6. runs' \in [Pods -> 0..BackoffLimit] /\ faults' \in 0..MaxFaults
  BY DEF MarkersInv, TypeOK
<1> HIDE DEF marked
<1> QED BY <1>1, <1>2, <1>3, <1>5, <1>6, OnePodKeepsInv DEF PodStates

-----------------------------------------------------------------------------

(***************************************************************************)
(* The steps of the marker jobs, one by one.                               *)
(***************************************************************************)
LEMMA FaultTyped == ASSUME MarkersInv, Fault PROVE faults' \in 0..MaxFaults
  BY MarkersAssumption DEF Fault, MarkersInv, TypeOK

LEMMA RefusalKeepsInv ==
  ASSUME MarkersInv, NEW p \in Pods, pc[p] # "absent", Fail(p),
         UNCHANGED <<configMap, nextRv>>, faults' \in 0..MaxFaults
  PROVE  MarkersInv'
<1>1. mode[p[1]] \in Modes
  BY AtWorkHasMode
<1>2. FreshWrite /\ (Exists(configMap') \/ configMap' = NoObject)
  BY Unwritten
<1> QED BY <1>1, <1>2, EndKeepsInv DEF Fail, PodStates

LEMMA PodStepKeepsInv ==
  ASSUME MarkersInv, NEW p \in Pods, PodStep(p)
  PROVE  MarkersInv'
<1>1. pc[p] # "absent"
  BY DEF PodStep, Progress, GetFound, GetRefused, GetMissing, Create, CreateConflict, Update,
         UpdateConflict, Restart, GetError, LostResponse, Killed, Reap
<1>2. mode[p[1]] \in Modes
  BY <1>1, AtWorkHasMode
<1>3. runs \in [Pods -> 0..BackoffLimit] /\ faults \in 0..MaxFaults
  BY DEF MarkersInv, TypeOK
<1>4. CASE GetFound(p)
  <2>1. FreshWrite /\ configMap' = configMap
    BY <1>4, Unwritten DEF GetFound
  <2> QED BY <1>2, <1>4, <2>1, PrepareKeepsInv DEF GetFound
<1>5. CASE GetRefused(p)
  BY <1>1, <1>3, <1>5, RefusalKeepsInv DEF GetRefused
<1>6. CASE GetMissing(p)
  BY <1>2, <1>3, <1>6, MoveKeepsInv DEF GetMissing, PodStates
<1>7. CASE Create(p)
  <2>1. FreshWrite /\ Exists(configMap') /\ configMap' = Created(Ours, nextRv)
    BY <1>7, CreateIsFresh DEF Create
  <2>2. configMap'.data[MarkerKey] = Unset
    BY <2>1, CreatedTyped DEF MarkersInv, TypeOK
  <2>3. Passes(p, configMap')
    BY <2>2 DEF Passes
  <2> QED BY <1>2, <1>7, <2>1, <2>3, PrepareKeepsInv DEF Create
<1>8. CASE CreateConflict(p)
  BY <1>1, <1>3, <1>8, RefusalKeepsInv DEF CreateConflict
<1>9. CASE Update(p)
  <2>1. FreshWrite /\ Exists(configMap')
    BY <1>9, UpdateIsFresh DEF Update
  <2> QED BY <1>2, <1>3, <1>9, <2>1, EndKeepsInv DEF Update, PodStates
<1>10. CASE UpdateConflict(p)
  BY <1>1, <1>3, <1>10, RefusalKeepsInv DEF UpdateConflict
<1>11. CASE Restart(p)
  <2>1. runs' \in [Pods -> 0..BackoffLimit]
    BY <1>3, <1>11, MarkersAssumption DEF Restart
  <2> QED BY <1>2, <1>3, <1>11, <2>1, MoveKeepsInv DEF Restart, PodStates
<1>12. CASE GetError(p)
  <2>1. faults' \in 0..MaxFaults
    BY <1>12, FaultTyped DEF GetError
  <2> QED BY <1>2, <1>3, <1>12, <2>1, MoveKeepsInv DEF GetError, PodStates
<1>13. CASE LostResponse(p)
  <2>1. FreshWrite /\ Exists(configMap')
    BY <1>13, CreateIsFresh, UpdateIsFresh DEF LostResponse
  <2>2. faults' \in 0..MaxFaults
    BY <1>13, FaultTyped DEF LostResponse
  <2> QED BY <1>2, <1>13, <2>1, <2>2, EndKeepsInv DEF LostResponse, Fail, PodStates
<1>14. CASE Killed(p)
  <2>1. faults' \in 0..MaxFaults
    BY <1>14, FaultTyped DEF Killed
  <2> QED BY <1>1, <1>14, <2>1, RefusalKeepsInv DEF Killed
<1>15. CASE Reap(p)
  <2>1. FreshWrite /\ (Exists(configMap') \/ configMap' = NoObject)
    BY <1>15, Unwritten DEF Reap
  <2> QED BY <1>2, <1>3, <1>15, <2>1, EndKeepsInv DEF Reap, PodStates
<1> QED BY <1>4, <1>5, <1>6, <1>7, <1>8, <1>9, <1>10, <1>11, <1>12, <1>13, <1>14, <1>15
        DEF PodStep, Progress

LEMMA LaunchKeepsInv ==
  ASSUME MarkersInv, NEW p \in Pods, LaunchStep(p)
  PROVE  MarkersInv'
  BY MoveKeepsInv DEF LaunchStep, Launch, PodStates, MarkersInv, TypeOK

LEMMA BeginKeepsInv ==
  ASSUME MarkersInv, NEW o \in Operations, NEW m \in Modes, Begin(o, m)
  PROVE  MarkersInv'
<1>1. TypeOK' /\ StartedFirst' /\ VersionsPast'
  <2>1. ASSUME NEW p \in Pods, mode'[p[1]] = "none" PROVE mode[p[1]] = "none"
    BY <2>1, PodIsPair DEF Begin, MarkersInv, TypeOK, Modes
  <2> QED BY <2>1 DEF Begin, podVars, MarkersInv, TypeOK, StartedFirst, VersionsPast
<1>2. ASSUME NEW p \in Pods PROVE CopyCurrent(p)'
  <2>1. CASE pc[p] = "update"
    <3>1. mode[p[1]] \in Modes
      BY <2>1, AtWorkHasMode
    <3>2. mode'[p[1]] = mode[p[1]]
      BY <3>1, PodIsPair DEF Begin, MarkersInv, TypeOK, Modes
    <3> QED BY <3>2 DEF Begin, podVars, MarkersInv, CopyCurrent, Passes, Marked
  <2>2. CASE pc[p] # "update"
    BY <2>2 DEF Begin, podVars, CopyCurrent
  <2> QED BY <2>1, <2>2
<1> QED BY <1>1, <1>2 DEF Begin, MarkersInv

LEMMA MarkersStutter ==
  ASSUME MarkersInv, UNCHANGED markerVars
  PROVE  MarkersInv'
  BY DEF markerVars, MarkersInv, TypeOK, StartedFirst, VersionsPast, CopyCurrent, Passes, Marked

LEMMA MarkersInitInv == MarkersInit => MarkersInv
<1> SUFFICES ASSUME MarkersInit PROVE MarkersInv
  OBVIOUS
<1>1. configMap \in Object /\ configMap.rv \in {0, 1} /\ (Exists(configMap) \/ configMap = NoObject)
  BY NoObjectTyped DEF MarkersInit, Object, Exists
<1>2. TypeOK
  BY <1>1, NoObjectTyped, MarkersAssumption DEF MarkersInit, TypeOK, PodStates
<1>3. VersionsPast
  BY <1>1, NoObjectTyped DEF MarkersInit, VersionsPast
<1>4. StartedFirst /\ \A p \in Pods : CopyCurrent(p)
  BY DEF MarkersInit, StartedFirst, CopyCurrent
<1> QED BY <1>1, <1>2, <1>3, <1>4 DEF MarkersInv

LEMMA MarkersNextKeepsInv == MarkersInv /\ [MarkersNext]_markerVars => MarkersInv'
  BY BeginKeepsInv, LaunchKeepsInv, PodStepKeepsInv, MarkersStutter DEF MarkersNext

-----------------------------------------------------------------------------

(***************************************************************************)
(* A step that stores something else than the marker that was there, or    *)
(* ends with success, is an Update that took effect.                       *)
(***************************************************************************)
LEMMA UpdateTakesEffect ==
  ASSUME MarkersInv, NEW p \in Pods, pc[p] = "update", StoreUpdated(p)
  PROVE  /\ p[2] = "pre" => /\ Marker' = Marker
                            /\ Marker \in AllowedValues[mode[p[1]]] \cup {Unset}
         /\ p[2] = "post" => Marker' = NewValue[mode[p[1]]]
<1>1. mode[p[1]] \in Modes /\ configMap \in Object
  BY AtWorkHasMode DEF MarkersInv, TypeOK
<1>2. copy[p] = Marked(p, configMap)
  BY DEF MarkersInv, CopyCurrent, StoreUpdated
<1>3. Marker' = Marked(p, configMap).data[MarkerKey] /\ Passes(p, copy[p])
  BY UpdateIsFresh
<1>4. p[2] = "pre" => Marked(p, configMap) = configMap
  BY <1>1, MarkedObject
<1>5. p[2] = "post" => Marked(p, configMap).data[MarkerKey] = NewValue[mode[p[1]]]
  BY <1>1, MarkedObject
<1> QED BY <1>2, <1>3, <1>4, <1>5 DEF Marker, Passes

LEMMA CreateKeepsMarker ==
  ASSUME MarkersInv, StoreCreated
  PROVE  Marker' = Marker
<1>1. configMap = NoObject /\ configMap' = Created(Ours, nextRv) /\ nextRv \in Nat
  BY DEF MarkersInv, TypeOK, StoreCreated
<1> QED BY <1>1, NoObjectTyped, CreatedTyped DEF Marker

(***************************************************************************)
(* What a step of a pod may do to the marker: nothing, or it is a post     *)
(* step that records the value of its operation.                           *)
(***************************************************************************)
RecordedBy(p) ==
  /\ p[2] = "post"
  /\ pc[p] = "update"
  /\ pc'[p] # "update"
  /\ Marker' = NewValue[mode[p[1]]]

LEMMA UpdateRecords ==
  ASSUME MarkersInv, NEW p \in Pods, pc[p] = "update", StoreUpdated(p), pc'[p] # "update"
  PROVE  Marker' = Marker \/ RecordedBy(p)
<1>1. CASE p[2] = "pre"
  BY <1>1, UpdateTakesEffect
<1>2. CASE p[2] = "post"
  BY <1>2, UpdateTakesEffect DEF RecordedBy
<1> QED BY <1>1, <1>2, PodIsPair

LEMMA PodStepRecords ==
  ASSUME MarkersInv, NEW p \in Pods, PodStep(p)
  PROVE  Marker' = Marker \/ RecordedBy(p)
<1> USE DEF MarkersInv, TypeOK, End, Fail
<1>1. CASE Update(p)
  BY <1>1, UpdateRecords DEF Update
<1>2. CASE LostResponse(p)
  <2>1. pc'[p] # "update"
    BY <1>2 DEF LostResponse
  <2>2. CASE pc[p] = "update" /\ StoreUpdated(p)
    BY <2>1, <2>2, UpdateRecords
  <2>3. CASE pc[p] = "create" /\ StoreCreated
    BY <2>3, CreateKeepsMarker
  <2> QED BY <1>2, <2>2, <2>3 DEF LostResponse
<1>3. CASE Create(p)
  BY <1>3, CreateKeepsMarker DEF Create
<1>4. CASE ~(Update(p) \/ LostResponse(p) \/ Create(p))
  BY <1>4 DEF PodStep, Progress, GetFound, GetRefused, GetMissing, CreateConflict,
              UpdateConflict, Restart, GetError, Killed, Reap, Marker
<1> QED BY <1>1, <1>2, <1>3, <1>4

LEMMA NextRecords ==
  ASSUME MarkersInv, [MarkersNext]_markerVars
  PROVE  Marker' = Marker \/ \E p \in Pods : RecordedBy(p)
<1>1. ASSUME NEW p \in Pods, PodStep(p) PROVE Marker' = Marker \/ RecordedBy(p)
  BY <1>1, PodStepRecords
<1>2. ASSUME NEW p \in Pods, LaunchStep(p) PROVE Marker' = Marker
  BY <1>2 DEF LaunchStep, Launch, Marker
<1>3. ASSUME NEW o \in Operations, NEW m \in Modes, Begin(o, m) PROVE Marker' = Marker
  BY <1>3 DEF Begin, Marker
<1>4. CASE UNCHANGED markerVars
  BY <1>4 DEF markerVars, Marker
<1> QED BY <1>1, <1>2, <1>3, <1>4 DEF MarkersNext

(***************************************************************************)
(* A step of a pod is a step of that pod only; one that is finished, or    *)
(* was never launched, stays so.                                           *)
(***************************************************************************)
LEMMA PodStepFrame ==
  ASSUME MarkersInv, NEW p \in Pods, PodStep(p)
  PROVE  /\ mode' = mode
         /\ \A q \in Pods : pc[q] = "absent" => pc'[q] = "absent"
         /\ \A q \in Pods : Finished(q) => Finished(q)'
<1>1. mode' = mode /\ pc[p] # "absent"
  BY DEF PodStep, Progress, GetFound, GetRefused, GetMissing, Create, CreateConflict, Update,
         UpdateConflict, Restart, GetError, LostResponse, Killed, Reap, Fail
<1>2. \A q \in Pods : q # p => pc'[q] = pc[q] /\ runs'[q] = runs[q]
  BY DEF MarkersInv, TypeOK, PodStep, Progress, GetFound, GetRefused, GetMissing, Create,
         CreateConflict, Update, UpdateConflict, Restart, GetError, LostResponse, Killed, Reap,
         Fail, End, Prepare
<1>3. ASSUME Finished(p) PROVE pc'[p] = "deleted"
  <2>1. pc[p] \in {"done", "deleted"} \/ (pc[p] = "failed" /\ ~(runs[p] < BackoffLimit))
    BY <1>1, <1>3, MarkersAssumption DEF Finished, Succeeded, GaveUp
  <2>2. Reap(p)
    BY <2>1 DEF PodStep, Progress, GetFound, GetRefused, GetMissing, Create, CreateConflict,
                Update, UpdateConflict, Restart, GetError, LostResponse, Killed
  <2> QED BY <2>2 DEF Reap, End, MarkersInv, TypeOK
<1>4. ASSUME NEW q \in Pods, Finished(q) PROVE Finished(q)'
  BY <1>2, <1>3, <1>4 DEF Finished, Succeeded, GaveUp
<1> QED BY <1>1, <1>2, <1>4

(***************************************************************************)
(* The only way to success.                                                *)
(***************************************************************************)
LEMMA SuccessIsUpdate ==
  ASSUME MarkersInv, [MarkersNext]_markerVars, NEW q \in Pods, pc[q] # "done", pc'[q] = "done"
  PROVE  pc[q] = "update" /\ StoreUpdated(q) /\ mode' = mode
<1>1. ASSUME NEW p \in Pods, PodStep(p)
      PROVE  pc[q] = "update" /\ StoreUpdated(q) /\ mode' = mode
  <2>1. CASE Update(p)
    BY <2>1 DEF Update, End, MarkersInv, TypeOK
  <2>2. CASE ~Update(p)
    <3>1. pc'[q] # "done"
      <4>1. \E state \in PodStates \ {"done"} : pc' = [pc EXCEPT ![p] = state]
        BY <1>1, <2>2
        DEF PodStep, Progress, GetFound, GetRefused, GetMissing, Create, CreateConflict,
            UpdateConflict, Restart, GetError, LostResponse, Killed, Reap, Fail, End, Prepare,
            PodStates
      <4> QED BY <4>1 DEF MarkersInv, TypeOK
    <3> QED BY <3>1
  <2> QED BY <2>1, <2>2
<1>2. ASSUME NEW p \in Pods, LaunchStep(p) PROVE FALSE
  BY <1>2 DEF LaunchStep, Launch, MarkersInv, TypeOK
<1>3. ASSUME NEW o \in Operations, NEW m \in Modes, Begin(o, m) PROVE FALSE
  BY <1>3 DEF Begin, podVars
<1>4. CASE UNCHANGED markerVars
  BY <1>4 DEF markerVars
<1> QED BY <1>1, <1>2, <1>3, <1>4 DEF MarkersNext

-----------------------------------------------------------------------------

(***************************************************************************)
(* The inductive invariant: an update of the ConfigMap that is accepted    *)
(* was computed, and checked, from the ConfigMap it replaces.              *)
(***************************************************************************)
THEOREM MarkersAreSafe == MarkersSpec => []MarkersInv
  BY MarkersInitInv, MarkersNextKeepsInv, PTL DEF MarkersSpec

(***************************************************************************)
(* Only a post step gives the marker a value (OnlyPostRecords).            *)
(***************************************************************************)
THEOREM PostRecordsOnly == MarkersSpec => OnlyPostRecords
<1>1. MarkersInv /\ [MarkersNext]_markerVars =>
        [Marker' # Marker =>
           \E o \in Operations : /\ pc[<<o, "post">>] = "update"
                                 /\ pc'[<<o, "post">>] # "update"
                                 /\ Marker' = NewValue[mode[o]]]_markerVars
  <2> SUFFICES ASSUME NEW p \in Pods, RecordedBy(p)
               PROVE  \E o \in Operations : /\ pc[<<o, "post">>] = "update"
                                            /\ pc'[<<o, "post">>] # "update"
                                            /\ Marker' = NewValue[mode[o]]
    BY NextRecords
  <2>1. p[1] \in Operations /\ p = <<p[1], "post">>
    BY PodIsPair DEF RecordedBy
  <2> QED BY <2>1 DEF RecordedBy
<1> QED BY <1>1, MarkersAreSafe, PTL DEF MarkersSpec, OnlyPostRecords

(***************************************************************************)
(* The check of a pre step holds when the step succeeds, whatever happened *)
(* since the pod read the marker (CheckHoldsAtSuccess).                    *)
(***************************************************************************)
THEOREM CheckHolds == MarkersSpec => CheckHoldsAtSuccess
<1>1. MarkersInv /\ [MarkersNext]_markerVars =>
        [\A o \in Operations :
           pc[<<o, "pre">>] # "done" /\ pc'[<<o, "pre">>] = "done" =>
             Marker' \in AllowedValues[mode[o]] \cup {Unset}]_markerVars
  <2> SUFFICES ASSUME MarkersInv, [MarkersNext]_markerVars, NEW o \in Operations,
                      pc[<<o, "pre">>] # "done", pc'[<<o, "pre">>] = "done"
               PROVE  Marker' \in AllowedValues[mode[o]] \cup {Unset}
    OBVIOUS
  <2>1. <<o, "pre">> \in Pods
    BY DEF Pods
  <2>2. pc[<<o, "pre">>] = "update" /\ StoreUpdated(<<o, "pre">>)
    BY <2>1, SuccessIsUpdate
  <2> QED BY <2>1, <2>2, UpdateTakesEffect
<1> QED BY <1>1, MarkersAreSafe, PTL DEF MarkersSpec, CheckHoldsAtSuccess

(***************************************************************************)
(* When a post step succeeds, its value is the marker (RecordedAtSuccess). *)
(***************************************************************************)
THEOREM Records == MarkersSpec => RecordedAtSuccess
<1>1. MarkersInv /\ [MarkersNext]_markerVars =>
        [\A o \in Operations :
           pc[<<o, "post">>] # "done" /\ pc'[<<o, "post">>] = "done" =>
             Marker' = NewValue[mode[o]]]_markerVars
  <2> SUFFICES ASSUME MarkersInv, [MarkersNext]_markerVars, NEW o \in Operations,
                      pc[<<o, "post">>] # "done", pc'[<<o, "post">>] = "done"
               PROVE  Marker' = NewValue[mode[o]]
    OBVIOUS
  <2>1. <<o, "post">> \in Pods
    BY DEF Pods
  <2>2. pc[<<o, "post">>] = "update" /\ StoreUpdated(<<o, "post">>)
    BY <2>1, SuccessIsUpdate
  <2> QED BY <2>1, <2>2, UpdateTakesEffect
<1> QED BY <1>1, MarkersAreSafe, PTL DEF MarkersSpec, RecordedAtSuccess
=============================================================================
