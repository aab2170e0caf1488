------------------------------- MODULE KubeApi -------------------------------
(***************************************************************************)
(* The part of the Kubernetes API server the matrix-tools jobs depend on   *)
(* when they read and write one Secret or ConfigMap: an object carries a   *)
(* resourceVersion, the managed-by label and its data, and a write is      *)
(* accepted only if it was computed from the version that is stored.       *)
(*                                                                         *)
(* The client library is not in the repository; these operators follow     *)
(* from how secret.go and marker.go use it (Get, Create, Update with the   *)
(* object that Get or Create returned).                                    *)
(***************************************************************************)
EXTENDS Naturals

CONSTANTS Keys,    \* the data keys an object may hold
          Unset    \* the value of a key that is not in the data

(***************************************************************************)
(* An object that does not exist has resourceVersion 0; one without the    *)
(* managed-by label has owner "none".                                      *)
(***************************************************************************)
Blank == [k \in Keys |-> Unset]

NoObject == [rv |-> 0, owner |-> "none", data |-> Blank]

Exists(object) == object.rv # 0

SetKey(object, key, v) == [object EXCEPT !.data[key] = v]

Created(owner, rv) == [rv |-> rv, owner |-> owner, data |-> Blank]

(***************************************************************************)
(* Optimistic concurrency: an Update carries the resourceVersion of the    *)
(* copy it was computed from; a stale copy, or one of an object deleted in *)
(* the meantime, is refused.                                               *)
(***************************************************************************)
Accepts(stored, sent) == Exists(stored) /\ stored.rv = sent.rv

(***************************************************************************)
(* What an accepted Update leaves in the store. An Update that changes     *)
(* nothing does not advance the resourceVersion.                           *)
(***************************************************************************)
Written(stored, sent, rv) ==
  IF sent = stored THEN stored ELSE [sent EXCEPT !.rv = rv]
=============================================================================
