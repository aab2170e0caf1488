-------------------------- MODULE MCGenerateSecrets --------------------------
(***************************************************************************)
(* Instances of GenerateSecrets for TLC.                                   *)
(***************************************************************************)
EXTENDS GenerateSecrets, TLC

CONSTANTS p1, p2, s1, s2, k1, k2, v1, v2

Ask(n, k, t) == [name |-> n, key |-> k, type |-> t]

(***************************************************************************)
(* Two pods on the one Secret the chart uses; the pod of the later upgrade *)
(* is asked for one key more.                                              *)
(***************************************************************************)
SharedRequests ==
  p1 :> <<Ask(s1, k1, "rand32")>> @@
  p2 :> <<Ask(s1, k1, "rand32"), Ask(s1, k2, "signingkey")>>

(***************************************************************************)
(* Two Secrets, visited in opposite orders.                                *)
(***************************************************************************)
CrossedRequests ==
  p1 :> <<Ask(s1, k1, "rand32"), Ask(s2, k1, "hex32")>> @@
  p2 :> <<Ask(s2, k1, "hex32"), Ask(s1, k1, "rand32")>>

ValueSymmetry == Permutations(RandomValues)
=============================================================================
