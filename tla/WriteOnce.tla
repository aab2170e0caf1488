------------------------------ MODULE WriteOnce ------------------------------
(***************************************************************************)
(* What the init-secrets job promises to everything that mounts a          *)
(* generated Secret: a cell (one key of one Secret) is given a value once, *)
(* and only an administrator's own edit can ever change it again.          *)
(***************************************************************************)
EXTENDS Naturals

CONSTANTS Cells,      \* <<secret name, key>> pairs
          Requested,  \* the cells some job was asked to generate
          Values,     \* what a cell may hold
          Unset       \* what a cell without a value holds

VARIABLES value,      \* the content of each cell
          overrides   \* how often an administrator edited a Secret by hand

vars == <<value, overrides>>

Init ==
  /\ value \in [Cells -> Values \cup {Unset}]
  /\ overrides = 0

(***************************************************************************)
(* A job gives one requested cell its first value.                         *)
(***************************************************************************)
Choose(c) ==
  /\ value[c] = Unset
  /\ \E v \in Values : value' = [value EXCEPT ![c] = v]
  /\ UNCHANGED overrides

(***************************************************************************)
(* An administrator edits or deletes a Secret: any cell may change.        *)
(***************************************************************************)
Override ==
  /\ value' \in [Cells -> Values \cup {Unset}]
  /\ overrides' = overrides + 1

Next == (\E c \in Requested : Choose(c)) \/ Override

Spec == Init /\ [][Next]_vars
=============================================================================
