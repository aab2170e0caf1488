---------------------------- MODULE AuthMigration ----------------------------
(***************************************************************************)
(* What the deployment marker promises about the authentication of a       *)
(* release: once it is set it only moves forward, from legacy to migrated  *)
(* to delegated, or from nothing to where the release was first set up.    *)
(***************************************************************************)
CONSTANT Unset

VARIABLE state

Forward == {<<"legacy_auth", "syn2mas_migrated">>,
            <<"syn2mas_migrated", "delegated_auth">>}

Init == state = Unset

Next ==
  \/ state = Unset /\ state' \in {"legacy_auth", "syn2mas_migrated", "delegated_auth"}
  \/ <<state, state'>> \in Forward

Spec == Init /\ [][Next]_state
=============================================================================
