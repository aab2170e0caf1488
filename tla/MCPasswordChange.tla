-------------------------- MODULE MCPasswordChange --------------------------
(***************************************************************************)
(* Two files of one ConfigMap, and the password in a Secret.               *)
(***************************************************************************)
EXTENDS PasswordChange

SourceOfFile == <<"config", "config", "password">>
=============================================================================
