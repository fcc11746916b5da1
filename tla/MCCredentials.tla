------------------------------ MODULE MCCredentials ------------------------------
(***************************************************************************)
(* An instance of Credentials for TLC: three accounts share one Galaxy.    *)
(***************************************************************************)
EXTENDS Credentials

CONSTANTS ann, bob, cat
================================================================================
