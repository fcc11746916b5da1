------------------------------- MODULE MCPluginLoop -------------------------------
(***************************************************************************)
(* An instance of PluginLoop for TLC: two games, two calls of Galaxy.      *)
(***************************************************************************)
EXTENDS PluginLoop

CONSTANTS g1, g2
================================================================================
