------------------------------- MODULE MCPresence -------------------------------
(***************************************************************************)
(* An instance of Presence for TLC: two users and two games, one whose     *)
(* translations make a text of a status and one whose do not.              *)
(***************************************************************************)
EXTENDS Presence, TLC

CONSTANTS ann, bob, dota, other

Texts == (dota :> "text") @@ (other :> None)

SomeNews ==
    { [state |-> "Online", game |-> None,  rich |-> None],
      [state |-> "Away",   game |-> NoApp, rich |-> "none"],
      [state |-> None,     game |-> dota,  rich |-> "token"],
      [state |-> None,     game |-> other, rich |-> "params"],
      [state |-> "Online", game |-> other, rich |-> "token"] }
================================================================================
