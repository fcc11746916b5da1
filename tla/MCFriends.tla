-------------------------------- MODULE MCFriends --------------------------------
(***************************************************************************)
(* An instance of Friends for TLC: two users, infos in whole and in parts. *)
(***************************************************************************)
EXTENDS Friends

CONSTANTS ann, bob

AllOrParts == { Fields, {"name", "avatar"}, {"state"} }
================================================================================
