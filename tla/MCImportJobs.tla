------------------------------ MODULE MCImportJobs ------------------------------
(***************************************************************************)
(* Instances of ImportJobs for TLC: three games, asked for in two lists    *)
(* that overlap.                                                           *)
(***************************************************************************)
EXTENDS ImportJobs

CONSTANTS g1, g2, g3

TwoLists == { <<g1, g2, g3>>, <<g2>> }
================================================================================
