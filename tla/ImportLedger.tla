------------------------------ MODULE ImportLedger ------------------------------
(***************************************************************************)
(* What the imports of achievements, play times and collections promise,   *)
(* whatever becomes of the connection: a job is asked for while it is      *)
(* neither owed nor gone, answered only while it is owed, and gone for     *)
(* good if the connection takes it.  ImportJobs implements it.             *)
(***************************************************************************)
CONSTANT Jobs

VARIABLES owed,  \* jobs asked for whose answer may still come
          gone,  \* jobs asked for whose answer will not
          held   \* jobs whose answer is held

ledgerVars == <<owed, gone, held>>

LedgerInit == owed = {} /\ gone = {} /\ held = {}

(* An answer held from before is thrown away.                              *)
Fresh(new) ==
    /\ new \subseteq Jobs /\ new \cap (owed \cup gone) = {}
    /\ held' = held \ new

Ask == \E new \in SUBSET Jobs : Fresh(new) /\ owed' = owed \cup new /\ UNCHANGED gone

AskInVain == \E new \in SUBSET Jobs : Fresh(new) /\ gone' = gone \cup new /\ UNCHANGED owed

Answer ==
    \E answers \in SUBSET owed :
        owed' = owed \ answers /\ held' = held \cup answers /\ UNCHANGED gone

Lose == owed' = {} /\ gone' = gone \cup owed /\ UNCHANGED held

LedgerNext == Ask \/ AskInVain \/ Answer \/ Lose

LedgerSpec == LedgerInit /\ [][LedgerNext]_ledgerVars
================================================================================
