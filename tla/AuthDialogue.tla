------------------------------ MODULE AuthDialogue ------------------------------
(***************************************************************************)
(* What the login dialogue promises to its caller, whatever happens to the *)
(* connection underneath: one question at a time, each answered at most    *)
(* once and with an answer of its kind; a question may follow only from    *)
(* the answer that calls for it; and the user is reported as connected     *)
(* only on Steam's acceptance of a token.  SteamSession implements it.     *)
(***************************************************************************)
VARIABLES phase,    \* where the dialogue stands
          question, \* the question asked last, "none" at first
          answer    \* its answer, "none" until there is one

dialogueVars == <<phase, question, answer>>

(* The answers each question may get.                                      *)
AnswersTo ==
    [ login  |-> { "TwoFactorRequired", "InvalidAuthData" },
      update |-> { "NoActionConfirmLogin", "TwoFactorExpired",
                   "InvalidAuthData" },
      poll   |-> { "NoActionConfirmToken", "NoActionConfirmLogin",
                   "TwoFactorExpired" },
      token  |-> { "NoActionRequired", "InvalidAuthData" } ]

(* The questions the dialogue goes on to without the user, by the question *)
(* and the answer they follow.                                             *)
FollowsFrom ==
    { <<"login", "TwoFactorRequired", "poll">>,
      <<"update", "NoActionConfirmLogin", "poll">>,
      <<"poll", "NoActionConfirmToken", "token">> }

DialogueInit == phase = "start" /\ question = "none" /\ answer = "none"

Start ==
    /\ phase = "start"
    /\ \/ phase' = "page" /\ question' = "none"
       \/ phase' = "asked" /\ question' = "token"   \* stored credentials
    /\ answer' = "none"

Ask ==
    /\ phase = "page"
    /\ phase' = "asked"
    /\ question' \in {"login", "update", "poll"}
    /\ answer' = "none"

Answer ==
    /\ phase = "asked"
    /\ phase' = "answered"
    /\ answer' \in AnswersTo[question]
    /\ UNCHANGED question

FollowUp ==
    /\ phase = "answered"
    /\ phase' = "asked"
    /\ <<question, answer, question'>> \in FollowsFrom
    /\ answer' = "none"

BackToPage ==
    /\ phase = "answered"
    /\ answer # "NoActionRequired"
    /\ phase' = "page"
    /\ question' = "none"
    /\ answer' = "none"

Report ==
    /\ phase = "answered"
    /\ question = "token" /\ answer = "NoActionRequired"
    /\ phase' = "connected"
    /\ question' = "none"
    /\ answer' = "none"

GiveUp ==
    /\ phase \in {"asked", "answered"}
    /\ phase' = "failed"
    /\ question' = "none"
    /\ answer' = "none"

DialogueNext ==
    Start \/ Ask \/ Answer \/ FollowUp \/ BackToPage \/ Report \/ GiveUp

DialogueSpec == DialogueInit /\ [][DialogueNext]_dialogueVars
================================================================================
