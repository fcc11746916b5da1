------------------------------ MODULE SteamResults ------------------------------
(***************************************************************************)
(* The vocabulary shared by the modules about Steam's answers: the result  *)
(* codes Steam sends (EResult), the exceptions the plugin turns them into  *)
(* (utils.translate_error), and the codes the two halves of the plugin     *)
(* exchange while a user logs in (UserActionRequired, TwoFactorMethod).    *)
(***************************************************************************)
EXTENDS Naturals

CredentialResults ==
    { "InvalidPassword", "AccountNotFound", "InvalidSteamID",
      "InvalidLoginAuthCode", "AccountLogonDeniedNoMailSent",
      "AccountLoginDeniedNeedTwoFactor", "TwoFactorCodeMismatch",
      "TwoFactorActivationCodeMismatch" }

NetworkResults == { "ConnectFailed", "IOFailure", "RemoteDisconnect" }

UnavailableResults ==
    { "Busy", "ServiceUnavailable", "Pending", "IPNotFound", "TryAnotherCM",
      "Cancelled" }

BlockedResults ==
    { "RateLimitExceeded", "LimitExceeded", "Suspended", "AccountLocked",
      "AccountLogonDeniedVerifiedEmailRequired" }

AccessResults ==
    { "AccessDenied", "InsufficientPrivilege", "LogonSessionReplaced",
      "Blocked", "Ignored", "AccountDisabled", "AccountNotFeatured" }

BackendResults ==
    { "DataCorruption", "DiskFull", "RemoteCallFailed", "RemoteFileConflict",
      "BadResponse" }

(* The codes some branch of the plugin names, and "Fail" for all the      *)
(* others, which no branch tells apart.                                    *)
EResult ==
    CredentialResults \cup NetworkResults \cup UnavailableResults
    \cup BlockedResults \cup AccessResults \cup BackendResults
    \cup { "OK", "LoggedInElsewhere", "Timeout", "Banned", "InvalidParam",
           "DuplicateRequest", "Expired", "FileNotFound", "Fail" }

(* Exceptions of galaxy.api.errors, the websockets library's               *)
(* ConnectionClosed, and "ProgrammingError" for what no handler expects:   *)
(* AttributeError, TypeError, ValueError, AssertionError and asyncio's     *)
(* InvalidStateError.                                                      *)
Exceptions ==
    { "AuthenticationRequired", "InvalidCredentials", "NetworkError",
      "BackendNotAvailable", "BackendTimeout", "BackendError",
      "TemporaryBlocked", "Banned", "AccessDenied", "UnknownError",
      "ConnectionClosed", "ProgrammingError" }

TranslateError(result) ==
    CASE result = "OK"                   -> "ProgrammingError"  \* the assert
      [] result = "LoggedInElsewhere"    -> "AuthenticationRequired"
      [] result \in CredentialResults    -> "InvalidCredentials"
      [] result \in NetworkResults       -> "NetworkError"
      [] result \in UnavailableResults   -> "BackendNotAvailable"
      [] result = "Timeout"              -> "BackendTimeout"
      [] result \in BlockedResults       -> "TemporaryBlocked"
      [] result = "Banned"               -> "Banned"
      [] result \in AccessResults        -> "AccessDenied"
      [] result \in BackendResults       -> "BackendError"
      [] OTHER                           -> "UnknownError"

UserActionRequired ==
    { "NoActionRequired", "NoActionConfirmToken", "NoActionConfirmLogin",
      "TwoFactorRequired", "TwoFactorExpired", "InvalidAuthData" }

TwoFactorMethod ==
    { "Nothing", "PhoneCode", "EmailCode", "PhoneConfirm", "Unknown" }

(* The order in which the authentication cache offers the methods Steam    *)
(* allows, and the first of a non-empty set of them.                       *)
AuthPriority ==
    [ Unknown |-> 0, Nothing |-> 1, EmailCode |-> 2, PhoneCode |-> 3,
      PhoneConfirm |-> 4 ]

Preferred(allowed) ==
    CHOOSE m \in allowed :
        \A n \in allowed : AuthPriority[n] <= AuthPriority[m]

(* What an answered guard-code update means to the plugin; a result that   *)
(* is not listed raises TranslateError.                                    *)
CodeAction ==
    [ OK                    |-> "NoActionConfirmLogin",
      DuplicateRequest      |-> "NoActionConfirmLogin",
      Expired               |-> "TwoFactorExpired",
      InvalidLoginAuthCode  |-> "InvalidAuthData",
      TwoFactorCodeMismatch |-> "InvalidAuthData" ]

(* The results of a password login that are answers, not errors.           *)
LoginVerdicts ==
    { "OK", "InvalidPassword", "InvalidParam", "InvalidSteamID",
      "AccountNotFound", "InvalidLoginAuthCode" }

PollVerdicts == { "OK", "Expired", "FileNotFound" }

\* Mutant of PollAction: a result that is no OK is passed on as it is.
PollActionRaw(result, hasToken, isConfirm) ==
    IF result = "OK" /\ hasToken THEN "NoActionConfirmToken" ELSE result

(* What an answered poll means: whether a refresh token came with it, and  *)
(* whether the user was asked to confirm on a phone.                       *)
PollAction(result, hasToken, isConfirm) ==
    CASE result = "OK" /\ hasToken                 -> "NoActionConfirmToken"
      [] result = "OK" /\ ~hasToken                -> "NoActionConfirmLogin"
      [] result = "FileNotFound" /\ isConfirm      -> "NoActionConfirmLogin"
      [] OTHER                                     -> "TwoFactorExpired"
================================================================================
