----------------------------- MODULE MCSteamSession -----------------------------
(***************************************************************************)
(* Instances of SteamSession for TLC.  One result stands for each way the  *)
(* plugin treats a result, and one set of methods for each page a login    *)
(* may lead to.                                                            *)
(***************************************************************************)
EXTENDS SteamSession

MCResults ==
    { "OK", "InvalidPassword", "InvalidLoginAuthCode", "Expired", "FileNotFound",
      "AccessDenied", "LoggedInElsewhere", "TryAnotherCM", "ConnectFailed",
      "Fail" }

FewResults == { "OK", "FileNotFound", "AccessDenied", "LoggedInElsewhere",
                "TryAnotherCM", "ConnectFailed" }

OnlyOK == { "OK" }

MCUnsolicited == { "TryAnotherCM", "ConnectFailed", "Fail" }

FewUnsolicited == { "TryAnotherCM" }

MCListErrors == { "NetworkError", "BackendNotAvailable", "AccessDenied" }

MCConfirmations ==
    { {"PhoneConfirm", "PhoneCode"}, {"EmailCode"}, {"Nothing"}, {"Unknown"} }

FewConfirmations == { {"PhoneConfirm", "EmailCode"} }
================================================================================
