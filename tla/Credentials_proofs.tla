--------------------------- MODULE Credentials_proofs ---------------------------
(***************************************************************************)
(* Credentials, for any set of accounts: its types, that what is stored is *)
(* of one user, and that a connected user has credentials of his own.      *)
(***************************************************************************)
EXTENDS Credentials, TLAPS

(* No token before a poll finds the login confirmed.                       *)
NoTokenYet ==
    stage \in {"login", "accepted", "code"} => info.persona = None /\ info.token = None

(* Whose login it is, once Steam accepted a password, and once the name is *)
(* known.                                                                  *)
Accepted ==
    /\ stage \in {"accepted", "code"} => info.id \in Users
    /\ stage = "code" => info.name = info.id

LogonIsOfOneUser == stage = "logon" => OfOneUser(info)

CompleteIsOfOneUser == IsInitialized(info) => OfOneUser(info)

Shape == NoTokenYet /\ Accepted /\ LogonIsOfOneUser /\ CompleteIsOfOneUser

IInv == TypeOK /\ Shape /\ StoredIsOfOneUser /\ ConnectedHasItsOwn

--------------------------------------------------------------------------------
LEMMA BlankIncomplete == Blank \in Infos /\ ~IsInitialized(Blank)
BY DEF Blank, Infos, IsInitialized

LEMMA OneUserComplete ==
    ASSUME NEW c \in Infos, OfOneUser(c)
    PROVE  /\ IsInitialized(c) /\ c.token \in Users /\ c.name = c.token /\ c.persona = c.token
           /\ c.id \in {c.token, Zero}
<1>1. PICK user \in Users : /\ user = c.name /\ user = c.persona /\ user = c.token
                            /\ c.id \in {user, Zero}
  BY DEF OfOneUser
<1> QED  BY <1>1, ValueAssumption DEF IsInitialized

(* Writing another id, the right one or the one of a refusal, to the       *)
(* credentials of one user leaves them his.                                *)
LEMMA PutIdOfOneUser ==
    ASSUME TypeOK, OfOneUser(info), NEW id \in {Zero, info.token}, PutId(id)
    PROVE  /\ info' \in Infos /\ info'.id = id /\ OfOneUser(info')
           /\ initialized' \in BOOLEAN /\ changed' \in BOOLEAN
<1>1. info \in Infos /\ initialized \in BOOLEAN /\ changed \in BOOLEAN  BY DEF TypeOK
<1>2. /\ info.token \in Users /\ info.name = info.token /\ info.persona = info.token
  BY <1>1, OneUserComplete
<1>3. CASE id = info.id
  <2>1. info' = info /\ initialized' = initialized /\ changed' = changed  BY <1>3 DEF PutId
  <2> QED  BY <1>1, <1>3, <2>1
<1>4. CASE id # info.id
  <2> DEFINE new == [info EXCEPT !.id = id]
  <2>1. Put(new)  BY <1>4 DEF PutId
  <2>2. info' = new /\ initialized' \in BOOLEAN /\ changed' \in BOOLEAN
    BY <1>1, <2>1 DEF Put, IsInitialized
  <2>3. /\ new \in Infos /\ new.id = id
        /\ new.name = info.name /\ new.persona = info.persona /\ new.token = info.token
    BY <1>1, <1>2 DEF Infos
  <2>4. OfOneUser(new)  BY <1>2, <2>3 DEF OfOneUser
  <2> QED  BY <2>2, <2>3, <2>4
<1> QED  BY <1>3, <1>4

LEMMA PutFlags ==
    ASSUME TypeOK, NEW new, Put(new)
    PROVE  info' = new /\ initialized' \in BOOLEAN /\ changed' \in BOOLEAN
BY DEF TypeOK, Put, IsInitialized

--------------------------------------------------------------------------------
LEMMA InitInv == Init => IInv
<1> SUFFICES ASSUME Init PROVE IInv  OBVIOUS
<1>1. TypeOK  BY BlankIncomplete DEF Init, TypeOK, Stages
<1>2. Shape
  BY BlankIncomplete
     DEF Init, Shape, NoTokenYet, Accepted, LogonIsOfOneUser, CompleteIsOfOneUser
<1>3. StoredIsOfOneUser /\ ConnectedHasItsOwn  BY DEF Init, StoredIsOfOneUser, ConnectedHasItsOwn
<1> QED  BY <1>1, <1>2, <1>3 DEF IInv

(* Of a step that leaves what is stored alone: what is left to show.       *)
LEMMA KeepsStored ==
    ASSUME IInv, stored' = stored, info' \in Infos, initialized' \in BOOLEAN,
           changed' \in BOOLEAN, fromStored' \in BOOLEAN, stage' \in Stages,
           Shape', ConnectedHasItsOwn'
    PROVE  IInv'
BY DEF IInv, TypeOK, StoredIsOfOneUser

LEMMA AuthenticateStep == ASSUME IInv, Authenticate PROVE IInv'
<1>1. /\ info' = stored /\ stored \in Infos /\ stored' = stored
      /\ initialized' \in BOOLEAN /\ changed' \in BOOLEAN
      /\ stored = Blank \/ OfOneUser(stored)
  BY DEF Authenticate, IInv, TypeOK, StoredIsOfOneUser
<1>2. CASE IsInitialized(stored)
  <2>1. stage' = "logon" /\ fromStored' = TRUE  BY <1>2 DEF Authenticate
  <2>2. OfOneUser(info')  BY <1>1, <1>2, BlankIncomplete
  <2>3. Shape'
    BY <2>1, <2>2 DEF Shape, NoTokenYet, Accepted, LogonIsOfOneUser, CompleteIsOfOneUser
  <2>4. ConnectedHasItsOwn'  BY <2>1 DEF ConnectedHasItsOwn
  <2>5. stage' \in Stages  BY <2>1 DEF Stages
  <2> QED  BY <1>1, <2>1, <2>3, <2>4, <2>5, KeepsStored
<1>3. CASE ~IsInitialized(stored)
  <2>1. stage' = "login" /\ fromStored' = FALSE  BY <1>3 DEF Authenticate
  <2>2. info' = Blank  BY <1>1, <1>3, OneUserComplete
  <2>3. info'.persona = None /\ info'.token = None  BY <2>2 DEF Blank
  <2>4. Shape'
    BY <1>1, <1>3, <2>1, <2>3
       DEF Shape, NoTokenYet, Accepted, LogonIsOfOneUser, CompleteIsOfOneUser
  <2>5. ConnectedHasItsOwn'  BY <2>1 DEF ConnectedHasItsOwn
  <2>6. stage' \in Stages  BY <2>1 DEF Stages
  <2> QED  BY <1>1, <2>1, <2>4, <2>5, <2>6, KeepsStored
<1> QED  BY <1>2, <1>3

(* While a login has no token, the cache is incomplete.                    *)
LEMMA TokenlessShape ==
    ASSUME info' \in Infos, info'.persona = None, info'.token = None,
           stage' \in {"login", "accepted", "code"}, Accepted'
    PROVE  Shape' /\ ConnectedHasItsOwn'
<1>1. ~IsInitialized(info')  BY DEF IsInitialized
<1> QED  BY <1>1 DEF Shape, NoTokenYet, LogonIsOfOneUser, CompleteIsOfOneUser, ConnectedHasItsOwn

LEMMA AcceptPasswordStep == ASSUME IInv, NEW user \in Users, AcceptPassword(user) PROVE IInv'
<1>1. /\ info \in Infos /\ info.persona = None /\ info.token = None
      /\ initialized \in BOOLEAN /\ changed \in BOOLEAN /\ fromStored \in BOOLEAN
  BY DEF AcceptPassword, IInv, TypeOK, Shape, NoTokenYet
<1>2. stored' = stored /\ fromStored' = fromStored /\ stage' \in {"accepted", "login"} /\ PutId(user)
  BY DEF AcceptPassword
<1>3. /\ info' \in Infos /\ info'.id = user /\ info'.persona = None /\ info'.token = None
      /\ initialized' \in BOOLEAN /\ changed' \in BOOLEAN
  <2>1. CASE user = info.id  BY <1>1, <1>2, <2>1 DEF PutId
  <2>2. CASE user # info.id
    <3>1. Put([info EXCEPT !.id = user])  BY <1>2, <2>2 DEF PutId
    <3>2. info' = [info EXCEPT !.id = user] /\ initialized' \in BOOLEAN /\ changed' \in BOOLEAN
      BY <3>1, PutFlags DEF IInv
    <3> QED  BY <1>1, <3>2 DEF Infos
  <2> QED  BY <2>1, <2>2
<1>4. Accepted'  BY <1>2, <1>3 DEF Accepted
<1>5. Shape' /\ ConnectedHasItsOwn'  BY <1>2, <1>3, <1>4, TokenlessShape
<1>6. stage' \in Stages  BY <1>2 DEF Stages
<1> QED  BY <1>1, <1>2, <1>3, <1>5, <1>6, KeepsStored

LEMMA TakeNameStep == ASSUME IInv, TakeName PROVE IInv'
<1>1. /\ info \in Infos /\ info.persona = None /\ info.token = None /\ info.id \in Users
      /\ fromStored \in BOOLEAN
  BY DEF TakeName, IInv, TypeOK, Shape, NoTokenYet, Accepted
<1>2. /\ stored' = stored /\ fromStored' = fromStored /\ stage' = "code"
      /\ Put([info EXCEPT !.name = info.id])
  BY DEF TakeName
<1>3. info' = [info EXCEPT !.name = info.id] /\ initialized' \in BOOLEAN /\ changed' \in BOOLEAN
  BY <1>2, PutFlags DEF IInv
<1>4. /\ info' \in Infos /\ info'.id = info.id /\ info'.name = info.id
      /\ info'.persona = None /\ info'.token = None
  BY <1>1, <1>3 DEF Infos
<1>5. Accepted'  BY <1>1, <1>2, <1>4 DEF Accepted
<1>6. Shape' /\ ConnectedHasItsOwn'  BY <1>2, <1>4, <1>5, TokenlessShape
<1>7. stage' \in Stages  BY <1>2 DEF Stages
<1> QED  BY <1>1, <1>2, <1>3, <1>4, <1>6, <1>7, KeepsStored

LEMMA ConfirmStep == ASSUME IInv, Confirm PROVE IInv'
<1>1. info \in Infos /\ info.id \in Users /\ info.name = info.id
  BY DEF Confirm, IInv, TypeOK, Shape, Accepted
<1>2. /\ stored' = stored /\ fromStored' = FALSE /\ stage' = "logon"
      /\ Put([info EXCEPT !.token = info.id, !.persona = info.id])
  BY DEF Confirm
<1>3. /\ info' = [info EXCEPT !.token = info.id, !.persona = info.id]
      /\ initialized' \in BOOLEAN /\ changed' \in BOOLEAN
  BY <1>2, PutFlags DEF IInv
<1>4. /\ info' \in Infos /\ info'.id = info.id /\ info'.name = info.id
      /\ info'.persona = info.id /\ info'.token = info.id
  BY <1>1, <1>3 DEF Infos
<1>5. OfOneUser(info')  BY <1>1, <1>4 DEF OfOneUser
<1>6. Shape'
  BY <1>2, <1>5 DEF Shape, NoTokenYet, Accepted, LogonIsOfOneUser, CompleteIsOfOneUser
<1>7. ConnectedHasItsOwn' /\ stage' \in Stages  BY <1>2 DEF ConnectedHasItsOwn, Stages
<1> QED  BY <1>2, <1>3, <1>4, <1>6, <1>7, KeepsStored

LEMMA AcceptLogonStep == ASSUME IInv, AcceptLogon PROVE IInv'
<1>1. /\ stored' = stored /\ fromStored' = fromStored /\ stage' = "connected" /\ PutId(info.token)
      /\ TypeOK /\ OfOneUser(info) /\ info \in Infos /\ fromStored \in BOOLEAN
  BY DEF AcceptLogon, IInv, TypeOK, Shape, LogonIsOfOneUser
<1>2. /\ info' \in Infos /\ info'.id = info.token /\ OfOneUser(info')
      /\ initialized' \in BOOLEAN /\ changed' \in BOOLEAN
  BY <1>1, PutIdOfOneUser
<1>3. info.token \in Users  BY <1>1, OneUserComplete
<1>4. Shape'
  BY <1>1, <1>2 DEF Shape, NoTokenYet, Accepted, LogonIsOfOneUser, CompleteIsOfOneUser
<1>5. ConnectedHasItsOwn' /\ stage' \in Stages  BY <1>1, <1>2, <1>3 DEF ConnectedHasItsOwn, Stages
<1> QED  BY <1>1, <1>2, <1>4, <1>5, KeepsStored

LEMMA RefuseLogonStep ==
    ASSUME IInv, NEW id \in {Zero, info.token}, RefuseLogon(id)
    PROVE  IInv'
<1>1. /\ stored' = stored /\ fromStored' = fromStored /\ stage' \in {"failed", "denied"}
      /\ PutId(id) /\ TypeOK /\ OfOneUser(info) /\ fromStored \in BOOLEAN
  BY DEF RefuseLogon, IInv, TypeOK, Shape, LogonIsOfOneUser
<1>2. /\ info' \in Infos /\ OfOneUser(info')
      /\ initialized' \in BOOLEAN /\ changed' \in BOOLEAN
  BY <1>1, PutIdOfOneUser
<1>3. Shape'
  BY <1>1, <1>2 DEF Shape, NoTokenYet, Accepted, LogonIsOfOneUser, CompleteIsOfOneUser
<1>4. ConnectedHasItsOwn' /\ stage' \in Stages  BY <1>1 DEF ConnectedHasItsOwn, Stages
<1> QED  BY <1>1, <1>2, <1>3, <1>4, KeepsStored

(* The cache is blank at a page, after a loss or in a new process.         *)
LEMMA BlankStep ==
    ASSUME IInv, info' = Blank, initialized' \in BOOLEAN, changed' \in BOOLEAN,
           fromStored' \in BOOLEAN, stored' = stored, stage' \in {"login", "out", "start"}
    PROVE  IInv'
<1>1. info'.persona = None /\ info'.token = None  BY DEF Blank
<1>2. info' \in Infos /\ ~IsInitialized(info')  BY BlankIncomplete
<1>3. Shape'
  BY <1>1, <1>2 DEF Shape, NoTokenYet, Accepted, LogonIsOfOneUser, CompleteIsOfOneUser
<1>4. ConnectedHasItsOwn' /\ stage' \in Stages  BY DEF ConnectedHasItsOwn, Stages
<1> QED  BY <1>2, <1>3, <1>4, KeepsStored

LEMMA TickStep == ASSUME IInv, Tick PROVE IInv'
<1>1. info' = info /\ initialized' = initialized /\ stage' = stage /\ fromStored' = fromStored
  BY DEF Tick
<1>2. changed' = FALSE /\ stored' = ToDict  BY DEF Tick
<1>3. info \in Infos  BY DEF IInv, TypeOK
<1>4. CASE IsInitialized(info)
  <2>1. stored' = info /\ OfOneUser(info)
    BY <1>2, <1>4 DEF ToDict, IInv, Shape, CompleteIsOfOneUser
  <2>2. TypeOK'  BY <1>1, <1>2, <1>3, <1>4, <2>1 DEF IInv, TypeOK
  <2>3. StoredIsOfOneUser'  BY <2>1 DEF StoredIsOfOneUser
  <2> QED  BY <1>1, <2>2, <2>3
           DEF IInv, Shape, NoTokenYet, Accepted, LogonIsOfOneUser, CompleteIsOfOneUser,
               ConnectedHasItsOwn
<1>5. CASE ~IsInitialized(info)
  <2>1. stored' = Blank  BY <1>2, <1>5 DEF ToDict
  <2>2. TypeOK'  BY <1>1, <1>2, <2>1, BlankIncomplete DEF IInv, TypeOK
  <2>3. StoredIsOfOneUser'  BY <2>1 DEF StoredIsOfOneUser
  <2> QED  BY <1>1, <2>2, <2>3
           DEF IInv, Shape, NoTokenYet, Accepted, LogonIsOfOneUser, CompleteIsOfOneUser,
               ConnectedHasItsOwn
<1> QED  BY <1>4, <1>5

(* The dialogue ends, or goes back to the first page, and writes nothing.  *)
LEMMA IdleStep == ASSUME IInv, Expire \/ Fail PROVE IInv'
<1>1. /\ info' = info /\ initialized' = initialized /\ changed' = changed
      /\ stored' = stored /\ fromStored' = fromStored
  BY DEF Expire, Fail
<1>2. (stage = "code" /\ stage' = "login") \/ stage' = "failed"  BY DEF Expire, Fail
<1>3. Shape'
  BY <1>1, <1>2
     DEF IInv, Shape, NoTokenYet, Accepted, LogonIsOfOneUser, CompleteIsOfOneUser
<1>4. ConnectedHasItsOwn' /\ stage' \in Stages  BY <1>2 DEF ConnectedHasItsOwn, Stages
<1> QED  BY <1>1, <1>3, <1>4, KeepsStored DEF IInv, TypeOK

--------------------------------------------------------------------------------
LEMMA StepInv == IInv /\ [Next]_vars => IInv'
<1> SUFFICES ASSUME IInv, [Next]_vars PROVE IInv'  OBVIOUS
<1>0. initialized \in BOOLEAN /\ changed \in BOOLEAN /\ fromStored \in BOOLEAN
  BY DEF IInv, TypeOK
<1>1. CASE Authenticate  BY <1>1, AuthenticateStep
<1>2. CASE TakeName  BY <1>2, TakeNameStep
<1>3. CASE Confirm  BY <1>3, ConfirmStep
<1>4. CASE Expire \/ Fail  BY <1>4, IdleStep
<1>5. CASE AcceptLogon  BY <1>5, AcceptLogonStep
<1>6. ASSUME NEW user \in Users, AcceptPassword(user) PROVE IInv'  BY <1>6, AcceptPasswordStep
<1>7. ASSUME NEW id \in {Zero, info.token}, RefuseLogon(id) PROVE IInv'  BY <1>7, RefuseLogonStep
<1>8. CASE ForgetDenied  BY <1>0, <1>8, BlankStep DEF ForgetDenied, Clear
<1>9. CASE LoseLogin  BY <1>0, <1>9, BlankStep DEF LoseLogin, Clear
<1>10. CASE Tick  BY <1>10, TickStep
<1>11. CASE Restart  BY <1>11, BlankStep DEF Restart
<1>12. CASE UNCHANGED vars
  BY <1>12 DEF vars, IInv, TypeOK, Shape, NoTokenYet, Accepted, LogonIsOfOneUser,
               CompleteIsOfOneUser, StoredIsOfOneUser, ConnectedHasItsOwn
<1> QED  BY <1>1, <1>2, <1>3, <1>4, <1>5, <1>6, <1>7, <1>8, <1>9, <1>10, <1>11, <1>12 DEF Next

LEMMA Invariance == Spec => []IInv
<1>1. Init => IInv  BY InitInv
<1>2. IInv /\ [Next]_vars => IInv'  BY StepInv
<1> QED  BY <1>1, <1>2, PTL DEF Spec

(* The types of the credentials, for any accounts; what is stored is       *)
(* complete or nothing (user_info_cache.py 27-47).                         *)
THEOREM TypeCorrect == Spec => []TypeOK
<1>1. IInv => TypeOK  BY DEF IInv
<1> QED  BY <1>1, Invariance, PTL

(* What is stored never mixes two users (backend_steam_network.py 166-167).*)
THEOREM StoredOfOneUser == Spec => []StoredIsOfOneUser
<1>1. IInv => StoredIsOfOneUser  BY DEF IInv
<1> QED  BY <1>1, Invariance, PTL

(* A connected user has complete credentials of his own, with his id       *)
(* (protocol_client.py 278-292).                                           *)
THEOREM ConnectedOwn == Spec => []ConnectedHasItsOwn
<1>1. IInv => ConnectedHasItsOwn  BY DEF IInv
<1> QED  BY <1>1, Invariance, PTL

--------------------------------------------------------------------------------
(* Whatever a setter writes, what is complete afterwards is marked unless  *)
(* the setter wrote nothing new.                                           *)
LEMMA PutKeepsMark ==
    ASSUME UnmarkedIsStored, NEW new, Put(new), stored' = stored
    PROVE  UnmarkedIsStored'
<1> SUFFICES ASSUME IsInitialized(info'), ~changed' PROVE stored' = info'
  BY DEF UnmarkedIsStored
<1>1. /\ info' = new
      /\ changed' = (changed \/ (IF initialized THEN new # info ELSE IsInitialized(new)))
  BY DEF Put
<1>2. initialized /\ new = info /\ ~changed  BY <1>1
<1> QED  BY <1>1, <1>2 DEF UnmarkedIsStored

LEMMA PutIdKeepsMark ==
    ASSUME UnmarkedIsStored, NEW id, PutId(id), stored' = stored
    PROVE  UnmarkedIsStored'
<1>1. CASE id = info.id
  <2>1. info' = info /\ changed' = changed  BY <1>1 DEF PutId
  <2> QED  BY <2>1 DEF UnmarkedIsStored
<1>2. CASE id # info.id
  <2>1. Put([info EXCEPT !.id = id])  BY <1>2 DEF PutId
  <2> QED  BY <2>1, PutKeepsMark
<1> QED  BY <1>1, <1>2

LEMMA MarkStep == UnmarkedIsStored /\ [Next]_vars => UnmarkedIsStored'
<1> SUFFICES ASSUME UnmarkedIsStored, [Next]_vars PROVE UnmarkedIsStored'  OBVIOUS
<1>1. CASE Authenticate
  <2>1. info' = stored /\ stored' = stored  BY <1>1 DEF Authenticate
  <2> QED  BY <2>1 DEF UnmarkedIsStored
<1>2. CASE TakeName
  <2>1. Put([info EXCEPT !.name = info.id]) /\ stored' = stored  BY <1>2 DEF TakeName
  <2> QED  BY <2>1, PutKeepsMark
<1>3. CASE Confirm
  <2>1. Put([info EXCEPT !.token = info.id, !.persona = info.id]) /\ stored' = stored
    BY <1>3 DEF Confirm
  <2> QED  BY <2>1, PutKeepsMark
<1>4. CASE Expire \/ Fail  BY <1>4 DEF Expire, Fail, UnmarkedIsStored
<1>5. CASE AcceptLogon
  <2>1. PutId(info.token) /\ stored' = stored  BY <1>5 DEF AcceptLogon
  <2> QED  BY <2>1, PutIdKeepsMark
<1>6. ASSUME NEW user \in Users, AcceptPassword(user) PROVE UnmarkedIsStored'
  <2>1. PutId(user) /\ stored' = stored  BY <1>6 DEF AcceptPassword
  <2> QED  BY <2>1, PutIdKeepsMark
<1>7. ASSUME NEW id \in {Zero, info.token}, RefuseLogon(id) PROVE UnmarkedIsStored'
  <2>1. PutId(id) /\ stored' = stored  BY <1>7 DEF RefuseLogon
  <2> QED  BY <2>1, PutIdKeepsMark
<1>8. CASE ForgetDenied \/ LoseLogin \/ Restart
  <2>1. info' = Blank  BY <1>8 DEF ForgetDenied, LoseLogin, Restart, Clear
  <2> QED  BY <2>1, BlankIncomplete DEF UnmarkedIsStored
<1>9. CASE Tick
  <2>1. info' = info /\ stored' = ToDict  BY <1>9 DEF Tick
  <2> QED  BY <2>1 DEF ToDict, UnmarkedIsStored
<1>10. CASE UNCHANGED vars  BY <1>10 DEF vars, UnmarkedIsStored
<1> QED  BY <1>1, <1>2, <1>3, <1>4, <1>5, <1>6, <1>7, <1>8, <1>9, <1>10 DEF Next

(* What is complete and not marked as changed is what Galaxy has, for any  *)
(* accounts (user_info_cache.py 32-75, 133): with the tick that fairness   *)
(* brings, the safety half of ConnectedIsStored.                           *)
THEOREM UnmarkedStored == Spec => []UnmarkedIsStored
<1>1. Init => UnmarkedIsStored  BY BlankIncomplete DEF Init, UnmarkedIsStored
<1>2. UnmarkedIsStored /\ [Next]_vars => UnmarkedIsStored'  BY MarkStep
<1> QED  BY <1>1, <1>2, PTL DEF Spec
================================================================================
