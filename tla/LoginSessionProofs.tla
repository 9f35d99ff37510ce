------------------------- MODULE LoginSessionProofs -------------------------
(***************************************************************************)
(* Proofs about LoginSession, for any users, terminals and limits, any     *)
(* number of concurrent logins and any faults.                             *)
(***************************************************************************)
EXTENDS LoginSession, TLAPS

(***************************************************************************)
(* The inductive invariant.  The shape of the tokens is not inductive      *)
(* alone: what a token names was checked when its login looked at the      *)
(* terminal.  What Lockout needs of a patient user is that the copy its    *)
(* one login carries is still that of the row, or one failure or success   *)
(* away from it.                                                           *)
(***************************************************************************)
LoginChecked(l) ==
    login[l] # NoLogin =>
        /\ login[l].dev = None <=> ~user[login[l].user].agent
        /\ login[l].pc \notin {"device", "rejectAudit"} /\ login[l].dev # None
              => DeviceUser[login[l].dev] = login[l].user

\* What a login has in hand when the PIN has been checked.
Attempted(r) ==
    IF r.valid THEN r.ent = NoAccount
    ELSE /\ r.ent.attempts = account[r.user].attempts + 1
         /\ r.ent.lockedUntil \in Lock!LockEnds(r.user)

PatientLogin(l) ==
    login[l] # NoLogin /\ user[login[l].user].patient =>
        /\ \A other \in Logins : login[other].user = login[l].user => other = l
        /\ login[l].pc \in {"device", "verify", "select", "update"}
              => ~Locked(login[l].user)
        /\ login[l].pc \in {"device", "verify"} => login[l].ent = account[login[l].user]
        /\ login[l].pc \in {"select", "update"} => Attempted(login[l])
        /\ login[l].pc = "update" => login[l].loaded = account[login[l].user]

IInv ==
    /\ LoginTypeOK
    /\ \A l \in Logins : LoginChecked(l)
    /\ \A l \in Logins : PatientLogin(l)

-----------------------------------------------------------------------------
(* The shape of the requests.                                              *)

\* A login that is under way.
Live ==
    [pc : LoginPC, user : Users, dev : Devices \cup {None}, valid : BOOLEAN,
     ent : Account, loaded : Account]

LEMMA UnderWay ==
    ASSUME LoginTypeOK, NEW l \in Logins
    PROVE  /\ login[l].pc \in LoginPC => login[l] \in Live
           /\ login[l] # NoLogin => login[l].pc \in LoginPC
           /\ login[l].pc \in LoginPC => login[l] # NoLogin
BY DEF LoginTypeOK, LoginRequest, LoginPC, NoLogin, Live

LEMMA FreeSlot ==
    ASSUME NEW r, r = NoLogin
    PROVE  r.pc = "idle" /\ r.user = None /\ r.dev = None
BY DEF NoLogin

LEMMA NoAccountIsAccount == NoAccount \in Account
BY LoginAssumption DEF NoAccount, Account, Never, Forever

LEMMA FailedIsAccount ==
    ASSUME clock \in Time, NEW a \in Account
    PROVE  Failed(a) \in Account
<1>1. clock + LockTime \in 0 .. Forever /\ Forever \in 0 .. Forever
  BY LoginAssumption DEF Time, Forever
<1>2. a.attempts + 1 \in Nat /\ a.lockedUntil \in 0 .. Forever
  BY DEF Account
<1> QED BY <1>1, <1>2 DEF Failed, Account

LEMMA SavedIsAccount ==
    ASSUME NEW ent \in Account, NEW loaded \in Account, NEW row \in Account
    PROVE  Saved(ent, loaded, row) \in Account
BY DEF Saved, Column, Account

\* The save of a copy whose row did not change writes the copy.
LEMMA SavedOverLoaded ==
    ASSUME NEW ent \in Account, NEW row \in Account
    PROVE  Saved(ent, row, row) = ent
BY DEF Saved, Column, Account

\* One login takes a step, the others stay where they are.
OneLogin(l, r) ==
    /\ r \in LoginRequest
    /\ login' \in [Logins -> LoginRequest]
    /\ login'[l] = r
    /\ \A other \in Logins \ {l} : login'[other] = login[other]

\* ... and stays the attempt it is.
SameAttempt(l) ==
    /\ login[l] # NoLogin /\ login'[l] # NoLogin
    /\ login'[l].user = login[l].user
    /\ login'[l].dev = login[l].dev
    /\ login'[l].valid = login[l].valid

LEMMA AttemptGoesOn ==
    ASSUME NEW l \in Logins, login[l].pc # "idle", login'[l].pc # "idle",
           login'[l].user = login[l].user, login'[l].dev = login[l].dev,
           login'[l].valid = login[l].valid
    PROVE  SameAttempt(l)
BY FreeSlot DEF SameAttempt

LEMMA OneLoginMoves ==
    ASSUME LoginTypeOK, NEW l \in Logins, NEW r \in LoginRequest,
           login' = [login EXCEPT ![l] = r]
    PROVE  OneLogin(l, r)
BY DEF LoginTypeOK, OneLogin

LEMMA SlotIsFreed ==
    ASSUME LoginTypeOK, NEW l \in Logins, login' = [login EXCEPT ![l] = NoLogin]
    PROVE  OneLogin(l, NoLogin)
<1>1. NoLogin \in LoginRequest
  BY DEF LoginRequest
<1> QED BY <1>1, OneLoginMoves

(***************************************************************************)
(* What each action makes of the request it is a step of.                  *)
(***************************************************************************)
LEMMA FindStep ==
    ASSUME LoginTypeOK, NEW l \in Logins, NEW u \in Users,
           NEW d \in Devices \cup {None}, NEW valid \in BOOLEAN,
           LoginFind(l, u, d, valid)
    PROVE  OneLogin(l, [pc |-> IF user[u].agent THEN "device" ELSE "verify",
                        user |-> u, dev |-> d, valid |-> valid,
                        ent |-> account[u], loaded |-> NoAccount])
<1>1. account[u] \in Account
  BY DEF LoginTypeOK
<1>2. [pc |-> IF user[u].agent THEN "device" ELSE "verify",
       user |-> u, dev |-> d, valid |-> valid,
       ent |-> account[u], loaded |-> NoAccount] \in LoginRequest
  BY <1>1, NoAccountIsAccount DEF LoginRequest, LoginPC
<1> QED BY <1>2, OneLoginMoves DEF LoginFind

LEMMA CheckStep ==
    ASSUME LoginTypeOK, NEW l \in Logins, CheckDevice(l)
    PROVE  /\ login[l] \in Live
           /\ SameAttempt(l)
           /\ OneLogin(l, [login[l] EXCEPT !.pc =
                IF DeviceUsable(login[l].dev, login[l].user)
                THEN "verify" ELSE "rejectAudit"])
<1>1. login[l] \in Live
  BY UnderWay DEF CheckDevice, LoginPC
<1>2. [login[l] EXCEPT !.pc = IF DeviceUsable(login[l].dev, login[l].user)
                              THEN "verify" ELSE "rejectAudit"] \in LoginRequest
  BY <1>1 DEF Live, LoginRequest, LoginPC
<1>5. /\ login'[l].pc # "idle" /\ login'[l].user = login[l].user
      /\ login'[l].dev = login[l].dev /\ login'[l].valid = login[l].valid
  BY <1>1 DEF CheckDevice, LoginTypeOK, Live
<1>6. SameAttempt(l)
  BY <1>5, AttemptGoesOn DEF CheckDevice
<1> QED BY <1>1, <1>6, <1>2, OneLoginMoves DEF CheckDevice

LEMMA VerifyStep ==
    ASSUME LoginTypeOK, NEW l \in Logins, VerifyPin(l)
    PROVE  /\ login[l] \in Live
           /\ SameAttempt(l)
           /\ OneLogin(l, [login[l] EXCEPT !.pc = "select",
                !.ent = IF login[l].valid THEN NoAccount ELSE Failed(login[l].ent)])
<1>1. login[l] \in Live
  BY UnderWay DEF VerifyPin, LoginPC
<1>2. (IF login[l].valid THEN NoAccount ELSE Failed(login[l].ent)) \in Account
  BY <1>1, NoAccountIsAccount, FailedIsAccount DEF LoginTypeOK, Live
<1>3. [login[l] EXCEPT !.pc = "select",
         !.ent = IF login[l].valid THEN NoAccount ELSE Failed(login[l].ent)]
        \in LoginRequest
  BY <1>1, <1>2 DEF Live, LoginRequest, LoginPC
<1>4. login' = [login EXCEPT ![l] = [login[l] EXCEPT !.pc = "select",
         !.ent = IF login[l].valid THEN NoAccount ELSE Failed(login[l].ent)]]
  BY <1>1 DEF VerifyPin, LoginTypeOK, Live
<1>5. /\ login'[l].pc # "idle" /\ login'[l].user = login[l].user
      /\ login'[l].dev = login[l].dev /\ login'[l].valid = login[l].valid
  BY <1>1, <1>4 DEF LoginTypeOK, Live
<1>6. SameAttempt(l)
  BY <1>5, AttemptGoesOn DEF VerifyPin
<1> QED BY <1>1, <1>6, <1>3, <1>4, OneLoginMoves

LEMMA SelectStep ==
    ASSUME LoginTypeOK, NEW l \in Logins, LoginSelect(l)
    PROVE  /\ login[l] \in Live
           /\ SameAttempt(l)
           /\ OneLogin(l, [login[l] EXCEPT !.pc = "update",
                                           !.loaded = account[login[l].user]])
<1>1. login[l] \in Live
  BY UnderWay DEF LoginSelect, LoginPC
<1>2. [login[l] EXCEPT !.pc = "update", !.loaded = account[login[l].user]]
        \in LoginRequest
  BY <1>1 DEF Live, LoginRequest, LoginPC, LoginTypeOK
<1>3. login' = [login EXCEPT ![l] = [login[l] EXCEPT !.pc = "update",
                                       !.loaded = account[login[l].user]]]
  BY <1>1 DEF LoginSelect, LoginTypeOK, Live
<1>5. /\ login'[l].pc # "idle" /\ login'[l].user = login[l].user
      /\ login'[l].dev = login[l].dev /\ login'[l].valid = login[l].valid
  BY <1>1, <1>3 DEF LoginTypeOK, Live
<1>6. SameAttempt(l)
  BY <1>5, AttemptGoesOn DEF LoginSelect
<1> QED BY <1>1, <1>6, <1>2, <1>3, OneLoginMoves

LEMMA UpdateStep ==
    ASSUME LoginTypeOK, NEW l \in Logins, LoginUpdate(l)
    PROVE  /\ login[l] \in Live
           /\ SameAttempt(l)
           /\ OneLogin(l, [login[l] EXCEPT
                !.pc = IF login[l].valid THEN "successAudit" ELSE "failureAudit",
                !.ent = NoAccount, !.loaded = NoAccount])
           /\ account' \in [Users -> Account]
           /\ account'[login[l].user] =
                Saved(login[l].ent, login[l].loaded, account[login[l].user])
           /\ \A u \in Users \ {login[l].user} : account'[u] = account[u]
<1>1. login[l] \in Live
  BY UnderWay DEF LoginUpdate, LoginPC
<1>2. [login[l] EXCEPT
         !.pc = IF login[l].valid THEN "successAudit" ELSE "failureAudit",
         !.ent = NoAccount, !.loaded = NoAccount] \in LoginRequest
  BY <1>1, NoAccountIsAccount DEF Live, LoginRequest, LoginPC
<1>3. login' = [login EXCEPT ![l] = [login[l] EXCEPT
         !.pc = IF login[l].valid THEN "successAudit" ELSE "failureAudit",
         !.ent = NoAccount, !.loaded = NoAccount]]
  BY <1>1 DEF LoginUpdate, LoginTypeOK, Live
<1>4. Saved(login[l].ent, login[l].loaded, account[login[l].user]) \in Account
  BY <1>1, SavedIsAccount DEF Live, LoginTypeOK
<1>5. /\ login'[l].pc # "idle" /\ login'[l].user = login[l].user
      /\ login'[l].dev = login[l].dev /\ login'[l].valid = login[l].valid
  BY <1>1, <1>3 DEF LoginTypeOK, Live
<1>6. SameAttempt(l)
  BY <1>5, AttemptGoesOn DEF LoginUpdate
<1> QED BY <1>1, <1>6, <1>2, <1>3, <1>4, OneLoginMoves DEF LoginUpdate, LoginTypeOK, Live

-----------------------------------------------------------------------------
(* What a login names stays checked.                                       *)

LEMMA CheckedFrame ==
    ASSUME \A other \in Logins : LoginChecked(other), NEW l \in Logins, NEW r,
           OneLogin(l, r), UNCHANGED user,
           r # NoLogin =>
              /\ r.dev = None <=> ~user[r.user].agent
              /\ r.pc \notin {"device", "rejectAudit"} /\ r.dev # None
                    => DeviceUser[r.dev] = r.user
    PROVE  \A other \in Logins : LoginChecked(other)'
<1> TAKE other \in Logins
<1>1. CASE other = l
  BY <1>1 DEF OneLogin, LoginChecked
<1>2. CASE other # l
  BY <1>2 DEF OneLogin, LoginChecked
<1> QED BY <1>1, <1>2

LEMMA CheckedStep ==
    ASSUME LoginTypeOK, \A l \in Logins : LoginChecked(l), Next
    PROVE  \A l \in Logins : LoginChecked(l)'
<1>1. CASE TerminalChanges \/ Tick
  BY <1>1 DEF TerminalChanges, Tick, LoginChecked
<1>2. CASE \E l \in Logins : \E u \in Users, d \in Devices \cup {None},
              valid \in BOOLEAN : LoginFind(l, u, d, valid)
  <2> PICK l \in Logins, u \in Users, d \in Devices \cup {None}, valid \in BOOLEAN :
         LoginFind(l, u, d, valid)
    BY <1>2
  <2>1. /\ OneLogin(l, login'[l]) /\ UNCHANGED user
        /\ login'[l].user = u /\ login'[l].dev = d
        /\ user[u].agent <=> login'[l].pc = "device"
    BY FindStep DEF LoginFind, OneLogin
  <2>2. d = None <=> ~user[u].agent
    BY DEF LoginFind
  <2> QED BY <2>1, <2>2, CheckedFrame
<1>3. CASE \E l \in Logins : CheckDevice(l)
  <2> PICK l \in Logins : CheckDevice(l)
    BY <1>3
  <2> DEFINE r == [login[l] EXCEPT !.pc =
                     IF DeviceUsable(login[l].dev, login[l].user)
                     THEN "verify" ELSE "rejectAudit"]
  <2>1. login[l] \in Live /\ OneLogin(l, r)
    BY CheckStep
  <2>2. r.dev = login[l].dev /\ r.user = login[l].user
    BY <2>1 DEF Live
  <2>3. r.pc # "rejectAudit" => DeviceUser[r.dev] = r.user
    BY <2>1, <2>2 DEF Live, DeviceUsable
  <2>4. LoginChecked(l) /\ login[l] # NoLogin
    BY UnderWay DEF CheckDevice, LoginPC
  <2> HIDE DEF r
  <2> QED BY <2>1, <2>2, <2>3, <2>4, CheckedFrame DEF CheckDevice, LoginChecked
<1>4. CASE \E l \in Logins : VerifyPin(l) \/ LoginSelect(l) \/ LoginUpdate(l)
  <2> PICK l \in Logins : VerifyPin(l) \/ LoginSelect(l) \/ LoginUpdate(l)
    BY <1>4
  <2>1. /\ login[l] # NoLogin
        /\ login[l].pc \notin {"device", "rejectAudit"}
    BY UnderWay DEF VerifyPin, LoginSelect, LoginUpdate, LoginPC
  <2>2. SameAttempt(l) /\ OneLogin(l, login'[l]) /\ UNCHANGED user
    BY VerifyStep, SelectStep, UpdateStep
       DEF OneLogin, VerifyPin, LoginSelect, LoginUpdate
  <2>3. LoginChecked(l)
    OBVIOUS
  <2> QED BY <2>1, <2>2, <2>3, CheckedFrame DEF SameAttempt, LoginChecked
<1>5. CASE \E l \in Logins : RejectLogin(l) \/ FailLogin(l) \/ SignToken(l) \/ LoseLogin(l)
  <2> PICK l \in Logins : RejectLogin(l) \/ FailLogin(l) \/ SignToken(l) \/ LoseLogin(l)
    BY <1>5
  <2>1. OneLogin(l, NoLogin) /\ UNCHANGED user
    BY SlotIsFreed DEF RejectLogin, FailLogin, SignToken, LoseLogin
  <2> QED BY <2>1, CheckedFrame
<1> QED BY <1>1, <1>2, <1>3, <1>4, <1>5 DEF Next

-----------------------------------------------------------------------------
(* The types.                                                              *)

\* A status that TerminalLife gives is a status.
LEMMA TerminalsKeepType ==
    ASSUME LoginTypeOK, TerminalChanges
    PROVE  status' \in [Devices -> Terminals!Inactive \cup {"active", "absent"}]
BY DEF LoginTypeOK, TerminalChanges, Terminals!Next, Terminals!Enroll,
       Terminals!Deactivate

\* The token of a login that got to its end is one its user may have.
LEMMA SignedIsToken ==
    ASSUME LoginTypeOK, NEW l \in Logins, LoginChecked(l),
           login[l].pc = "successAudit"
    PROVE  [user |-> login[l].user, dev |-> login[l].dev] \in Token
<1>1. login[l] \in Live /\ login[l] # NoLogin
  BY UnderWay DEF LoginPC
<1> QED BY <1>1 DEF Live, LoginChecked, Token

LEMMA TypeStep ==
    ASSUME LoginTypeOK, \A l \in Logins : LoginChecked(l), Next
    PROVE  LoginTypeOK'
<1>1. CASE TerminalChanges
  BY <1>1, TerminalsKeepType DEF LoginTypeOK, TerminalChanges, Token
<1>2. CASE Tick
  BY <1>2, LoginAssumption DEF LoginTypeOK, Tick, Time, Token
<1>3. CASE \E l \in Logins : \E u \in Users, d \in Devices \cup {None},
              valid \in BOOLEAN : LoginFind(l, u, d, valid)
  <2> PICK l \in Logins, u \in Users, d \in Devices \cup {None}, valid \in BOOLEAN :
         LoginFind(l, u, d, valid)
    BY <1>3
  <2> QED BY FindStep DEF LoginFind, OneLogin, LoginTypeOK, Token
<1>4. CASE \E l \in Logins : CheckDevice(l) \/ VerifyPin(l) \/ LoginSelect(l)
  <2> PICK l \in Logins : CheckDevice(l) \/ VerifyPin(l) \/ LoginSelect(l)
    BY <1>4
  <2>1. PICK r : OneLogin(l, r)
    BY CheckStep, VerifyStep, SelectStep
  <2> QED BY <2>1 DEF CheckDevice, VerifyPin, LoginSelect, OneLogin, LoginTypeOK, Token
<1>5. CASE \E l \in Logins : LoginUpdate(l)
  <2> PICK l \in Logins : LoginUpdate(l)
    BY <1>5
  <2> QED BY UpdateStep DEF LoginUpdate, OneLogin, LoginTypeOK, Token
<1>6. CASE \E l \in Logins : RejectLogin(l) \/ FailLogin(l) \/ SignToken(l) \/ LoseLogin(l)
  <2> PICK l \in Logins : RejectLogin(l) \/ FailLogin(l) \/ SignToken(l) \/ LoseLogin(l)
    BY <1>6
  <2>1. login' \in [Logins -> LoginRequest]
    BY SlotIsFreed DEF RejectLogin, FailLogin, SignToken, LoseLogin, OneLogin
  <2>2. audit' \subseteq LoginAudit
    <3>1. CASE LoseLogin(l)
      BY <3>1 DEF LoseLogin, LoginTypeOK
    <3>2. CASE RejectLogin(l) \/ FailLogin(l) \/ SignToken(l)
      <4>1. login[l].dev \in Devices \cup {None} /\ login[l].user \in Users
        BY <3>2, UnderWay DEF RejectLogin, FailLogin, SignToken, LoginPC, Live
      <4> QED BY <3>2, <4>1 DEF RejectLogin, FailLogin, SignToken, Record, Entry,
                 LoginTypeOK, LoginAudit
    <3> QED BY <3>1, <3>2
  <2>3. tokens' \subseteq Token
    <3>1. CASE SignToken(l)
      BY <3>1, SignedIsToken DEF SignToken, LoginTypeOK
    <3>2. CASE RejectLogin(l) \/ FailLogin(l) \/ LoseLogin(l)
      BY <3>2 DEF RejectLogin, FailLogin, LoseLogin, LoginTypeOK
    <3> QED BY <3>1, <3>2
  <2> QED BY <2>1, <2>2, <2>3 DEF RejectLogin, FailLogin, SignToken, LoseLogin,
             LoginTypeOK, Token
<1> QED BY <1>1, <1>2, <1>3, <1>4, <1>5, <1>6 DEF Next

-----------------------------------------------------------------------------
(* The copy a patient user's login carries.                                *)

\* The abstract lockout of a patient user is in the row, and the ends a lock may
\* have only become more as time goes by.
LEMMA EndsOf ==
    ASSUME NEW u \in Users, user[u].patient
    PROVE  Lock!LockEnds(u) =
             IF account[u].attempts + 1 = SoftLimit
             THEN {t + LockTime : t \in account[u].lockedUntil .. clock}
             ELSE IF account[u].attempts + 1 >= HardLimit THEN {Forever}
             ELSE {account[u].lockedUntil}
BY DEF Lock!LockEnds

LEMMA EndsStay ==
    ASSUME LoginTypeOK, NEW u \in Users, user[u].patient,
           UNCHANGED user, account'[u] = account[u], clock' \in {clock, clock + 1}
    PROVE  Lock!LockEnds(u) \subseteq Lock!LockEnds(u)'
<1>1. clock \in Int /\ clock <= clock' /\ clock' \in Int
  BY DEF LoginTypeOK, Time
<1>2. account[u].lockedUntil \in Int
  BY DEF LoginTypeOK, Account
<1>3. account[u].lockedUntil .. clock \subseteq account[u].lockedUntil .. clock'
  BY <1>1, <1>2
<1>4. Lock!LockEnds(u)' =
        IF account[u].attempts + 1 = SoftLimit
        THEN {t + LockTime : t \in account[u].lockedUntil .. clock'}
        ELSE IF account[u].attempts + 1 >= HardLimit THEN {Forever}
        ELSE {account[u].lockedUntil}
  BY DEF Lock!LockEnds
<1> QED BY <1>3, <1>4, EndsOf

LEMMA PatientFrame ==
    ASSUME IInv, NEW l \in Logins, OneLogin(l, login'[l]), UNCHANGED <<user, clock>>,
           \A u \in Users \ {login[l].user} : account'[u] = account[u],
           \/ login'[l].user \in {login[l].user, None}
           \/ user[login'[l].user].patient =>
                 \A other \in Logins : login[other].user # login'[l].user,
           PatientLogin(l)'
    PROVE  \A m \in Logins : PatientLogin(m)'
<1> TAKE m \in Logins
<1>1. CASE m = l
  BY <1>1
<1>2. CASE m # l
  <2> SUFFICES ASSUME login[m] # NoLogin, user[login[m].user].patient
               PROVE  PatientLogin(m)'
    BY <1>2 DEF OneLogin, PatientLogin
  <2> DEFINE u == login[m].user
  <2>1. login'[m] = login[m] /\ login[m] \in Live /\ u \in Users
    BY <1>2, UnderWay DEF OneLogin, Live, IInv
  <2>2. PatientLogin(m) /\ LoginTypeOK
    BY DEF IInv
  <2>3. login[l].user # u
    BY <1>2, <2>2 DEF PatientLogin
  <2>4. login'[l].user # u
    <3>1. CASE login'[l].user \in {login[l].user, None}
      BY <2>1, <2>3, <3>1, LoginAssumption
    <3>2. CASE user[login'[l].user].patient =>
                  \A other \in Logins : login[other].user # login'[l].user
      BY <3>2
    <3> QED BY <3>1, <3>2
  <2>5. account'[u] = account[u]
    BY <2>1, <2>3
  <2>6. \A other \in Logins : login'[other].user = u => other = m
    BY <2>2, <2>4 DEF PatientLogin, OneLogin
  <2>7. Locked(u)' <=> Locked(u)
    BY <2>1, <2>5 DEF Locked
  <2>8. Attempted(login[m]) => Attempted(login[m])'
    <3>1. Lock!LockEnds(u) \subseteq Lock!LockEnds(u)'
      BY <2>1, <2>2, <2>5, EndsStay
    <3> QED BY <2>1, <2>5, <3>1 DEF Attempted
  <2>9. login'[m].user = login[m].user /\ login'[m].pc = login[m].pc
        /\ login'[m].ent = login[m].ent /\ login'[m].loaded = login[m].loaded
    BY <2>1
  <2> QED BY <2>2, <2>5, <2>6, <2>7, <2>8, <2>9 DEF PatientLogin
<1> QED BY <1>1, <1>2

\* Where no login moves, the copies stay what they are.
LEMMA NothingPasses ==
    ASSUME IInv, UNCHANGED <<login, user, account>>, clock' \in {clock, clock + 1}
    PROVE  \A l \in Logins : PatientLogin(l)'
<1> TAKE l \in Logins
<1> SUFFICES ASSUME login[l] # NoLogin, user[login[l].user].patient
             PROVE  PatientLogin(l)'
  BY DEF PatientLogin
<1>1. login[l] \in Live /\ UNCHANGED <<login, user, account>>
  BY UnderWay DEF IInv
<1>2. PatientLogin(l) /\ LoginTypeOK /\ clock' \in {clock, clock + 1}
  BY DEF IInv
<1>3. ~Locked(login[l].user) => ~Locked(login[l].user)'
  BY <1>1, <1>2 DEF Locked, Live, LoginTypeOK, Account, Time
<1>4. Lock!LockEnds(login[l].user) \subseteq Lock!LockEnds(login[l].user)'
  BY <1>1, <1>2, EndsStay DEF Live
<1>5. Attempted(login[l]) => Attempted(login[l])'
  BY <1>1, <1>4 DEF Attempted
<1> QED BY <1>1, <1>2, <1>3, <1>5 DEF PatientLogin

LEMMA PatientStep ==
    ASSUME IInv, Next
    PROVE  \A l \in Logins : PatientLogin(l)'
<1> USE DEF IInv
<1>1. CASE TerminalChanges \/ Tick
  BY <1>1, NothingPasses DEF TerminalChanges, Tick
<1>2. CASE \E l \in Logins : \E u \in Users, d \in Devices \cup {None},
              valid \in BOOLEAN : LoginFind(l, u, d, valid)
  <2> PICK l \in Logins, u \in Users, d \in Devices \cup {None}, valid \in BOOLEAN :
         LoginFind(l, u, d, valid)
    BY <1>2
  <2>1. /\ OneLogin(l, login'[l])
        /\ login'[l].user = u /\ login'[l].ent = account[u]
        /\ login'[l].pc \in {"device", "verify"}
        /\ UNCHANGED <<user, clock, account>>
    BY FindStep DEF LoginFind, OneLogin
  <2>2. ~Locked(u)
    BY DEF LoginFind, Refused
  <2>3. user[u].patient => \A other \in Logins : login[other].user # u
    BY DEF LoginFind
  <2>4. PatientLogin(l)'
    BY <2>1, <2>2, <2>3 DEF PatientLogin, OneLogin, Locked
  <2> QED BY <2>1, <2>3, <2>4, PatientFrame
<1>3. CASE \E l \in Logins : CheckDevice(l) \/ VerifyPin(l) \/ LoginSelect(l) \/ LoginUpdate(l)
  <2> PICK l \in Logins : CheckDevice(l) \/ VerifyPin(l) \/ LoginSelect(l) \/ LoginUpdate(l)
    BY <1>3
  <2>1. /\ SameAttempt(l) /\ OneLogin(l, login'[l]) /\ login[l] \in Live
        /\ UNCHANGED <<user, clock>>
        /\ \A u \in Users \ {login[l].user} : account'[u] = account[u]
    BY CheckStep, VerifyStep, SelectStep, UpdateStep
       DEF OneLogin, CheckDevice, VerifyPin, LoginSelect, LoginUpdate
  <2>2. PatientLogin(l)'
    <3> SUFFICES ASSUME user[login[l].user].patient
                 PROVE  PatientLogin(l)'
      BY <2>1 DEF SameAttempt, PatientLogin
    <3>1. PatientLogin(l) /\ login[l] # NoLogin
      BY <2>1 DEF SameAttempt
    <3>2. \A other \in Logins : login'[other].user = login'[l].user => other = l
      BY <2>1, <3>1 DEF PatientLogin, OneLogin, SameAttempt
    <3>3. CASE CheckDevice(l)
      <4>1. /\ login'[l].pc \in {"verify", "rejectAudit"}
            /\ login'[l].ent = login[l].ent
            /\ login[l].pc = "device" /\ UNCHANGED account
        BY <3>3, CheckStep DEF CheckDevice, OneLogin, Live
      <4> QED BY <2>1, <3>1, <3>2, <4>1 DEF PatientLogin, SameAttempt, Locked
    <3>4. CASE VerifyPin(l)
      <4>1. /\ login'[l].pc = "select" /\ login[l].pc = "verify"
            /\ login'[l].ent = IF login[l].valid THEN NoAccount ELSE Failed(login[l].ent)
            /\ UNCHANGED account
        BY <3>4, VerifyStep DEF VerifyPin, OneLogin, Live
      <4>2. login[l].ent = account[login[l].user] /\ ~Locked(login[l].user)
        BY <3>1, <4>1 DEF PatientLogin
      <4>3. Failed(account[login[l].user]).lockedUntil \in Lock!LockEnds(login[l].user)
        <5>1. clock \in account[login[l].user].lockedUntil .. clock
          BY <2>1, <4>2 DEF Locked, LoginTypeOK, Time, Account, Live
        <5>2. account[login[l].user].attempts \in Nat
          BY <2>1 DEF LoginTypeOK, Account, Live
        <5> QED BY <2>1, <5>1, <5>2, EndsOf, LoginAssumption DEF Failed, Live
      <4>4. Failed(account[login[l].user]).attempts = account[login[l].user].attempts + 1
        BY DEF Failed
      <4>5. Lock!LockEnds(login[l].user) \subseteq Lock!LockEnds(login[l].user)'
        BY <2>1, <4>1, EndsStay DEF Live, SameAttempt
      <4>6. Attempted(login[l])'
        BY <2>1, <4>1, <4>2, <4>3, <4>4, <4>5 DEF Attempted, SameAttempt
      <4> QED BY <2>1, <3>2, <4>1, <4>2, <4>6 DEF PatientLogin, SameAttempt, Locked
    <3>5. CASE LoginSelect(l)
      <4>1. /\ login'[l].pc = "update" /\ login[l].pc = "select"
            /\ login'[l].ent = login[l].ent
            /\ login'[l].loaded = account[login[l].user]
            /\ UNCHANGED account
        BY <3>5, SelectStep DEF LoginSelect, OneLogin, Live
      <4>2. Attempted(login[l]) /\ ~Locked(login[l].user)
        BY <3>1, <4>1 DEF PatientLogin
      <4>3. Lock!LockEnds(login[l].user) \subseteq Lock!LockEnds(login[l].user)'
        BY <2>1, <4>1, EndsStay DEF Live, SameAttempt
      <4>4. Attempted(login[l])'
        BY <2>1, <4>1, <4>2, <4>3 DEF Attempted, SameAttempt
      <4> QED BY <2>1, <3>2, <4>1, <4>2, <4>4 DEF PatientLogin, SameAttempt, Locked
    <3>6. CASE LoginUpdate(l)
      <4>1. login'[l].pc \in {"successAudit", "failureAudit"}
        BY <3>6, UpdateStep DEF OneLogin, Live
      <4> QED BY <3>2, <4>1 DEF PatientLogin
    <3> QED BY <3>3, <3>4, <3>5, <3>6
  <2> QED BY <2>1, <2>2, PatientFrame DEF SameAttempt
<1>4. CASE \E l \in Logins : RejectLogin(l) \/ FailLogin(l) \/ SignToken(l) \/ LoseLogin(l)
  <2> PICK l \in Logins : RejectLogin(l) \/ FailLogin(l) \/ SignToken(l) \/ LoseLogin(l)
    BY <1>4
  <2>1. OneLogin(l, NoLogin) /\ UNCHANGED <<user, clock, account>>
    BY SlotIsFreed DEF RejectLogin, FailLogin, SignToken, LoseLogin
  <2>2. login'[l] = NoLogin /\ login'[l].user = None
    BY <2>1, FreeSlot DEF OneLogin
  <2>3. PatientLogin(l)'
    BY <2>2 DEF PatientLogin
  <2> QED BY <2>1, <2>2, <2>3, PatientFrame
<1> QED BY <1>1, <1>2, <1>3, <1>4 DEF Next

-----------------------------------------------------------------------------
(* The theorems.                                                           *)

LEMMA IInvHolds == Spec => []IInv
<1>1. Init => IInv
  <2> SUFFICES ASSUME Init PROVE IInv
    OBVIOUS
  <2>1. NoAccount \in Account /\ NoLogin \in LoginRequest
    BY NoAccountIsAccount DEF LoginRequest
  <2>2. LoginTypeOK
    BY <2>1, LoginAssumption DEF Init, LoginTypeOK, Time
  <2> QED BY <2>2 DEF Init, IInv, LoginChecked, PatientLogin
<1>2. IInv /\ [Next]_vars => IInv'
  <2> SUFFICES ASSUME IInv, [Next]_vars PROVE IInv'
    OBVIOUS
  <2>1. CASE Next
    BY <2>1, TypeStep, CheckedStep, PatientStep DEF IInv
  <2>2. CASE UNCHANGED vars
    <3>1. LoginTypeOK'
      BY <2>2 DEF vars, IInv, LoginTypeOK, Token
    <3>2. \A l \in Logins : LoginChecked(l)'
      BY <2>2 DEF vars, IInv, LoginChecked
    <3>3. \A l \in Logins : PatientLogin(l)'
      BY <2>2, NothingPasses DEF vars
    <3> QED BY <3>1, <3>2, <3>3 DEF IInv
  <2> QED BY <2>1, <2>2
<1> QED BY <1>1, <1>2, PTL DEF Spec

(***************************************************************************)
(* Accounts, requests and tokens keep their shape; in particular an        *)
(* agent's token names a terminal of that agent.                           *)
(***************************************************************************)
THEOREM LoginTypeCorrect == Spec => []LoginTypeOK
<1>1. IInv => LoginTypeOK
  BY DEF IInv
<1> QED BY <1>1, IInvHolds, PTL

\* Nothing but the check lets a login past it, and the check reads the status.
LEMMA OutOfServiceStep ==
    ASSUME LoginTypeOK, Next, NEW d \in Devices, OutOfService(d)
    PROVE  /\ OutOfService(d)'
           /\ {t \in tokens' : t.dev = d} = {t \in tokens : t.dev = d}
<1>1. status'[d] \in Terminals!Inactive
  <2>1. CASE TerminalChanges
    BY <2>1 DEF TerminalChanges, Terminals!Next, Terminals!Enroll,
                Terminals!Deactivate, Terminals!Inactive, OutOfService, LoginTypeOK
  <2>2. CASE UNCHANGED status
    BY <2>2 DEF OutOfService
  <2> QED BY <2>1, <2>2 DEF Next, Tick, LoginFind, CheckDevice, RejectLogin, VerifyPin,
             LoginSelect, LoginUpdate, FailLogin, SignToken, LoseLogin
<1>2. SUFFICES /\ ~LoggingInWith(d)'
               /\ {t \in tokens' : t.dev = d} = {t \in tokens : t.dev = d}
  BY <1>1 DEF OutOfService
<1>3. CASE TerminalChanges \/ Tick
  BY <1>3 DEF TerminalChanges, Tick, OutOfService, LoggingInWith
<1>4. CASE \E l \in Logins : \E u \in Users, e \in Devices \cup {None},
              valid \in BOOLEAN : LoginFind(l, u, e, valid)
  <2> PICK l \in Logins, u \in Users, e \in Devices \cup {None}, valid \in BOOLEAN :
         LoginFind(l, u, e, valid)
    BY <1>4
  <2>1. e = d => user[u].agent
    BY LoginAssumption DEF LoginFind
  <2>2. /\ OneLogin(l, login'[l]) /\ login'[l].dev = e /\ UNCHANGED tokens
        /\ user[u].agent => login'[l].pc = "device"
    BY FindStep DEF LoginFind, OneLogin
  <2> QED BY <2>1, <2>2 DEF OneLogin, OutOfService, LoggingInWith
<1>5. CASE \E l \in Logins : CheckDevice(l)
  <2> PICK l \in Logins : CheckDevice(l)
    BY <1>5
  <2>1. /\ OneLogin(l, login'[l]) /\ SameAttempt(l) /\ UNCHANGED tokens
        /\ login[l].dev = d => login'[l].pc = "rejectAudit"
    BY CheckStep DEF CheckDevice, OneLogin, Live, DeviceUsable, OutOfService,
                     Terminals!Inactive
  <2> QED BY <2>1 DEF OneLogin, SameAttempt, OutOfService, LoggingInWith
<1>6. CASE \E l \in Logins : VerifyPin(l) \/ LoginSelect(l) \/ LoginUpdate(l)
  <2> PICK l \in Logins : VerifyPin(l) \/ LoginSelect(l) \/ LoginUpdate(l)
    BY <1>6
  <2>1. /\ OneLogin(l, login'[l]) /\ SameAttempt(l) /\ UNCHANGED tokens
        /\ login[l].pc \notin {"device", "rejectAudit"}
    BY VerifyStep, SelectStep, UpdateStep
       DEF OneLogin, VerifyPin, LoginSelect, LoginUpdate
  <2> QED BY <2>1 DEF OneLogin, SameAttempt, OutOfService, LoggingInWith
<1>7. CASE \E l \in Logins : RejectLogin(l) \/ FailLogin(l) \/ SignToken(l) \/ LoseLogin(l)
  <2> PICK l \in Logins : RejectLogin(l) \/ FailLogin(l) \/ SignToken(l) \/ LoseLogin(l)
    BY <1>7
  <2>1. OneLogin(l, NoLogin)
    BY SlotIsFreed DEF RejectLogin, FailLogin, SignToken, LoseLogin
  <2>2. ~LoggingInWith(d)'
    BY <2>1, FreeSlot, LoginAssumption DEF OneLogin, LoggingInWith, OutOfService
  <2>3. SignToken(l) => login[l].dev # d
    BY DEF SignToken, LoggingInWith, OutOfService
  <2>4. {t \in tokens' : t.dev = d} = {t \in tokens : t.dev = d}
    BY <2>3 DEF RejectLogin, FailLogin, SignToken, LoseLogin
  <2> QED BY <2>2, <2>4
<1> QED BY <1>3, <1>4, <1>5, <1>6, <1>7 DEF Next

(***************************************************************************)
(* No token is signed for a terminal out of service once the logins past   *)
(* its check have ended: nothing but the check lets a login past it, and   *)
(* the check reads the status.                                             *)
(***************************************************************************)
THEOREM OutOfServiceFinal == Spec => OutOfServiceIsFinal
<1>1. LoginTypeOK /\ [Next]_vars =>
        [\A d \in Devices : OutOfService(d) =>
           /\ OutOfService(d)'
           /\ {t \in tokens' : t.dev = d} = {t \in tokens : t.dev = d}]_vars
  BY OutOfServiceStep
<1> QED BY <1>1, LoginTypeCorrect, PTL DEF Spec, OutOfServiceIsFinal

(***************************************************************************)
(* What a save is to Lockout, for a patient user.  It is the only step     *)
(* that moves it: the copy it writes is one failure or one success away    *)
(* from a row that is not locked, because that user's one login found it   *)
(* so and nothing wrote it since (PatientLogin).                           *)
(***************************************************************************)
\* What Lockout sees of the table of users.
PatientAttempts == [u \in Users |-> IF user[u].patient THEN account[u].attempts ELSE 0]
PatientLocks == [u \in Users |-> IF user[u].patient THEN account[u].lockedUntil ELSE Never]

LEMMA SaveIsOneAttempt ==
    ASSUME IInv, NEW l \in Logins, LoginUpdate(l)
    PROVE  Lock!Next \/ UNCHANGED <<PatientAttempts, PatientLocks, clock>>
<1> PICK u \in Users : u = login[l].user
  BY UnderWay DEF LoginUpdate, IInv, Live, LoginPC
<1>1. /\ login[l] \in Live /\ LoginTypeOK
      /\ PatientLogin(l) /\ login[l] # NoLogin /\ login[l].pc = "update"
      /\ UNCHANGED <<user, clock>>
      /\ account' \in [Users -> Account]
      /\ account'[u] = Saved(login[l].ent, login[l].loaded, account[u])
      /\ \A v \in Users \ {u} : account'[v] = account[v]
  BY UpdateStep, UnderWay DEF LoginUpdate, IInv, Live, LoginPC
<1>2. CASE ~user[u].patient
  <2>1. \A v \in Users : user[v].patient => account'[v] = account[v]
    BY <1>1, <1>2
  <2> QED BY <1>1, <2>1 DEF PatientAttempts, PatientLocks
<1>3. CASE user[u].patient
  <2>1. /\ account'[u] = login[l].ent
        /\ Attempted(login[l])
        /\ ~Locked(u)
    <3>1. Attempted(login[l]) /\ login[l].loaded = account[u] /\ ~Locked(u)
      BY <1>1, <1>3 DEF PatientLogin
    <3> QED BY <1>1, <3>1, SavedOverLoaded DEF Live, LoginTypeOK
  <2>2. ~Lock!Locked(u)
    BY <1>1, <1>3, <2>1 DEF Lock!Locked, Locked
  <2>3. /\ PatientAttempts' = [PatientAttempts EXCEPT ![u] = account'[u].attempts]
        /\ PatientLocks' = [PatientLocks EXCEPT ![u] = account'[u].lockedUntil]
        /\ PatientAttempts[u] = account[u].attempts
    BY <1>1, <1>3 DEF PatientAttempts, PatientLocks
  <2>4. CASE login[l].valid
    <3>1. account'[u].attempts = 0 /\ account'[u].lockedUntil = 0
      BY <2>1, <2>4 DEF Attempted, NoAccount, Never
    <3>2. Lock!Succeed(u)
      BY <1>1, <2>2, <2>3, <3>1 DEF Lock!Succeed, PatientAttempts, PatientLocks
    <3> QED BY <1>1, <3>2 DEF Lock!Next
  <2>5. CASE ~login[l].valid
    <3>1. /\ account'[u].attempts = PatientAttempts[u] + 1
          /\ account'[u].lockedUntil \in Lock!LockEnds(u)
      BY <2>1, <2>3, <2>5 DEF Attempted
    <3>2. Lock!Fail(u)
      BY <1>1, <2>2, <2>3, <3>1 DEF Lock!Fail, PatientAttempts, PatientLocks
    <3> QED BY <1>1, <3>2 DEF Lock!Next
  <2> QED BY <2>4, <2>5
<1> QED BY <1>2, <1>3

(***************************************************************************)
(* The login implements the abstract lockout, for patient users.           *)
(***************************************************************************)
THEOREM LockoutImplemented == Spec => ImplementsLockout
<1>1. Init => Lock!Init
  BY DEF Init, Lock!Init, NoAccount, Never
<1>2. IInv /\ [Next]_vars =>
        Lock!Next \/ UNCHANGED <<PatientAttempts, PatientLocks, clock>>
  <2> SUFFICES ASSUME IInv, [Next]_vars
               PROVE  Lock!Next \/ UNCHANGED <<PatientAttempts, PatientLocks, clock>>
    OBVIOUS
  <2>1. CASE \E l \in Logins : LoginUpdate(l)
    BY <2>1, SaveIsOneAttempt
  <2>2. CASE Tick
    BY <2>2 DEF Tick, Lock!Next, Lock!Wait
  <2>3. CASE UNCHANGED <<user, account, clock>>
    BY <2>3 DEF PatientAttempts, PatientLocks
  <2> QED BY <2>1, <2>2, <2>3 DEF Next, vars, TerminalChanges, LoginFind, CheckDevice,
             RejectLogin, VerifyPin, LoginSelect, FailLogin, SignToken, LoseLogin
<1> QED
  BY <1>1, <1>2, IInvHolds, PTL
     DEF Spec, ImplementsLockout, Lock!Spec, PatientAttempts, PatientLocks

=============================================================================
