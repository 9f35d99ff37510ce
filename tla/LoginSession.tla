----------------------------- MODULE LoginSession -----------------------------
(***************************************************************************)
(* The login, with its progressive lockout and, for an agent, the check of *)
(* the terminal, while terminals are blocked and revoked                   *)
(* (src/src/auth/auth.service.ts, src/src/users/users.service.ts).  What   *)
(* happens to the terminals is the abstract TerminalLife, which            *)
(* DeviceRegistry implements.                                              *)
(*                                                                         *)
(* Users are the active ones: an unknown or inactive user is refused by    *)
(* the first statement, without effect, and so is an agent who names no    *)
(* terminal.  Tokens stand for what their payload says; they are never     *)
(* withdrawn.  touchLastSync is left out, as in DeviceRegistry.            *)
(***************************************************************************)
EXTENDS Persistence, Integers

CONSTANTS
    Devices,     \* the terminals
    PreEnrolled, \* those already in the table when the model starts
    Users,       \* the active users
    DeviceUser,  \* the agent a terminal is enrolled for (devices.agentId)
    SoftLimit,   \* failures that lock for LockTime (5 in the code)
    HardLimit,   \* failures that lock for good (10 in the code)
    LockTime,    \* five minutes
    MaxClock,    \* bound: the server's clock stops here
    Logins,      \* slots of concurrent POST /auth/login requests
    Faults,      \* TRUE when a request may die at any await
    None         \* no terminal, no user

ASSUME LoginAssumption ==
    /\ DOMAIN DeviceUser = Devices
    /\ SoftLimit \in Nat \ {0} /\ HardLimit \in Nat /\ SoftLimit < HardLimit
    /\ LockTime \in Nat \ {0}
    /\ MaxClock \in Nat
    /\ PreEnrolled \subseteq Devices
    /\ Faults \in BOOLEAN
    /\ None \notin Users \cup Devices

VARIABLES
    status,   \* the devices table: the status of each terminal
    clock,    \* the server's clock
    user,     \* what no request changes of a user: the role, the habits
    account,  \* the users table: the two columns that a login changes
    login,    \* the login requests in flight
    tokens    \* the tokens signed

vars == <<audit, status, user, clock, account, login, tokens>>

Terminals == INSTANCE TerminalLife

Time == 0 .. MaxClock
Never == 0                             \* lockedUntil is null
Forever == MaxClock + LockTime + 1     \* 9999-12-31

\* A patient user waits for the answer before trying again.
Person == [agent : BOOLEAN, patient : BOOLEAN]

Account == [attempts : Nat, lockedUntil : 0 .. Forever]
NoAccount == [attempts |-> 0, lockedUntil |-> Never]

-----------------------------------------------------------------------------
(* UsersService.incrementFailedAttempts and resetFailedAttempts change the *)
(* copy of the row the login loaded; save() writes what differs.           *)

\* Variants with a plausible bug stand before the definition they change, for the
\* mutation checks; nothing else uses them.
RefusedForGood(u) == account[u].lockedUntil = Forever

Locked(u) == account[u].lockedUntil > clock
Refused(u) == Locked(u)

FailedFromFive(a) ==
    LET n == a.attempts + 1 IN
    [attempts |-> n,
     lockedUntil |-> IF n >= SoftLimit THEN clock + LockTime ELSE a.lockedUntil]

Failed(a) ==
    LET n == a.attempts + 1 IN
    [attempts |-> n,
     lockedUntil |-> IF n = SoftLimit THEN clock + LockTime
                     ELSE IF n >= HardLimit THEN Forever
                     ELSE a.lockedUntil]

Saved(ent, loaded, row) ==
    [c \in DOMAIN row |-> Column(ent[c], loaded[c], row[c])]

-----------------------------------------------------------------------------
(* The login request.                                                      *)

NoLogin == [pc |-> "idle", user |-> None, dev |-> None, valid |-> FALSE,
            ent |-> NoAccount, loaded |-> NoAccount]
LoginPC == {"device", "rejectAudit", "verify", "select", "update",
            "failureAudit", "successAudit"}
LoginRequest ==
    {NoLogin} \cup
    [pc : LoginPC, user : Users, dev : Devices \cup {None}, valid : BOOLEAN,
     ent : Account, loaded : Account]

UsableUnlessRevoked(d, u) == DeviceUser[d] = u /\ status[d] \in {"active", "blocked"}
UsableByAnyone(d, u) == status[d] = "active"
\* assertAgentDeviceUsable: the terminal exists, is the agent's, is active.
DeviceUsable(d, u) == DeviceUser[d] = u /\ status[d] = "active"

\* findByUsername reads the row once; the lock is looked at here only.
LoginFind(l, u, d, valid) ==
    /\ login[l] = NoLogin
    /\ d = None <=> ~user[u].agent
    /\ user[u].patient => \A other \in Logins : login[other].user # u
    /\ ~Refused(u)
    /\ login' = [login EXCEPT ![l] =
          [pc |-> IF user[u].agent THEN "device" ELSE "verify",
           user |-> u, dev |-> d, valid |-> valid,
           ent |-> account[u], loaded |-> NoAccount]]
    /\ UNCHANGED <<audit, status, user, clock, account, tokens>>

CheckDevice(l) ==
    LET r == login[l] IN
    /\ r.pc = "device"
    /\ login' = [login EXCEPT ![l].pc =
          IF DeviceUsable(r.dev, r.user) THEN "verify" ELSE "rejectAudit"]
    /\ UNCHANGED <<audit, status, user, clock, account, tokens>>

RejectLogin(l) ==
    /\ login[l].pc = "rejectAudit"
    /\ Record("LOGIN_REJECTED_DEVICE", login[l].dev, login[l].user)
    /\ login' = [login EXCEPT ![l] = NoLogin]
    /\ UNCHANGED <<status, user, clock, account, tokens>>

\* argon2.verify, then the copy is changed.
VerifyPin(l) ==
    /\ login[l].pc = "verify"
    /\ login' = [login EXCEPT ![l].pc = "select",
          ![l].ent = IF login[l].valid THEN NoAccount ELSE Failed(@)]
    /\ UNCHANGED <<audit, status, user, clock, account, tokens>>

LoginSelect(l) ==
    /\ login[l].pc = "select"
    /\ login' = [login EXCEPT ![l].pc = "update",
                              ![l].loaded = account[login[l].user]]
    /\ UNCHANGED <<audit, status, user, clock, account, tokens>>

LoginUpdate(l) ==
    LET r == login[l] IN
    /\ r.pc = "update"
    /\ account' = [account EXCEPT ![r.user] = Saved(r.ent, r.loaded, @)]
    /\ login' = [login EXCEPT
          ![l].pc = IF r.valid THEN "successAudit" ELSE "failureAudit",
          ![l].ent = NoAccount, ![l].loaded = NoAccount]
    /\ UNCHANGED <<audit, status, user, clock, tokens>>

FailLogin(l) ==
    /\ login[l].pc = "failureAudit"
    /\ Record("LOGIN_FAILED", login[l].dev, login[l].user)
    /\ login' = [login EXCEPT ![l] = NoLogin]
    /\ UNCHANGED <<status, user, clock, account, tokens>>

SignToken(l) ==
    /\ login[l].pc = "successAudit"
    /\ Record("LOGIN_SUCCESS", login[l].dev, login[l].user)
    /\ tokens' = tokens \cup {[user |-> login[l].user, dev |-> login[l].dev]}
    /\ login' = [login EXCEPT ![l] = NoLogin]
    /\ UNCHANGED <<status, user, clock, account>>

-----------------------------------------------------------------------------

\* Meanwhile a terminal is enrolled, blocked or revoked.
TerminalChanges ==
    /\ Terminals!Next
    /\ UNCHANGED <<audit, user, clock, account, login, tokens>>

Tick ==
    /\ clock < MaxClock
    /\ clock' = clock + 1
    /\ UNCHANGED <<audit, status, user, account, login, tokens>>

LoseLogin(l) ==
    /\ Faults
    /\ login[l] # NoLogin
    /\ login' = [login EXCEPT ![l] = NoLogin]
    /\ UNCHANGED <<audit, status, user, clock, account, tokens>>

Init ==
    /\ audit = {}
    /\ status = [d \in Devices |->
                    IF d \in PreEnrolled THEN "active" ELSE "absent"]
    /\ clock = 0
    /\ user \in [Users -> Person]
    /\ account = [u \in Users |-> NoAccount]
    /\ login = [l \in Logins |-> NoLogin]
    /\ tokens = {}

Next ==
    \/ TerminalChanges
    \/ \E l \in Logins :
          \/ \E u \in Users, d \in Devices \cup {None}, valid \in BOOLEAN :
                LoginFind(l, u, d, valid)
          \/ CheckDevice(l)
          \/ RejectLogin(l)
          \/ VerifyPin(l)
          \/ LoginSelect(l)
          \/ LoginUpdate(l)
          \/ FailLogin(l)
          \/ SignToken(l)
          \/ LoseLogin(l)
    \/ Tick

Spec == Init /\ [][Next]_vars

-----------------------------------------------------------------------------
(* Properties.                                                             *)

LoginAudit == [action : {"LOGIN_REJECTED_DEVICE", "LOGIN_FAILED", "LOGIN_SUCCESS"},
               entity : Devices \cup {None}, actor : Users]
\* An agent's token names a terminal of that agent, nobody else's names one.
Token == {t \in [user : Users, dev : Devices \cup {None}] :
             IF user[t.user].agent
             THEN t.dev # None /\ DeviceUser[t.dev] = t.user
             ELSE t.dev = None}

\* The shape of the accounts, the tokens and the requests in flight.
LoginTypeOK ==
    /\ audit \subseteq LoginAudit
    /\ status \in [Devices -> Terminals!Inactive \cup {"active", "absent"}]
    /\ clock \in Time
    /\ user \in [Users -> Person]
    /\ account \in [Users -> Account]
    /\ login \in [Logins -> LoginRequest]
    /\ tokens \subseteq Token

\* A login that has passed the check of its terminal.
LoggingInWith(d) ==
    \E l \in Logins : login[l].dev = d /\ login[l].pc \notin {"device", "rejectAudit"}
OutOfService(d) == status[d] \in Terminals!Inactive /\ ~LoggingInWith(d)

\* Once a terminal is blocked or revoked and the logins that were past its check
\* at that moment have ended, no token is signed for it any more.
OutOfServiceIsFinal ==
    [][\A d \in Devices : OutOfService(d) =>
         /\ OutOfService(d)'
         /\ {t \in tokens' : t.dev = d} = {t \in tokens : t.dev = d}]_vars

\* The lockout of a patient user, see Lockout: the copy that is loaded at the
\* start and saved by two statements at the end, and the deaths in between,
\* come down to one failure, one success or nothing.
Lock == INSTANCE Lockout WITH
    attempts <- [u \in Users |->
        IF user[u].patient THEN account[u].attempts ELSE 0],
    lockedUntil <- [u \in Users |->
        IF user[u].patient THEN account[u].lockedUntil ELSE Never]

ImplementsLockout == Lock!Spec

-----------------------------------------------------------------------------
(* What the comments of the code say, and overlapping logins do not keep.  *)

\* Ten failures are a hard lock that "only an OTP sent to the supervisor" lifts
\* (incrementFailedAttempts; login): no login lifts it.
HardLockIsFinal ==
    [][\A u \in Users : account[u].lockedUntil = Forever =>
         account'[u].lockedUntil = Forever]_vars

=============================================================================
