------------------------------- MODULE Lockout -------------------------------
(***************************************************************************)
(* What the progressive lockout promises to accounts whose logins come one *)
(* after the other (user.entity.ts and auth.service.ts, their comments):   *)
(* every failure counts, the SoftLimit-th locks the account for LockTime,  *)
(* from the HardLimit-th on it is locked for good, and a login that        *)
(* succeeds, possible only while there is no lock, clears both.  Between   *)
(* the two limits a failure does not lock.                                 *)
(***************************************************************************)
EXTENDS Naturals

CONSTANTS Users, SoftLimit, HardLimit, LockTime, Forever

VARIABLES
    attempts,     \* failures since the last success
    lockedUntil,  \* end of the lock, 0 when there is none
    clock

Locked(u) == lockedUntil[u] > clock

\* The lock runs from the check of the PIN, which comes after that of the lock.
LockEnds(u) ==
    IF attempts[u] + 1 = SoftLimit
    THEN {t + LockTime : t \in lockedUntil[u] .. clock}
    ELSE IF attempts[u] + 1 >= HardLimit THEN {Forever} ELSE {lockedUntil[u]}

Fail(u) ==
    /\ ~Locked(u)
    /\ attempts' = [attempts EXCEPT ![u] = @ + 1]
    /\ \E end \in LockEnds(u) : lockedUntil' = [lockedUntil EXCEPT ![u] = end]
    /\ UNCHANGED clock

Succeed(u) ==
    /\ ~Locked(u)
    /\ attempts' = [attempts EXCEPT ![u] = 0]
    /\ lockedUntil' = [lockedUntil EXCEPT ![u] = 0]
    /\ UNCHANGED clock

Wait ==
    /\ clock' = clock + 1
    /\ UNCHANGED <<attempts, lockedUntil>>

Init ==
    /\ attempts = [u \in Users |-> 0]
    /\ lockedUntil = [u \in Users |-> 0]
    /\ clock = 0

Next == Wait \/ \E u \in Users : Fail(u) \/ Succeed(u)

Spec == Init /\ [][Next]_<<attempts, lockedUntil, clock>>

=============================================================================
