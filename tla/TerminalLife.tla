----------------------------- MODULE TerminalLife -----------------------------
(***************************************************************************)
(* What the requests of the backend do to the status of a terminal, all of *)
(* them together: it is enrolled once; once it exists it may be blocked or *)
(* revoked at any moment, whatever it was; and no request puts it back in  *)
(* use (devices.service.ts, the bodies of enroll, block and revoke).       *)
(*                                                                         *)
(* This is the life that the login and the phone meet, and not the one the *)
(* comments announce: there a block is reversible and a revocation is not; *)
(* here no step undoes a block, because no request of the backend does,    *)
(* and a block replaces a revocation, because the code lets it.            *)
(***************************************************************************)
CONSTANT Devices

VARIABLE status

Inactive == {"blocked", "revoked"}

Enroll(d) ==
    /\ status[d] = "absent"
    /\ status' = [status EXCEPT ![d] = "active"]

\* block and revoke write their status over any other.
Deactivate(d, target) ==
    /\ status[d] # "absent"
    /\ status' = [status EXCEPT ![d] = target]

Init == status \in [Devices -> {"absent", "active"}]

Next == \E d \in Devices :
            \/ Enroll(d)
            \/ \E target \in Inactive : Deactivate(d, target)

Spec == Init /\ [][Next]_status

=============================================================================
