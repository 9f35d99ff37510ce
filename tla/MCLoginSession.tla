-------------------------- MODULE MCLoginSession --------------------------
(***************************************************************************)
(* Instances of LoginSession for TLC.                                      *)
(***************************************************************************)
EXTENDS LoginSession, TLC

CONSTANTS
    k1, k2,       \* terminals
    u1, u2        \* agents

\* k1 is the terminal of u1, k2 that of an agent who does not log in.
OwnTerminal == [d \in Devices |-> IF d = k1 THEN u1 ELSE u2]

\* The slots of concurrent logins are interchangeable.
LoginSymmetry == Permutations(Logins)
===========================================================================
