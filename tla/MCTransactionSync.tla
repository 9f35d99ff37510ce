------------------------- MODULE MCTransactionSync -------------------------
(***************************************************************************)
(* Instances of TransactionSync for TLC.                                   *)
(***************************************************************************)
EXTENDS TransactionSync, TLC

CONSTANTS
    d1, d2,      \* terminals
    a1, a2,      \* agents
    t1, t2, t3   \* tickets

\* Both terminals belong to one agent, so that there is one chain.
OneAgent == [d \in Devices |-> a1]

\* The phone of a1 is enrolled again for a2.
AgentPerDevice == [d \in Devices |-> IF d = d1 THEN a1 ELSE a2]

\* t3 was signed by d2, the others by d1; with one phone that was enrolled
\* again, d2 also sends the tickets that d1 left behind.
SignerByDevice == [t \in Ids |-> IF t = t3 THEN d2 ELSE d1]
AllSignedByD1 == [t \in Ids |-> d1]
OwnTickets == [d \in Devices |-> {t \in Ids : Signer[t] = d}]
EnrolledAgain == [d \in Devices |-> IF d = d1 THEN {t \in Ids : Signer[t] = d1} ELSE Ids]

\* t2 is dated so far ahead that MaxDrift = 1 flags it at first.
Dates == [t \in Ids |-> IF t = t2 THEN 2 ELSE 0]
AllOnTime == [t \in Ids |-> 0]

\* The slots of concurrent syncs are interchangeable: nothing but sync is
\* indexed by them and no action orders them.
SlotSymmetry == Permutations(SyncHandlers)
=============================================================================
