----------------------- MODULE MCCashReconciliation -----------------------
(***************************************************************************)
(* Instances of CashReconciliation for TLC.                                *)
(***************************************************************************)
EXTENDS CashReconciliation

CONSTANTS
    a1,      \* the agent
    t1, t2   \* tickets

OneAgent == [t \in Ids |-> a1]

\* With Threshold = 1 and nothing but t2, a closing is worth 0 or 2.
Amounts == [t \in Ids |-> IF t = t1 THEN 1 ELSE 2]
===========================================================================
