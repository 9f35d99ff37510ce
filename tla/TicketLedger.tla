---------------------------- MODULE TicketLedger ----------------------------
(***************************************************************************)
(* What the ledger of collected tickets keeps, whatever the requests, the  *)
(* network and the crashes do.  A sync that finds a ticket unknown may     *)
(* save it, and several may at once: until they have ended the ticket is   *)
(* unsettled, and each save may give it another kind, even after it was    *)
(* cancelled.  A ticket that is stored and settled is never unsettled      *)
(* again: only a cancellation changes it, for good.  A stored ticket stays *)
(* stored, and the agent is told "safe" only of a stored one               *)
(* (transactions.service.ts, the bodies of sync and of cancel).            *)
(***************************************************************************)
CONSTANT Ids

VARIABLES
    ticket,     \* what the ledger holds of each ticket
    unsettled,  \* the tickets that some request may still save
    safe        \* the tickets whose agent was told that the server has them

Kinds == {"counted", "flagged"}

Init ==
    /\ ticket = [id \in Ids |-> "unknown"]
    /\ unsettled = {}
    /\ safe = {}

\* A save may be the last that the ticket was waiting for.
MaySettle(id) == unsettled' \in {unsettled, unsettled \ {id}}

Begin(id) ==
    /\ ticket[id] = "unknown"
    /\ unsettled' = unsettled \cup {id}
    /\ UNCHANGED <<ticket, safe>>

Save(id, kind) ==
    /\ id \in unsettled
    /\ ticket' = [ticket EXCEPT ![id] = kind]
    /\ MaySettle(id)
    /\ UNCHANGED safe

\* The request ends without a save, or with one that does not show.
Settle(id) ==
    /\ id \in unsettled
    /\ unsettled' = unsettled \ {id}
    /\ UNCHANGED <<ticket, safe>>

Cancel(id) ==
    /\ ticket[id] \in Kinds
    /\ ticket' = [ticket EXCEPT ![id] = "cancelled"]
    /\ MaySettle(id)
    /\ UNCHANGED safe

Acknowledge(batch) ==
    /\ \A id \in batch : ticket[id] # "unknown"
    /\ safe' = safe \cup batch
    /\ UNCHANGED <<ticket, unsettled>>

Next ==
    \/ \E id \in Ids :
          \/ Begin(id)
          \/ \E kind \in Kinds : Save(id, kind)
          \/ Settle(id)
          \/ Cancel(id)
    \/ \E batch \in SUBSET Ids : Acknowledge(batch)

Spec == Init /\ [][Next]_<<ticket, unsettled, safe>>

=============================================================================
