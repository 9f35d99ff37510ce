------------------------------ MODULE PhoneQueue ------------------------------
(***************************************************************************)
(* The tickets of a phone, from their collection offline to the answer of  *)
(* the server (src/mobile/lib/data/repositories/transaction_repository.dart*)
(* and data/local), over a network that loses requests and answers, a      *)
(* client that gives up after its timeout while the server goes on, and an *)
(* application that is killed at any moment.                               *)
(*                                                                         *)
(* The server stores tickets as TicketLedger, which TransactionSync        *)
(* implements, and looks a ticket up, saves and answers it as the body of  *)
(* its loop does, in steps that the syncs of the phone interleave.         *)
(***************************************************************************)
EXTENDS DeviceKeyStore, Naturals, FiniteSets

CONSTANTS
    Ids,       \* the tickets
    BatchMax,  \* the size limit of a batch on the server (500)
    Syncs      \* slots of concurrent sync requests of this phone

ASSUME QueueAssumption ==
    /\ None \notin Ids
    /\ BatchMax \in Nat

VARIABLES
    ticket,      \* what the server's ledger holds of each ticket
    local,       \* syncStatus of each ticket in the local table, "none" with no row
    signed,      \* the terminal and the key a ticket was signed with
    collecting,  \* the collection of each ticket, while it is under way
    sync         \* the sync requests in flight

queueVars == <<ticket, local, signed, collecting, sync>>
vars == <<keyVars, queueVars>>

\* The tickets that some request may still save.
Saving == {t \in Ids : \E h \in Syncs : sync[h].cur = t}

Ledger == INSTANCE TicketLedger WITH unsettled <- Saving, safe <- {}

Rows == Ledger!Kinds \cup {"unknown", "cancelled"}

LocalStatus == {"pending", "synced", "flagged", "error"}
Signature == [dev : Keys, key : Keys]
NoSignature == [dev |-> None, key |-> None]

-----------------------------------------------------------------------------
(* collect: the terminal is read, then the position, then the payload is   *)
(* signed, then the row is inserted.  _loading belongs to the screen: on   *)
(* one opened anew, a collection starts while another is under way.        *)

NotCollecting == [pc |-> "idle", sig |-> NoSignature]
Collecting ==
    {NotCollecting}
    \cup [pc : {"sign"}, sig : [dev : Keys, key : {None}]]
    \cup [pc : {"insert"}, sig : Signature]

CollectStart(t) ==
    /\ session # None
    /\ collecting[t] = NotCollecting
    /\ local[t] = "none"
    /\ storedId # None
    /\ collecting' = [collecting EXCEPT ![t] =
          [pc |-> "sign", sig |-> [dev |-> storedId, key |-> None]]]
    /\ UNCHANGED <<keyVars, ticket, local, signed, sync>>

CollectSign(t) ==
    /\ collecting[t].pc = "sign"
    /\ LoadedKey # None
    /\ cache' = LoadedKey
    /\ collecting' = [collecting EXCEPT ![t] =
          [pc |-> "insert", sig |-> [dev |-> collecting[t].sig.dev, key |-> LoadedKey]]]
    /\ UNCHANGED <<status, storedKey, storedId, enrolling, session, renewed,
                   ticket, local, signed, sync>>

CollectInsert(t) ==
    /\ collecting[t].pc = "insert"
    /\ local' = [local EXCEPT ![t] = "pending"]
    /\ signed' = [signed EXCEPT ![t] = collecting[t].sig]
    /\ collecting' = [collecting EXCEPT ![t] = NotCollecting]
    /\ UNCHANGED <<keyVars, ticket, sync>>

-----------------------------------------------------------------------------
(* syncPending: one request with everything that is pending.  The server   *)
(* works on it whether or not the phone still waits.                       *)

Outcomes == {"accepted", "duplicate", "flagged", "rejected_signature"}
NoOutcome == [t \in Ids |-> "none"]
NoSync == [pc |-> "idle", dev |-> None, todo |-> {}, out |-> NoOutcome,
           cur |-> None, loaded |-> "unknown", awaited |-> FALSE]
SyncRequest == {NoSync} \cup
    [pc : {"device", "items", "select", "write", "mark"}, dev : Keys, todo : SUBSET Ids,
     out : [Ids -> Outcomes \cup {"none"}],
     cur : Ids \cup {None},  \* the ticket it is saving
     loaded : Rows,          \* what the SELECT of save() found of it
     awaited : BOOLEAN]

Pending == {t \in Ids : local[t] = "pending"}

SyncStart(h) ==
    /\ sync[h] = NoSync
    /\ session # None
    /\ Pending # {} /\ Cardinality(Pending) <= BatchMax
    /\ sync' = [sync EXCEPT ![h] = [NoSync EXCEPT !.pc = "device", !.dev = session,
                                                  !.todo = Pending, !.awaited = TRUE]]
    /\ UNCHANGED <<keyVars, ticket, local, signed, collecting>>

\* A 403 for the whole batch, or the loop over its items.
ServerCheckDevice(h) ==
    /\ sync[h].pc = "device"
    /\ sync' = [sync EXCEPT ![h] =
          IF status[sync[h].dev] = "active" THEN [sync[h] EXCEPT !.pc = "items"]
          ELSE NoSync]
    /\ UNCHANGED <<keyVars, ticket, local, signed, collecting>>

Valid(t, d) == signed[t] = [dev |-> d, key |-> d]

Answered(h, t, outcome) ==
    sync' = [sync EXCEPT ![h].todo = @ \ {t}, ![h].out[t] = outcome]

ServerKnows(h, t) ==
    /\ sync[h].pc = "items" /\ t \in sync[h].todo
    /\ ticket[t] # "unknown"
    /\ Answered(h, t, "duplicate")
    /\ UNCHANGED <<keyVars, ticket, local, signed, collecting>>

\* An unknown ticket, rightly signed, will be saved, whatever happens to it before.
ServerAdmits(h, t) ==
    /\ sync[h].pc = "items" /\ t \in sync[h].todo
    /\ Valid(t, sync[h].dev)
    /\ sync' = [sync EXCEPT ![h].pc = "select", ![h].todo = @ \ {t}, ![h].cur = t]
    /\ Ledger!Begin(t)
    /\ UNCHANGED <<keyVars, local, signed, collecting>>

ServerSelects(h, t) ==
    /\ sync[h].pc = "select" /\ sync[h].cur = t
    /\ sync' = [sync EXCEPT ![h].pc = "write", ![h].loaded = ticket[t]]
    /\ UNCHANGED <<keyVars, ticket, local, signed, collecting>>

Saved(h, t, outcome) ==
    sync' = [sync EXCEPT ![h].pc = "items", ![h].cur = None, ![h].loaded = "unknown",
                         ![h].out[t] = outcome]

\* An INSERT, or an UPDATE of the status if the ticket was loaded with another one;
\* an INSERT of a ticket stored since then fails (ServerFails).
ServerSaves(h, t, kind) ==
    /\ sync[h].pc = "write" /\ sync[h].cur = t
    /\ sync[h].loaded = "unknown" => ticket[t] = "unknown"
    /\ Saved(h, t, IF kind = "counted" THEN "accepted" ELSE "flagged")
    /\ \/ sync[h].loaded # kind /\ Ledger!Save(t, kind)
       \/ sync[h].loaded = kind /\ UNCHANGED ticket
    /\ UNCHANGED <<keyVars, local, signed, collecting>>

ServerRejects(h, t) ==
    /\ sync[h].pc = "items" /\ t \in sync[h].todo
    /\ ticket[t] = "unknown"
    /\ ~Valid(t, sync[h].dev)
    /\ Answered(h, t, "rejected_signature")
    /\ UNCHANGED <<keyVars, ticket, local, signed, collecting>>

\* The answer leaves the server; nobody may be waiting for it any more.
ServerAnswers(h) ==
    /\ sync[h].pc = "items" /\ sync[h].todo = {}
    /\ sync' = [sync EXCEPT ![h] =
          IF sync[h].awaited THEN [sync[h] EXCEPT !.pc = "mark"] ELSE NoSync]
    /\ UNCHANGED <<keyVars, ticket, local, signed, collecting>>

AtServer == {"device", "items", "select", "write"}

\* A statement fails or conflicts, the process dies, the request does not arrive.
ServerFails(h) ==
    /\ sync[h].pc \in AtServer
    /\ sync' = [sync EXCEPT ![h] = NoSync]
    /\ UNCHANGED <<keyVars, ticket, local, signed, collecting>>

\* receiveTimeout, or the connection drops.
PhoneGivesUp(h) ==
    /\ sync[h].pc \in AtServer
    /\ sync' = [sync EXCEPT ![h].awaited = FALSE]
    /\ UNCHANGED <<keyVars, ticket, local, signed, collecting>>

\* Variants with a plausible bug stand before the definition they change, for the
\* mutation checks; nothing else uses them.
MarkedRejectedToo(outcome) == IF outcome = "flagged" THEN "flagged" ELSE "synced"
MarkedAsAnswered(outcome) == outcome
MarkedAcceptedOnly(outcome) ==
    CASE outcome = "accepted" -> "synced"
      [] outcome = "flagged" -> "flagged"
      [] OTHER -> "error"

\* How the phone marks a ticket by its outcome.
Marked(outcome) ==
    CASE outcome \in {"accepted", "duplicate"} -> "synced"
      [] outcome = "flagged" -> "flagged"
      [] OTHER -> "error"

\* One row after the other; the sync is over with the last one.
MarkSynced(h, t) ==
    LET out == [sync[h].out EXCEPT ![t] = "none"] IN
    /\ sync[h].pc = "mark" /\ sync[h].out[t] # "none"
    /\ local' = [local EXCEPT ![t] = Marked(sync[h].out[t])]
    /\ sync' = [sync EXCEPT ![h] =
          IF out = NoOutcome THEN NoSync ELSE [sync[h] EXCEPT !.out = out]]
    /\ UNCHANGED <<keyVars, ticket, signed, collecting>>

-----------------------------------------------------------------------------

TicketCancelled(t) ==
    /\ UNCHANGED <<keyVars, local, signed, collecting, sync>>
    /\ Ledger!Cancel(t)

\* The application is killed and started again.
Restart ==
    /\ cache' = None
    /\ enrolling' = [k \in Keys |->
          IF enrolling[k] \in UnderWay THEN "over" ELSE enrolling[k]]
    /\ collecting' = [t \in Ids |-> NotCollecting]
    /\ sync' = [h \in Syncs |->
          IF sync[h].pc = "mark" THEN NoSync ELSE [sync[h] EXCEPT !.awaited = FALSE]]
    /\ UNCHANGED <<status, storedKey, storedId, session, renewed,
                   ticket, local, signed>>

Init ==
    /\ KeyInit
    /\ ticket = [t \in Ids |-> "unknown"]
    /\ local = [t \in Ids |-> "none"]
    /\ signed = [t \in Ids |-> NoSignature]
    /\ collecting = [t \in Ids |-> NotCollecting]
    /\ sync = [h \in Syncs |-> NoSync]

ServerItem(h, t) ==
    \/ ServerKnows(h, t) \/ ServerAdmits(h, t) \/ ServerRejects(h, t)
    \/ ServerSelects(h, t)
    \/ \E kind \in Ledger!Kinds : ServerSaves(h, t, kind)

KeyStep ==
    \/ \E k \in Keys :
          \/ GenerateKeyPair(k)
          \/ EnrollOnServer(k) \/ EnrollFails(k)
          \/ WriteKey(k) \/ WriteId(k)
    \/ AgentLogin \/ SignOut
    \/ TerminalDeactivated

Next ==
    \/ KeyStep /\ UNCHANGED queueVars
    \/ \E t \in Ids :
          \/ CollectStart(t) \/ CollectSign(t) \/ CollectInsert(t)
          \/ TicketCancelled(t)
    \/ \E h \in Syncs :
          \/ SyncStart(h)
          \/ ServerCheckDevice(h)
          \/ ServerAnswers(h)
          \/ ServerFails(h)
          \/ PhoneGivesUp(h)
          \/ \E t \in Ids : ServerItem(h, t) \/ MarkSynced(h, t)
    \/ Restart

Spec == Init /\ [][Next]_vars

MarkStep(h) == \E t \in Ids : MarkSynced(h, t)
ServerStep(h) ==
    \/ ServerCheckDevice(h) \/ ServerAnswers(h)
    \/ \E t \in Ids : ServerItem(h, t)

Disturbance ==
    \/ Restart
    \/ SignOut
    \/ \E h \in Syncs : ServerFails(h) \/ PhoneGivesUp(h)

\* The server goes on with a request until it ends, the agent signs in and goes
\* on asking for a sync, and at last the disturbances stop for long enough: no
\* network loses every request, no application is killed or agent gone in the
\* middle of every sync.
FairSpec ==
    /\ Spec
    /\ <>[][~Disturbance]_vars
    /\ \A h \in Syncs : WF_vars(ServerStep(h)) /\ WF_vars(MarkStep(h))
    /\ WF_vars(AgentLogin /\ UNCHANGED queueVars)
    /\ WF_vars(\E h \in Syncs : SyncStart(h))

-----------------------------------------------------------------------------
(* Properties.                                                             *)

\* The shape of the phone's state and of the requests in flight.
PhoneTypeOK ==
    /\ KeyTypeOK
    /\ ticket \in [Ids -> Rows]
    /\ local \in [Ids -> LocalStatus \cup {"none"}]
    /\ signed \in [Ids -> Signature \cup {NoSignature}]
    /\ collecting \in [Ids -> Collecting]
    /\ sync \in [Syncs -> SyncRequest]

\* A ticket the phone shows as sent, or as flagged, is on the server, whichever of
\* two overlapping syncs gave it its mark: the phone never sends it again
\* (syncPending, markSynced).
SentIsStored ==
    \A t \in Ids : local[t] \in {"synced", "flagged"} => ticket[t] # "unknown"

\* As long as no key is generated on a phone that has its terminal or is getting
\* it, every ticket is signed with the key of the terminal it names and none is
\* rejected, even when enrollments before failed or were cut short between their
\* writes ("error" needs an investigation, tables.dart).
EnrolledOnceSignsRight ==
    ~renewed => \A t \in Ids : signed[t].dev = signed[t].key /\ local[t] # "error"

\* A ticket in the queue ends as sent on a phone with no second enrollment whose
\* terminal is not put out of use, whatever is lost and whenever the application
\* is killed, as long as the queue fits in a batch.
PendingIsDelivered ==
    \A t \in Ids :
        (local[t] = "pending") ~>
            \/ local[t] \in {"synced", "flagged"}
            \/ renewed
            \/ \E k \in Keys : signed[t].dev = k /\ status[k] # "active"
            \/ Cardinality(Pending) > BatchMax

-----------------------------------------------------------------------------
(* What the comments of the code say, and a failed enrollment does not     *)
(* keep.                                                                   *)

\* collect: "signs with the Ed25519 key of the device".  Of a phone for which the
\* server has a single terminal, every ticket is signed with the key of that
\* terminal, also after an attempt to enroll it again that came to nothing.
OneTerminalSignsRight ==
    Cardinality({k \in Keys : status[k] # "absent"}) <= 1 =>
        \A t \in Ids : signed[t].dev = signed[t].key

=============================================================================
