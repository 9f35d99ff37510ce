-------------------------- MODULE TransactionSync --------------------------
(***************************************************************************)
(* The collection ledger: the sync of a batch of tickets and the           *)
(* cancellation of a ticket, run concurrently with each other and with the *)
(* requests of DeviceRegistry                                              *)
(* (src/src/transactions/transactions.service.ts).                         *)
(*                                                                         *)
(* As in DeviceRegistry, one action is one database statement of a request *)
(* and the code that follows it up to the next await.  The content of a    *)
(* ticket never changes once it is collected, so a ticket stands for its   *)
(* id; Signer and LocalTime give the two parts of it that the server       *)
(* looks at.                                                               *)
(***************************************************************************)
EXTENDS DeviceRegistry, Sequences

CONSTANTS
    Ids,           \* the tickets, by the UUID their terminal gave them
    Agents,        \* the collecting agents
    DeviceAgent,   \* the agent a terminal is enrolled for (devices.agentId)
    Signer,        \* the terminal whose key and id a ticket was signed with
    Holds,         \* the tickets the phone of a terminal may send
    LocalTime,     \* the phone's date in the ticket
    MaxDrift,      \* MAX_CLOCK_DRIFT_HOURS
    BatchMax,      \* the size limit of a batch (500 in the DTO)
    MaxClock,      \* bound: the server's clock stops here
    SyncHandlers,  \* slots of concurrent PATCH /transactions/sync requests
    Supervisors,   \* slots of concurrent PATCH /transactions/:id/cancel requests
    NoRow          \* no row in the table

ASSUME SyncAssumption ==
    /\ None \notin Ids
    /\ None \notin Supervisors
    /\ DeviceAgent \in [Devices -> Agents]
    /\ Signer \in [Ids -> Devices]
    /\ Holds \in [Devices -> SUBSET Ids]
    /\ LocalTime \in [Ids -> Int]
    /\ MaxDrift \in Nat
    /\ BatchMax \in Nat
    /\ MaxClock \in Nat

VARIABLES
    clock,   \* the server's clock
    table,   \* the transactions table: a row or NoRow for each ticket
    sync,    \* the sync requests in flight
    cancel,  \* the cancel requests in flight
    answer   \* the outcomes the phones received for each ticket

ledgerVars == <<clock, table, sync, cancel, answer>>
vars == <<registryVars, ledgerVars>>

-----------------------------------------------------------------------------
(* Hash chain (hash-chain.util.ts).  SHA-256 is taken to be injective: a   *)
(* hash is the sequence of everything hashed into it.                      *)

Time == 0 .. MaxClock
Link == [id : Ids, device : Devices, ts : Time]
Hash == Seq(Link)
Genesis == <<>>
Digest(id, d, ts, prev) ==
    Append(prev, [id |-> id, device |-> d, ts |-> ts])

TicketStatus == {"synced", "flagged", "cancelled"}
Row == [device : Devices, ts : Time, prev : Hash, hash : Hash,
        tampered : BOOLEAN, status : TicketStatus,
        cancelledBy : Supervisors \cup {None}]

ASSUME RowAssumption == NoRow \notin Row

TicketAudit ==
    [action : {"SYNC_REJECTED_DEVICE"}, entity : Devices, actor : Agents] \cup
    [action : {"TRANSACTION_REJECTED_SIGNATURE", "TRANSACTION_FLAGGED_CLOCK_DRIFT"},
     entity : Ids, actor : Agents] \cup
    [action : {"TRANSACTION_CANCELLED"}, entity : Ids, actor : Supervisors]

Stored(id) == table[id] # NoRow
Agent(id) == DeviceAgent[table[id].device]
AgentTickets(a) == {id \in Ids : Stored(id) /\ Agent(id) = a}

\* getLastHashForAgent orders by serverTimestamp alone: among the rows that
\* share the latest one the database may answer with any.
LastHashes(a) ==
    IF AgentTickets(a) = {} THEN {Genesis}
    ELSE {table[id].hash : id \in
            {t \in AgentTickets(a) :
                \A u \in AgentTickets(a) : table[u].ts <= table[t].ts}}

-----------------------------------------------------------------------------
(* The checks of one item.                                                 *)

\* Variants of a definition with a plausible bug stand before it, for the
\* mutation checks; nothing else uses them.
UsableUnlessRevoked(d) == status[d] # "revoked"
DeviceUsable(d) == status[d] = "active"
NeverKnown(id) == FALSE
Known(id) == Stored(id)

SignatureUnchecked(id, d) == TRUE

\* The signature covers the id of the terminal, and is checked with its key.
SignatureValid(id, d) == Signer[id] = d

ClockTampered(id, now) ==
    \/ now - LocalTime[id] > MaxDrift
    \/ LocalTime[id] - now > MaxDrift

StatusPending(tampered) == IF tampered THEN "flagged" ELSE "pending_sync"
StatusFor(tampered) == IF tampered THEN "flagged" ELSE "synced"

NewRow(id, d, now, prev) ==
    LET tampered == ClockTampered(id, now) IN
    [device |-> d, ts |-> now, prev |-> prev,
     hash |-> Digest(id, d, now, prev), tampered |-> tampered,
     status |-> StatusFor(tampered), cancelledBy |-> None]

\* save(): the columns of the entity that differ from the loaded row are
\* written.  A sync leaves cancelledBy undefined, and TypeORM skips it.
Written(ent, loaded, row) ==
    [device |-> Column(ent.device, loaded.device, row.device),
     ts |-> Column(ent.ts, loaded.ts, row.ts),
     prev |-> Column(ent.prev, loaded.prev, row.prev),
     hash |-> Column(ent.hash, loaded.hash, row.hash),
     tampered |-> Column(ent.tampered, loaded.tampered, row.tampered),
     status |-> Column(ent.status, loaded.status, row.status),
     cancelledBy |-> IF ent.cancelledBy = None THEN row.cancelledBy
                     ELSE Column(ent.cancelledBy, loaded.cancelledBy,
                                 row.cancelledBy)]

-----------------------------------------------------------------------------
(* The sync request.                                                       *)

Outcomes == {"accepted", "duplicate", "flagged", "rejected_signature"}
Safe == {"accepted", "duplicate", "flagged"}  \* the ticket is on the server

NoSync == [pc |-> "idle", dev |-> None, now |-> 0, todo |-> {}, cur |-> None,
           ent |-> NoRow, loaded |-> NoRow, out |-> [id \in Ids |-> "none"]]
SyncPC == {"idle", "deviceAudit", "start", "find", "signatureAudit",
           "lastHash", "select", "write", "flagAudit"}
SyncRequest ==
    [pc : SyncPC, dev : Devices \cup {None}, now : Time, todo : SUBSET Ids,
     cur : Ids \cup {None}, ent : Row \cup {NoRow}, loaded : Row \cup {NoRow},
     out : [Ids -> Outcomes \cup {"none"}]]

\* The current item gets its outcome and the loop goes on.
Settled(h, id, outcome) ==
    [sync[h] EXCEPT !.pc = "find", !.cur = None, !.ent = NoRow,
                    !.loaded = NoRow, !.out[id] = outcome]
Settle(h, id, outcome) == sync' = [sync EXCEPT ![h] = Settled(h, id, outcome)]

\* findById reads the terminal's status, once for the whole batch.
SyncOpen(h, d, batch) ==
    /\ sync[h] = NoSync
    /\ status[d] # "absent"
    /\ batch # {} /\ Cardinality(batch) <= BatchMax
    /\ sync' = [sync EXCEPT ![h] =
                  [NoSync EXCEPT !.dev = d,
                     !.pc = IF DeviceUsable(d) THEN "start" ELSE "deviceAudit",
                     !.todo = batch]]
    /\ UNCHANGED <<registryVars, clock, table, cancel, answer>>

\* The whole batch is refused with a 403, which carries no outcome.
RejectDevice(h) ==
    /\ sync[h].pc = "deviceAudit"
    /\ Record("SYNC_REJECTED_DEVICE", sync[h].dev, DeviceAgent[sync[h].dev])
    /\ sync' = [sync EXCEPT ![h] = NoSync]
    /\ UNCHANGED <<status, enroll, admin, clock, table, cancel, answer>>

\* const now = new Date(), the same for every item of the batch.
StartBatch(h) ==
    /\ sync[h].pc = "start"
    /\ sync' = [sync EXCEPT ![h].pc = "find", ![h].now = clock]
    /\ UNCHANGED <<registryVars, clock, table, cancel, answer>>

\* The duplicate is skipped without an outcome.
SkipDuplicateSilently(h, id) ==
    /\ sync[h].pc = "find" /\ id \in sync[h].todo
    /\ Known(id)
    /\ sync' = [sync EXCEPT ![h].todo = @ \ {id}]
    /\ UNCHANGED <<registryVars, clock, table, cancel, answer>>

\* The three ways an item leaves its findOne.
SkipDuplicate(h, id) ==
    /\ sync[h].pc = "find" /\ id \in sync[h].todo
    /\ Known(id)
    /\ sync' = [sync EXCEPT ![h].todo = @ \ {id}, ![h].out[id] = "duplicate"]
    /\ UNCHANGED <<registryVars, clock, table, cancel, answer>>

DetectBadSignature(h, id) ==
    /\ sync[h].pc = "find" /\ id \in sync[h].todo
    /\ ~Known(id)
    /\ ~SignatureValid(id, sync[h].dev)
    /\ sync' = [sync EXCEPT ![h].pc = "signatureAudit",
                            ![h].todo = @ \ {id}, ![h].cur = id]
    /\ UNCHANGED <<registryVars, clock, table, cancel, answer>>

AdmitItem(h, id) ==
    /\ sync[h].pc = "find" /\ id \in sync[h].todo
    /\ ~Known(id)
    /\ SignatureValid(id, sync[h].dev)
    /\ sync' = [sync EXCEPT ![h].pc = "lastHash",
                            ![h].todo = @ \ {id}, ![h].cur = id]
    /\ UNCHANGED <<registryVars, clock, table, cancel, answer>>

RejectSignature(h) ==
    /\ sync[h].pc = "signatureAudit"
    /\ Record("TRANSACTION_REJECTED_SIGNATURE", sync[h].cur,
              DeviceAgent[sync[h].dev])
    /\ Settle(h, sync[h].cur, "rejected_signature")
    /\ UNCHANGED <<status, enroll, admin, clock, table, cancel, answer>>

ReadLastHash(h) ==
    /\ sync[h].pc = "lastHash"
    /\ \E prev \in LastHashes(DeviceAgent[sync[h].dev]) :
          sync' = [sync EXCEPT ![h].pc = "select",
                     ![h].ent = NewRow(sync[h].cur, sync[h].dev,
                                       sync[h].now, prev)]
    /\ UNCHANGED <<registryVars, clock, table, cancel, answer>>

SyncSelect(h) ==
    /\ sync[h].pc = "select"
    /\ sync' = [sync EXCEPT ![h].pc = "write",
                            ![h].loaded = table[sync[h].cur]]
    /\ UNCHANGED <<registryVars, clock, table, cancel, answer>>

\* The flag is not audited.
AfterWriteUnaudited(h) ==
    Settle(h, sync[h].cur, IF sync[h].ent.tampered THEN "flagged" ELSE "accepted")

\* After the row is written: the flag is audited, or the item is settled.
AfterWrite(h) ==
    IF sync[h].ent.tampered
    THEN sync' = [sync EXCEPT ![h].pc = "flagAudit",
                              ![h].ent = NoRow, ![h].loaded = NoRow]
    ELSE Settle(h, sync[h].cur, "accepted")

\* Without the await of save(), its failure goes unseen.
SyncInsertNotAwaited(h) ==
    /\ sync[h].pc = "write"
    /\ sync[h].loaded = NoRow
    /\ ~Stored(sync[h].cur)
    /\ \/ table' = [table EXCEPT ![sync[h].cur] = sync[h].ent]
       \/ Faults /\ UNCHANGED table
    /\ AfterWrite(h)
    /\ UNCHANGED <<registryVars, clock, cancel, answer>>

SyncInsert(h) ==
    LET id == sync[h].cur IN
    /\ sync[h].pc = "write"
    /\ sync[h].loaded = NoRow
    /\ ~Stored(id)
    /\ table' = [table EXCEPT ![id] = sync[h].ent]
    /\ AfterWrite(h)
    /\ UNCHANGED <<registryVars, clock, cancel, answer>>

\* Another request inserted the ticket since the SELECT: the primary key
\* refuses the INSERT and the request ends with a 500, its last items unread.
SyncConflict(h) ==
    /\ sync[h].pc = "write"
    /\ sync[h].loaded = NoRow
    /\ Stored(sync[h].cur)
    /\ sync' = [sync EXCEPT ![h] = NoSync]
    /\ UNCHANGED <<registryVars, clock, table, cancel, answer>>

\* Another request inserted it before the SELECT: save() updates the row.
SyncUpdate(h) ==
    LET id == sync[h].cur IN
    /\ sync[h].pc = "write"
    /\ sync[h].loaded # NoRow
    /\ table' = [table EXCEPT ![id] =
                    Written(sync[h].ent, sync[h].loaded, table[id])]
    /\ AfterWrite(h)
    /\ UNCHANGED <<registryVars, clock, cancel, answer>>

AuditFlag(h) ==
    /\ sync[h].pc = "flagAudit"
    /\ Record("TRANSACTION_FLAGGED_CLOCK_DRIFT", sync[h].cur,
              DeviceAgent[sync[h].dev])
    /\ Settle(h, sync[h].cur, "flagged")
    /\ UNCHANGED <<status, enroll, admin, clock, table, cancel, answer>>

\* touchLastSync, then the answer reaches the phone.
SyncRespond(h) ==
    /\ sync[h].pc = "find" /\ sync[h].todo = {}
    /\ answer' = [id \in Ids |-> answer[id] \cup ({sync[h].out[id]} \ {"none"})]
    /\ sync' = [sync EXCEPT ![h] = NoSync]
    /\ UNCHANGED <<registryVars, clock, table, cancel>>

-----------------------------------------------------------------------------
(* The cancel request.                                                     *)

NoCancel == [pc |-> "idle", id |-> None, ent |-> NoRow, loaded |-> NoRow]
CancelRequest ==
    [pc : {"idle", "select", "write", "audit"}, id : Ids \cup {None},
     ent : Row \cup {NoRow}, loaded : Row \cup {NoRow}]

Cancellable(id) == Stored(id) /\ table[id].status # "cancelled"

CancelFind(s, id) ==
    /\ cancel[s] = NoCancel
    /\ Cancellable(id)
    /\ cancel' = [cancel EXCEPT ![s] =
          [pc |-> "select", id |-> id, loaded |-> NoRow,
           ent |-> [table[id] EXCEPT !.status = "cancelled",
                                     !.cancelledBy = s]]]
    /\ UNCHANGED <<registryVars, clock, table, sync, answer>>

CancelSelect(s) ==
    /\ cancel[s].pc = "select"
    /\ cancel' = [cancel EXCEPT ![s].pc = "write",
                                ![s].loaded = table[cancel[s].id]]
    /\ UNCHANGED <<registryVars, clock, table, sync, answer>>

CancelWrite(s) ==
    LET r == cancel[s] IN
    /\ r.pc = "write"
    /\ table' = [table EXCEPT ![r.id] = Written(r.ent, r.loaded, table[r.id])]
    /\ cancel' = [cancel EXCEPT ![s].pc = "audit",
                                ![s].ent = NoRow, ![s].loaded = NoRow]
    /\ UNCHANGED <<registryVars, clock, sync, answer>>

CancelAudit(s) ==
    /\ cancel[s].pc = "audit"
    /\ Record("TRANSACTION_CANCELLED", cancel[s].id, s)
    /\ cancel' = [cancel EXCEPT ![s] = NoCancel]
    /\ UNCHANGED <<status, enroll, admin, clock, table, sync, answer>>

-----------------------------------------------------------------------------
(* The clock, and the faults: the process dies, a statement fails, or the  *)
(* connection drops before the answer arrives.                             *)

Tick ==
    /\ clock < MaxClock
    /\ clock' = clock + 1
    /\ UNCHANGED <<registryVars, table, sync, cancel, answer>>

LoseSync(h) ==
    /\ Faults
    /\ sync[h] # NoSync
    /\ sync' = [sync EXCEPT ![h] = NoSync]
    /\ UNCHANGED <<registryVars, clock, table, cancel, answer>>

LoseCancel(s) ==
    /\ Faults
    /\ cancel[s] # NoCancel
    /\ cancel' = [cancel EXCEPT ![s] = NoCancel]
    /\ UNCHANGED <<registryVars, clock, table, sync, answer>>

-----------------------------------------------------------------------------

Init ==
    /\ RegistryInit
    /\ clock = 0
    /\ table = [id \in Ids |-> NoRow]
    /\ sync = [h \in SyncHandlers |-> NoSync]
    /\ cancel = [s \in Supervisors |-> NoCancel]
    /\ answer = [id \in Ids |-> {}]

SyncStep(h) ==
    \/ RejectDevice(h)
    \/ StartBatch(h)
    \/ \E id \in Ids : \/ SkipDuplicate(h, id)
                       \/ DetectBadSignature(h, id)
                       \/ AdmitItem(h, id)
    \/ RejectSignature(h)
    \/ ReadLastHash(h)
    \/ SyncSelect(h)
    \/ SyncInsert(h)
    \/ SyncConflict(h)
    \/ SyncUpdate(h)
    \/ AuditFlag(h)
    \/ SyncRespond(h)

CancelStep(s) == CancelSelect(s) \/ CancelWrite(s) \/ CancelAudit(s)

Next ==
    \/ RegistryNext /\ UNCHANGED ledgerVars
    \/ \E h \in SyncHandlers :
          \/ \E d \in Devices : \E batch \in SUBSET Holds[d] : SyncOpen(h, d, batch)
          \/ SyncStep(h)
          \/ LoseSync(h)
    \/ \E s \in Supervisors :
          \/ \E id \in Ids : CancelFind(s, id)
          \/ CancelStep(s)
          \/ LoseCancel(s)
    \/ Tick

Spec == Init /\ [][Next]_vars

\* A request that has started goes on to its end: the process resumes it when
\* the database answers, and every query is answered when nothing fails.
\* Nothing obliges a phone, a supervisor or an administrator to send one.
FairSpec ==
    /\ Spec
    /\ \A a \in Admins : WF_vars(AdminStep(a) /\ UNCHANGED ledgerVars)
    /\ \A h \in SyncHandlers : WF_vars(SyncStep(h))

-----------------------------------------------------------------------------
(* Properties.                                                             *)

\* The shape of the tables and of the requests in flight.
TypeOK ==
    /\ RegistryTypeOK
    /\ audit \subseteq DeviceAudit \cup TicketAudit
    /\ clock \in Time
    /\ table \in [Ids -> Row \cup {NoRow}]
    /\ sync \in [SyncHandlers -> SyncRequest]
    /\ cancel \in [Supervisors -> CancelRequest]
    /\ answer \in [Ids -> SUBSET Outcomes]

\* A ticket the phone was told is on the server, or is about to be told, is
\* there.  The phone forgets a ticket it was told of (markSynced), so a wrong
\* answer is lost money; crashes, insert conflicts and retries all threaten it.
Acknowledged ==
    \A id \in Ids :
        \/ answer[id] \cap Safe # {}
        \/ \E h \in SyncHandlers : sync[h].out[id] \in Safe
        => Stored(id)

\* Every row carries the terminal that signed its ticket, however requests of
\* several terminals for one ticket interleave between findOne and save.
SignedByItsDevice ==
    \A id \in Ids : Stored(id) => table[id].device = Signer[id]

InFlight(d) ==
    \E h \in SyncHandlers :
        sync[h].dev = d /\ sync[h].pc \notin {"idle", "deviceAudit"}
TicketsOf(d) == {id \in Ids : Stored(id) /\ table[id].device = d}
Drained(d) == status[d] \in Inactive /\ ~InFlight(d)

\* Once a terminal is blocked or revoked and the syncs that were past the
\* check at that moment have ended, no ticket of it is ever stored again.
DrainedDeviceIsSilent ==
    [][\A d \in Devices :
         Drained(d) => Drained(d)' /\ TicketsOf(d)' = TicketsOf(d)]_vars

\* sync "may reject or flag, never silently": an outcome that rejects or flags
\* is given only with its entry in the audit log.
OutcomesAreAudited ==
    \A h \in SyncHandlers, id \in Ids :
        LET Audited(action) ==
                Entry(action, id, DeviceAgent[sync[h].dev]) \in audit
        IN  /\ sync[h].out[id] = "flagged" =>
                  Audited("TRANSACTION_FLAGGED_CLOCK_DRIFT")
            /\ sync[h].out[id] = "rejected_signature" =>
                  Audited("TRANSACTION_REJECTED_SIGNATURE")

\* A flagged ticket has its entry in the audit log, or a request is still about
\* to write it, whatever was resent, cancelled or deactivated meanwhile.  A
\* request that dies between the save and the entry breaks this, and the retry
\* does not mend it.
FlagIsNeverSilent ==
    \A id \in Ids : (Stored(id) /\ table[id].tampered) =>
        \/ \E entry \in audit : /\ entry.action = "TRANSACTION_FLAGGED_CLOCK_DRIFT"
                                 /\ entry.entity = id
        \/ \E h \in SyncHandlers : sync[h].cur = id /\ sync[h].pc = "flagAudit"

\* A cancellation whose copy of the row is as good as the row: no sync saved the
\* ticket since the copy was made.
Agrees(row, old) ==
    /\ row.device = old.device
    /\ row.ts = old.ts
    /\ row.prev = old.prev
    /\ row.hash = old.hash
    /\ row.tampered = old.tampered
CopyIsCurrent(s) ==
    LET r == cancel[s] IN
    /\ Agrees(r.ent, table[r.id])
    /\ r.pc = "write" =>
          /\ Agrees(r.loaded, table[r.id])
          /\ r.loaded.status = "cancelled" => table[r.id].status = "cancelled"

\* The tickets that a request may still save without having seen their row: a
\* sync past their findOne, or a cancellation that holds a stale copy.
Saving(h) == sync[h].pc \in {"lastHash", "select", "write"}
Cancelling(s) == cancel[s].pc \in {"select", "write"}
Unsettled ==
    {sync[h].cur : h \in {g \in SyncHandlers : Saving(g)}} \cup
    {cancel[s].id : s \in {p \in Supervisors : Cancelling(p) /\ ~CopyIsCurrent(p)}}
AtRest(id) == Stored(id) /\ id \notin Unsettled

\* Once a ticket is stored and the syncs that did not see it stored have ended,
\* nothing but its cancellation changes it, for good: resends, retries that
\* overlap, and cancellations of copies as old as they like leave its terminal,
\* its date, its flag and its hashes alone (hash-chain.util.ts: the hash covers
\* what must not change later), and no status but cancelled is ever written again.
\* That the flag stays is not what the comment of Transaction says: a resend of a
\* known ticket "may update clockTampered" when it brings something new.
SettledTicketIsFinal ==
    [][\A id \in Ids : AtRest(id) =>
         /\ AtRest(id)'
         /\ table'[id].device = table[id].device
         /\ table'[id].ts = table[id].ts
         /\ table'[id].prev = table[id].prev
         /\ table'[id].hash = table[id].hash
         /\ table'[id].tampered = table[id].tampered
         /\ table'[id].status \in {table[id].status, "cancelled"}]_vars

\* Every hash in the chain of an agent was computed over tickets that are in
\* the ledger, of that agent, with the terminal that signed them: no crash,
\* conflict or overlapping save leaves a link to a ticket that was never
\* stored, and the chains of two agents never mix.
Grounded(hash, a) ==
    \A i \in DOMAIN hash :
        /\ Stored(hash[i].id)
        /\ hash[i].device = Signer[hash[i].id]
        /\ DeviceAgent[hash[i].device] = a
ChainIsGrounded ==
    \A id \in Ids : Stored(id) =>
        Grounded(table[id].prev, Agent(id)) /\ Grounded(table[id].hash, Agent(id))

\* findByAgent sorts by serverTimestamp alone, so any order that agrees with it.
ChainOrders(a) ==
    LET n == Cardinality(AgentTickets(a)) IN
    {s \in [1 .. n -> AgentTickets(a)] :
        \A i, j \in 1 .. n : i < j =>
            s[i] # s[j] /\ table[s[i]].ts <= table[s[j]].ts}

\* verifyChainIntegrity over the rows in that order.
ChainVerifies(s) ==
    \A i \in DOMAIN s :
        LET row == table[s[i]] IN
        /\ row.prev = IF i = 1 THEN Genesis ELSE table[s[i - 1]].hash
        /\ row.hash = Digest(s[i], row.device, row.ts, row.prev)

\* Every ticket of a sync gets an outcome in that very sync, one that an earlier
\* sync had stored, answered or flagged included, even when its terminal is
\* blocked meanwhile.
BatchIsAnswered ==
    \A h \in SyncHandlers, id \in Ids :
        (sync[h].pc = "find" /\ id \in sync[h].todo) ~> (sync[h].out[id] # "none")

\* The ledger seen by agents and supervisors.
Ledger == INSTANCE TicketLedger WITH
    ticket <- [id \in Ids |->
        IF ~Stored(id) THEN "unknown"
        ELSE CASE table[id].status = "synced" -> "counted"
               [] table[id].status = "flagged" -> "flagged"
               [] OTHER -> "cancelled"],
    unsettled <- Unsettled,
    safe <- {id \in Ids : answer[id] \cap Safe # {}}

\* The tables and the requests implement that ledger, overlapping syncs and
\* cancellations included.
ImplementsLedger == Ledger!Spec

-----------------------------------------------------------------------------
(* What the comments of the code say, and concurrent requests or the ties  *)
(* of serverTimestamp do not keep.                                         *)

\* sync: "each accepted transaction references the hash of the previous one of
\* the same agent", so the tickets of an agent, read in some order that the sort by
\* serverTimestamp allows, pass the verification of the chain.
ChainVerifiesInSomeOrder ==
    \A a \in Agents : \E s \in ChainOrders(a) : ChainVerifies(s)

\* cancel: "the ticket stays visible with its status", so no sync gives a
\* cancelled ticket another one.
CancelledIsFinal ==
    [][\A id \in Ids : Stored(id) /\ table[id].status = "cancelled" =>
         table'[id].status = "cancelled"]_table

=============================================================================
