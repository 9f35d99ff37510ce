----------------------- MODULE TransactionSyncProofs -----------------------
(***************************************************************************)
(* Proofs about TransactionSync, for any number of tickets, terminals and  *)
(* concurrent requests, any clock and any faults.                          *)
(***************************************************************************)
EXTENDS TransactionSync, DeviceRegistryProofs

(***************************************************************************)
(* What a request carries, by the await it is at: a sync past the          *)
(* signature check holds a ticket of its own terminal, and what a request  *)
(* found stored still is.                                                  *)
(***************************************************************************)
SyncConsistent(h) ==
    LET r == sync[h] IN
    /\ r.pc # "idle" => r.dev \in Devices
    /\ r.pc \in {"signatureAudit", "lastHash", "select", "write", "flagAudit"} =>
          r.cur \in Ids
    /\ r.pc \in {"lastHash", "select", "write", "flagAudit"} => Signer[r.cur] = r.dev
    /\ r.pc \in {"select", "write"} => r.ent \in Row /\ r.ent.device = r.dev
    /\ r.pc = "write" /\ r.loaded # NoRow => Stored(r.cur)
    /\ r.pc = "flagAudit" => Stored(r.cur)

CancelConsistent(s) ==
    LET r == cancel[s] IN
    /\ r.pc # "idle" => r.id \in Ids /\ Stored(r.id)
    /\ r.pc \in {"select", "write"} => r.ent \in Row /\ r.ent.device = Signer[r.id]
    /\ r.pc = "write" => r.loaded \in Row

RequestsConsistent ==
    /\ \A h \in SyncHandlers : SyncConsistent(h)
    /\ \A s \in Supervisors : CancelConsistent(s)

(***************************************************************************)
(* The inductive invariant.  Acknowledged and SignedByItsDevice are not    *)
(* inductive alone: what a row gets is in a request that read the database *)
(* several steps before, so the requests in flight are constrained too.    *)
(***************************************************************************)
IInv ==
    /\ TypeOK
    /\ RequestsConsistent
    /\ Acknowledged
    /\ SignedByItsDevice

(***************************************************************************)
(* save() of an entity over a row leaves a row.                            *)
(***************************************************************************)
LEMMA WrittenIsRow ==
    ASSUME NEW ent \in Row, NEW loaded \in Row, NEW row \in Row
    PROVE  Written(ent, loaded, row) \in Row
BY DEF Written, Column, Row

(***************************************************************************)
(* ... which is signed as the entity and the row were.                     *)
(***************************************************************************)
LEMMA WrittenKeepsDevice ==
    ASSUME NEW ent \in Row, NEW loaded \in Row, NEW row \in Row,
           ent.device = row.device
    PROVE  Written(ent, loaded, row).device = row.device
BY DEF Written, Column

(***************************************************************************)
(* The row that sync builds is a row of the terminal, and the hash it      *)
(* links to is a hash.                                                     *)
(***************************************************************************)
LEMMA NewRowIsRow ==
    ASSUME NEW id \in Ids, NEW d \in Devices, NEW now \in Time, NEW prev \in Hash
    PROVE  /\ NewRow(id, d, now, prev) \in Row
           /\ NewRow(id, d, now, prev).device = d
<1>1. [id |-> id, device |-> d, ts |-> now] \in Link
  BY DEF Link
<1>2. Digest(id, d, now, prev) \in Hash
  BY <1>1 DEF Digest, Hash
<1>3. ClockTampered(id, now) \in BOOLEAN
  BY DEF ClockTampered
<1>4. StatusFor(ClockTampered(id, now)) \in TicketStatus
  BY DEF StatusFor, TicketStatus
<1> QED BY <1>2, <1>3, <1>4 DEF NewRow, Row

LEMMA LastHashesAreHashes ==
    ASSUME TypeOK, NEW a, NEW prev \in LastHashes(a)
    PROVE  prev \in Hash
<1>1. Genesis \in Hash
  BY DEF Genesis, Hash
<1>2. \A id \in Ids : Stored(id) => table[id].hash \in Hash
  BY DEF TypeOK, Stored, Row
<1> QED BY <1>1, <1>2 DEF LastHashes, AgentTickets

(***************************************************************************)
(* A step of one sync preserves the invariant as soon as it keeps the      *)
(* types, the rows and the consistency of that request.                    *)
(***************************************************************************)
LEMMA SyncFrame ==
    ASSUME IInv, TypeOK', NEW h \in SyncHandlers,
           \A g \in SyncHandlers : g # h => sync'[g] = sync[g],
           \A id \in Ids : Stored(id) => Stored(id)',
           UNCHANGED <<cancel, answer>>,
           SyncConsistent(h)',
           \A id \in Ids : sync'[h].out[id] \in Safe => Stored(id)',
           SignedByItsDevice'
    PROVE  IInv'
<1>1. \A g \in SyncHandlers : SyncConsistent(g)'
  <2> TAKE g \in SyncHandlers
  <2>1. CASE g = h
    BY <2>1
  <2>2. CASE g # h
    <3>1. sync'[g] = sync[g] /\ SyncConsistent(g)
      BY <2>2 DEF IInv, RequestsConsistent
    <3> QED BY <3>1 DEF SyncConsistent
  <2> QED BY <2>1, <2>2
<1>2. \A s \in Supervisors : CancelConsistent(s)'
  BY DEF IInv, RequestsConsistent, CancelConsistent
<1>3. Acknowledged'
  <2> SUFFICES ASSUME NEW id \in Ids,
                      \/ answer'[id] \cap Safe # {}
                      \/ \E g \in SyncHandlers : sync'[g].out[id] \in Safe
               PROVE  Stored(id)'
    BY DEF Acknowledged
  <2>1. CASE answer'[id] \cap Safe # {}
    BY <2>1 DEF IInv, Acknowledged
  <2>2. CASE \E g \in SyncHandlers : sync'[g].out[id] \in Safe
    <3> PICK g \in SyncHandlers : sync'[g].out[id] \in Safe
      BY <2>2
    <3>1. CASE g = h
      BY <3>1
    <3>2. CASE g # h
      BY <3>2 DEF IInv, Acknowledged
    <3> QED BY <3>1, <3>2
  <2> QED BY <2>1, <2>2
<1> QED BY <1>1, <1>2, <1>3 DEF IInv, RequestsConsistent

(***************************************************************************)
(* The same for a step that writes no row and leaves the request as r.     *)
(***************************************************************************)
LEMMA SyncQuietStep ==
    ASSUME IInv, NEW h \in SyncHandlers, NEW r \in SyncRequest,
           sync' = [sync EXCEPT ![h] = r],
           UNCHANGED <<status, enroll, admin, clock, table, cancel, answer>>,
           audit' \subseteq DeviceAudit \cup TicketAudit,
           sync'[h] = r => SyncConsistent(h)',
           \A id \in Ids : r.out[id] \in Safe => Stored(id)
    PROVE  IInv'
<1>1. /\ sync' \in [SyncHandlers -> SyncRequest]
      /\ sync'[h] = r
      /\ \A g \in SyncHandlers : g # h => sync'[g] = sync[g]
  BY DEF IInv, TypeOK
<1>2. TypeOK'
  BY <1>1 DEF IInv, TypeOK, RegistryTypeOK
<1>3. \A id \in Ids : Stored(id)' <=> Stored(id)
  BY DEF Stored
<1>4. SignedByItsDevice'
  BY DEF IInv, SignedByItsDevice, Stored
<1> QED BY <1>1, <1>2, <1>3, <1>4, SyncFrame

(***************************************************************************)
(* What every lemma about a sync needs of the invariant.                   *)
(***************************************************************************)
LEMMA IInvFacts ==
    ASSUME IInv, NEW h \in SyncHandlers
    PROVE  /\ sync \in [SyncHandlers -> SyncRequest]
           /\ sync[h] \in SyncRequest
           /\ audit \subseteq DeviceAudit \cup TicketAudit
           /\ clock \in Time
           /\ table \in [Ids -> Row \cup {NoRow}]
           /\ SyncConsistent(h)
           /\ \A id \in Ids : sync[h].out[id] \in Safe => Stored(id)
BY DEF IInv, TypeOK, RequestsConsistent, Acknowledged

LEMMA NoSyncIsRequest ==
    /\ NoSync \in SyncRequest
    /\ \A id \in Ids : NoSync.out[id] \notin Safe
BY SyncAssumption DEF NoSync, SyncRequest, SyncPC, Time, Safe

(***************************************************************************)
(* A sync that ends by a conflict, a refusal or a fault.                   *)
(***************************************************************************)
LEMMA SyncEnds ==
    ASSUME IInv, NEW h \in SyncHandlers,
           sync' = [sync EXCEPT ![h] = NoSync],
           UNCHANGED <<status, enroll, admin, clock, table, cancel, answer>>,
           audit' \subseteq DeviceAudit \cup TicketAudit
    PROVE  IInv'
<1>1. sync'[h] = NoSync => SyncConsistent(h)'
  BY DEF SyncConsistent, NoSync
<1> QED BY <1>1, NoSyncIsRequest, SyncQuietStep

(***************************************************************************)
(* One lemma for each step of a sync.                                      *)
(***************************************************************************)
LEMMA SyncOpenStep ==
    ASSUME IInv, NEW h \in SyncHandlers, NEW d \in Devices,
           NEW batch \in SUBSET Holds[d], SyncOpen(h, d, batch)
    PROVE  IInv'
<1> DEFINE r == [NoSync EXCEPT !.dev = d,
                   !.pc = IF DeviceUsable(d) THEN "start" ELSE "deviceAudit",
                   !.todo = batch]
<1>1. r \in SyncRequest
  BY NoSyncIsRequest, SyncAssumption DEF SyncRequest, SyncPC
<1>2. r.pc \in {"start", "deviceAudit"} /\ r.dev = d /\ r.out = NoSync.out
  BY DEF NoSync
<1>3. sync' = [sync EXCEPT ![h] = r]
  BY DEF SyncOpen
<1> HIDE DEF r
<1>4. sync'[h] = r => SyncConsistent(h)'
  BY <1>2 DEF SyncConsistent
<1> QED
  BY <1>1, <1>2, <1>3, <1>4, IInvFacts, NoSyncIsRequest, SyncQuietStep
     DEF SyncOpen, registryVars

LEMMA RejectDeviceStep ==
    ASSUME IInv, NEW h \in SyncHandlers, RejectDevice(h)
    PROVE  IInv'
<1>1. sync[h].dev \in Devices
  BY IInvFacts DEF SyncConsistent, RejectDevice
<1>2. audit' \subseteq DeviceAudit \cup TicketAudit
  BY <1>1, IInvFacts, SyncAssumption DEF RejectDevice, Record, Entry, TicketAudit
<1> QED BY <1>2, SyncEnds DEF RejectDevice

LEMMA StartBatchStep ==
    ASSUME IInv, NEW h \in SyncHandlers, StartBatch(h)
    PROVE  IInv'
<1> DEFINE r == [sync[h] EXCEPT !.pc = "find", !.now = clock]
<1>1. r \in SyncRequest
  BY IInvFacts DEF SyncRequest, SyncPC
<1>2. r.pc = "find" /\ r.dev = sync[h].dev /\ r.out = sync[h].out
  BY IInvFacts DEF SyncRequest
<1>3. sync' = [sync EXCEPT ![h] = r]
  BY IInvFacts DEF StartBatch
<1> HIDE DEF r
<1>4. sync'[h] = r => SyncConsistent(h)'
  BY <1>2, IInvFacts DEF SyncConsistent, StartBatch
<1> QED
  BY <1>1, <1>2, <1>3, <1>4, IInvFacts, SyncQuietStep DEF StartBatch, registryVars

LEMMA SkipDuplicateStep ==
    ASSUME IInv, NEW h \in SyncHandlers, NEW id \in Ids, SkipDuplicate(h, id)
    PROVE  IInv'
<1> DEFINE r == [sync[h] EXCEPT !.todo = @ \ {id}, !.out[id] = "duplicate"]
<1>1. r \in SyncRequest
  BY IInvFacts DEF SyncRequest, Outcomes
<1>2. /\ r.pc = "find" /\ r.dev = sync[h].dev
      /\ r.out = [sync[h].out EXCEPT ![id] = "duplicate"]
  BY IInvFacts DEF SyncRequest, SkipDuplicate
<1>3. sync' = [sync EXCEPT ![h] = r]
  BY IInvFacts DEF SkipDuplicate
<1> HIDE DEF r
<1>4. sync'[h] = r => SyncConsistent(h)'
  BY <1>2, IInvFacts DEF SyncConsistent, SkipDuplicate
<1>5. \A u \in Ids : r.out[u] \in Safe => Stored(u)
  BY <1>2, IInvFacts DEF SkipDuplicate, Known, SyncRequest
<1> QED
  BY <1>1, <1>3, <1>4, <1>5, IInvFacts, SyncQuietStep DEF SkipDuplicate, registryVars

LEMMA DetectBadSignatureStep ==
    ASSUME IInv, NEW h \in SyncHandlers, NEW id \in Ids, DetectBadSignature(h, id)
    PROVE  IInv'
<1> DEFINE r == [sync[h] EXCEPT !.pc = "signatureAudit", !.todo = @ \ {id}, !.cur = id]
<1>1. r \in SyncRequest
  BY IInvFacts DEF SyncRequest, SyncPC
<1>2. /\ r.pc = "signatureAudit" /\ r.cur = id /\ r.dev = sync[h].dev
      /\ r.out = sync[h].out
  BY IInvFacts DEF SyncRequest
<1>3. sync' = [sync EXCEPT ![h] = r]
  BY IInvFacts DEF DetectBadSignature
<1> HIDE DEF r
<1>4. sync'[h] = r => SyncConsistent(h)'
  BY <1>2, IInvFacts DEF SyncConsistent, DetectBadSignature
<1> QED
  BY <1>1, <1>2, <1>3, <1>4, IInvFacts, SyncQuietStep
     DEF DetectBadSignature, registryVars

LEMMA AdmitItemStep ==
    ASSUME IInv, NEW h \in SyncHandlers, NEW id \in Ids, AdmitItem(h, id)
    PROVE  IInv'
<1> DEFINE r == [sync[h] EXCEPT !.pc = "lastHash", !.todo = @ \ {id}, !.cur = id]
<1>1. r \in SyncRequest
  BY IInvFacts DEF SyncRequest, SyncPC
<1>2. /\ r.pc = "lastHash" /\ r.cur = id /\ r.dev = sync[h].dev
      /\ r.out = sync[h].out
  BY IInvFacts DEF SyncRequest
<1>3. sync' = [sync EXCEPT ![h] = r]
  BY IInvFacts DEF AdmitItem
<1> HIDE DEF r
<1>4. sync'[h] = r => SyncConsistent(h)'
  BY <1>2, IInvFacts DEF SyncConsistent, AdmitItem, SignatureValid
<1> QED
  BY <1>1, <1>2, <1>3, <1>4, IInvFacts, SyncQuietStep DEF AdmitItem, registryVars

(***************************************************************************)
(* The request after an item got its outcome.                              *)
(***************************************************************************)
LEMMA SettledRequest ==
    ASSUME IInv, NEW h \in SyncHandlers, NEW id \in Ids, NEW outcome \in Outcomes,
           Settle(h, id, outcome), sync[h].pc # "idle"
    PROVE  /\ Settled(h, id, outcome) \in SyncRequest
           /\ sync' = [sync EXCEPT ![h] = Settled(h, id, outcome)]
           /\ sync'[h] = Settled(h, id, outcome) => SyncConsistent(h)'
           /\ \A u \in Ids : Settled(h, id, outcome).out[u] \in Safe =>
                 Stored(u) \/ (u = id /\ outcome \in Safe)
<1> DEFINE r == Settled(h, id, outcome)
<1>1. r \in SyncRequest
  BY IInvFacts DEF Settled, SyncRequest, SyncPC
<1>2. /\ r.pc = "find" /\ r.dev = sync[h].dev
      /\ r.out = [sync[h].out EXCEPT ![id] = outcome]
  BY IInvFacts DEF Settled, SyncRequest
<1>3. sync' = [sync EXCEPT ![h] = r]
  BY DEF Settle
<1> HIDE DEF r
<1>4. sync'[h] = r => SyncConsistent(h)'
  BY <1>2, IInvFacts DEF SyncConsistent
<1>5. \A u \in Ids : r.out[u] \in Safe => Stored(u) \/ (u = id /\ outcome \in Safe)
  BY <1>2, IInvFacts DEF SyncRequest
<1> QED BY <1>1, <1>3, <1>4, <1>5 DEF r

LEMMA RejectSignatureStep ==
    ASSUME IInv, NEW h \in SyncHandlers, RejectSignature(h)
    PROVE  IInv'
<1>1. sync[h].dev \in Devices /\ sync[h].cur \in Ids /\ sync[h].pc # "idle"
  BY IInvFacts DEF SyncConsistent, RejectSignature
<1>2. audit' \subseteq DeviceAudit \cup TicketAudit
  BY <1>1, IInvFacts, SyncAssumption DEF RejectSignature, Record, Entry, TicketAudit
<1>3. "rejected_signature" \in Outcomes /\ "rejected_signature" \notin Safe
  BY DEF Outcomes, Safe
<1> QED
  BY <1>1, <1>2, <1>3, SettledRequest, SyncQuietStep DEF RejectSignature

LEMMA AuditFlagStep ==
    ASSUME IInv, NEW h \in SyncHandlers, AuditFlag(h)
    PROVE  IInv'
<1>1. /\ sync[h].dev \in Devices /\ sync[h].cur \in Ids /\ sync[h].pc # "idle"
      /\ Stored(sync[h].cur)
  BY IInvFacts DEF SyncConsistent, AuditFlag
<1>2. audit' \subseteq DeviceAudit \cup TicketAudit
  BY <1>1, IInvFacts, SyncAssumption DEF AuditFlag, Record, Entry, TicketAudit
<1>3. "flagged" \in Outcomes
  BY DEF Outcomes
<1> QED
  BY <1>1, <1>2, <1>3, SettledRequest, SyncQuietStep DEF AuditFlag

LEMMA ReadLastHashStep ==
    ASSUME IInv, NEW h \in SyncHandlers, ReadLastHash(h)
    PROVE  IInv'
<1> PICK prev \in LastHashes(DeviceAgent[sync[h].dev]) :
      sync' = [sync EXCEPT ![h].pc = "select",
                 ![h].ent = NewRow(sync[h].cur, sync[h].dev, sync[h].now, prev)]
  BY DEF ReadLastHash
<1> DEFINE row == NewRow(sync[h].cur, sync[h].dev, sync[h].now, prev)
<1> DEFINE r == [sync[h] EXCEPT !.pc = "select", !.ent = row]
<1>1. /\ sync[h].dev \in Devices /\ sync[h].cur \in Ids
      /\ sync[h].now \in Time /\ prev \in Hash
      /\ Signer[sync[h].cur] = sync[h].dev
  BY IInvFacts, LastHashesAreHashes DEF SyncConsistent, ReadLastHash, SyncRequest, IInv
<1>2. row \in Row /\ row.device = sync[h].dev
  BY <1>1, NewRowIsRow
<1> HIDE DEF row
<1>3. r \in SyncRequest
  BY <1>2, IInvFacts DEF SyncRequest, SyncPC
<1>4. /\ r.pc = "select" /\ r.ent = row /\ r.cur = sync[h].cur
      /\ r.dev = sync[h].dev /\ r.out = sync[h].out
  BY IInvFacts DEF SyncRequest
<1>5. sync' = [sync EXCEPT ![h] = r]
  BY IInvFacts DEF row
<1> HIDE DEF r
<1>6. sync'[h] = r => SyncConsistent(h)'
  BY <1>1, <1>2, <1>4 DEF SyncConsistent
<1> QED
  BY <1>3, <1>4, <1>5, <1>6, IInvFacts, SyncQuietStep DEF ReadLastHash, registryVars

LEMMA SyncSelectStep ==
    ASSUME IInv, NEW h \in SyncHandlers, SyncSelect(h)
    PROVE  IInv'
<1> DEFINE r == [sync[h] EXCEPT !.pc = "write", !.loaded = table[sync[h].cur]]
<1>1. /\ sync[h].dev \in Devices /\ sync[h].cur \in Ids
      /\ sync[h].ent \in Row /\ sync[h].ent.device = sync[h].dev
      /\ Signer[sync[h].cur] = sync[h].dev
  BY IInvFacts DEF SyncConsistent, SyncSelect
<1>2. r \in SyncRequest
  BY <1>1, IInvFacts DEF SyncRequest, SyncPC
<1>3. /\ r.pc = "write" /\ r.ent = sync[h].ent /\ r.cur = sync[h].cur
      /\ r.dev = sync[h].dev /\ r.out = sync[h].out
      /\ r.loaded = table[sync[h].cur]
  BY IInvFacts DEF SyncRequest
<1>4. sync' = [sync EXCEPT ![h] = r]
  BY IInvFacts DEF SyncSelect
<1> HIDE DEF r
<1>5. sync'[h] = r => SyncConsistent(h)'
  BY <1>1, <1>3 DEF SyncConsistent, SyncSelect, Stored
<1> QED
  BY <1>2, <1>3, <1>4, <1>5, IInvFacts, SyncQuietStep DEF SyncSelect, registryVars

(***************************************************************************)
(* Writing a row of the table keeps the others.                            *)
(***************************************************************************)
LEMMA RowIsWritten ==
    ASSUME table \in [Ids -> Row \cup {NoRow}], NEW id \in Ids, NEW row \in Row,
           table' = [table EXCEPT ![id] = row]
    PROVE  /\ table' \in [Ids -> Row \cup {NoRow}]
           /\ \A t \in Ids : Stored(t) => Stored(t)'
           /\ table'[id] # NoRow
<1>1. table' \in [Ids -> Row \cup {NoRow}]
  OBVIOUS
<1>2. \A t \in Ids : table'[t] = IF t = id THEN row ELSE table[t]
  OBVIOUS
<1>3. row # NoRow
  BY RowAssumption
<1> QED BY <1>1, <1>2, <1>3 DEF Stored

(***************************************************************************)
(* The request after its row is written.                                   *)
(***************************************************************************)
LEMMA AfterWriteRequest ==
    ASSUME IInv, NEW h \in SyncHandlers, AfterWrite(h), sync[h].pc = "write",
           table' \in [Ids -> Row \cup {NoRow}],
           \A id \in Ids : Stored(id) => Stored(id)',
           table'[sync[h].cur] # NoRow
    PROVE  /\ sync' \in [SyncHandlers -> SyncRequest]
           /\ \A g \in SyncHandlers : g # h => sync'[g] = sync[g]
           /\ SyncConsistent(h)'
           /\ \A id \in Ids : sync'[h].out[id] \in Safe => Stored(id)'
<1>1. /\ sync[h].dev \in Devices /\ sync[h].cur \in Ids
      /\ Signer[sync[h].cur] = sync[h].dev
  BY IInvFacts DEF SyncConsistent
<1>2. CASE sync[h].ent.tampered
  <2> DEFINE r == [sync[h] EXCEPT !.pc = "flagAudit", !.ent = NoRow, !.loaded = NoRow]
  <2>1. r \in SyncRequest
    BY IInvFacts DEF SyncRequest, SyncPC
  <2>2. /\ r.pc = "flagAudit" /\ r.cur = sync[h].cur /\ r.dev = sync[h].dev
        /\ r.out = sync[h].out
    BY IInvFacts DEF SyncRequest
  <2>3. sync' = [sync EXCEPT ![h] = r]
    BY <1>2, IInvFacts DEF AfterWrite
  <2> HIDE DEF r
  <2>4. sync'[h] = r
    BY <2>3, IInvFacts
  <2>5. SyncConsistent(h)'
    BY <1>1, <2>2, <2>4 DEF SyncConsistent, Stored
  <2> QED BY <2>1, <2>2, <2>3, <2>4, <2>5, IInvFacts
<1>3. CASE ~sync[h].ent.tampered
  <2> DEFINE r == Settled(h, sync[h].cur, "accepted")
  <2>1. Settle(h, sync[h].cur, "accepted") /\ "accepted" \in Outcomes
    BY <1>3 DEF AfterWrite, Outcomes
  <2>2. /\ r \in SyncRequest
        /\ sync' = [sync EXCEPT ![h] = r]
        /\ sync'[h] = r => SyncConsistent(h)'
        /\ \A u \in Ids : r.out[u] \in Safe => Stored(u) \/ u = sync[h].cur
    BY <1>1, <2>1, SettledRequest
  <2> HIDE DEF r
  <2>3. /\ sync'[h] = r
        /\ sync' \in [SyncHandlers -> SyncRequest]
        /\ \A g \in SyncHandlers : g # h => sync'[g] = sync[g]
    BY <2>2, IInvFacts
  <2>4. \A id \in Ids : r.out[id] \in Safe => Stored(id)'
    BY <2>2 DEF Stored
  <2> QED BY <2>2, <2>3, <2>4
<1> QED BY <1>2, <1>3

LEMMA SyncInsertStep ==
    ASSUME IInv, NEW h \in SyncHandlers, SyncInsert(h)
    PROVE  IInv'
<1>1. /\ sync[h].cur \in Ids /\ sync[h].ent \in Row
      /\ sync[h].ent.device = Signer[sync[h].cur]
      /\ table' = [table EXCEPT ![sync[h].cur] = sync[h].ent]
  BY IInvFacts DEF SyncConsistent, SyncInsert
<1>2. /\ table' \in [Ids -> Row \cup {NoRow}]
      /\ \A id \in Ids : Stored(id) => Stored(id)'
      /\ table'[sync[h].cur] # NoRow
  BY <1>1, IInvFacts, RowIsWritten
<1>3. /\ sync' \in [SyncHandlers -> SyncRequest]
      /\ \A g \in SyncHandlers : g # h => sync'[g] = sync[g]
      /\ SyncConsistent(h)'
      /\ \A id \in Ids : sync'[h].out[id] \in Safe => Stored(id)'
  BY <1>2, AfterWriteRequest DEF SyncInsert
<1>4. TypeOK'
  BY <1>2, <1>3 DEF SyncInsert, IInv, TypeOK, RegistryTypeOK, registryVars
<1>5. SignedByItsDevice'
  BY <1>1, IInvFacts DEF IInv, SignedByItsDevice, Stored
<1> QED BY <1>2, <1>3, <1>4, <1>5, SyncFrame DEF SyncInsert

LEMMA SyncUpdateStep ==
    ASSUME IInv, NEW h \in SyncHandlers, SyncUpdate(h)
    PROVE  IInv'
<1> DEFINE id == sync[h].cur
<1> DEFINE row == Written(sync[h].ent, sync[h].loaded, table[id])
<1>1. /\ id \in Ids /\ sync[h].ent \in Row /\ Stored(id)
      /\ sync[h].ent.device = Signer[id]
      /\ table' = [table EXCEPT ![id] = row]
  BY IInvFacts DEF SyncConsistent, SyncUpdate
<1>2. /\ sync[h].loaded \in Row /\ table[id] \in Row
      /\ table[id].device = Signer[id]
  BY <1>1, IInvFacts DEF SyncUpdate, SyncRequest, Stored, IInv, SignedByItsDevice
<1>3. row \in Row /\ row.device = Signer[id]
  BY <1>1, <1>2, WrittenIsRow, WrittenKeepsDevice
<1> HIDE DEF row
<1>4. /\ table' \in [Ids -> Row \cup {NoRow}]
      /\ \A t \in Ids : Stored(t) => Stored(t)'
      /\ table'[id] # NoRow
  BY <1>1, <1>3, IInvFacts, RowIsWritten
<1>5. /\ sync' \in [SyncHandlers -> SyncRequest]
      /\ \A g \in SyncHandlers : g # h => sync'[g] = sync[g]
      /\ SyncConsistent(h)'
      /\ \A t \in Ids : sync'[h].out[t] \in Safe => Stored(t)'
  BY <1>4, AfterWriteRequest DEF SyncUpdate
<1>6. TypeOK'
  BY <1>4, <1>5 DEF SyncUpdate, IInv, TypeOK, RegistryTypeOK, registryVars
<1>7. SignedByItsDevice'
  BY <1>1, <1>3, IInvFacts DEF IInv, SignedByItsDevice, Stored
<1> QED BY <1>4, <1>5, <1>6, <1>7, SyncFrame DEF SyncUpdate

LEMMA SyncRespondStep ==
    ASSUME IInv, NEW h \in SyncHandlers, SyncRespond(h)
    PROVE  IInv'
<1>1. /\ sync' = [sync EXCEPT ![h] = NoSync]
      /\ answer \in [Ids -> SUBSET Outcomes]
      /\ answer' = [id \in Ids |-> answer[id] \cup ({sync[h].out[id]} \ {"none"})]
  BY DEF SyncRespond, IInv, TypeOK
<1>2. sync' \in [SyncHandlers -> SyncRequest] /\ sync'[h] = NoSync
      /\ \A g \in SyncHandlers : g # h => sync'[g] = sync[g]
  BY <1>1, IInvFacts, NoSyncIsRequest
<1>3. answer' \in [Ids -> SUBSET Outcomes]
  BY <1>1, IInvFacts DEF SyncRequest
<1>4. TypeOK'
  BY <1>2, <1>3 DEF SyncRespond, IInv, TypeOK, RegistryTypeOK, registryVars
<1>5. RequestsConsistent'
  BY <1>2 DEF SyncRespond, IInv, RequestsConsistent, SyncConsistent,
     CancelConsistent, NoSync, Stored
<1>6. Acknowledged'
  <2> SUFFICES ASSUME NEW id \in Ids,
                      \/ answer'[id] \cap Safe # {}
                      \/ \E g \in SyncHandlers : sync'[g].out[id] \in Safe
               PROVE  Stored(id)
    BY DEF Acknowledged, Stored, SyncRespond
  <2>1. CASE answer'[id] \cap Safe # {}
    BY <1>1, <2>1 DEF IInv, Acknowledged
  <2>2. CASE \E g \in SyncHandlers : sync'[g].out[id] \in Safe
    BY <1>2, <2>2, NoSyncIsRequest DEF IInv, Acknowledged
  <2> QED BY <2>1, <2>2
<1>7. SignedByItsDevice'
  BY DEF SyncRespond, IInv, SignedByItsDevice, Stored
<1> QED BY <1>4, <1>5, <1>6, <1>7 DEF IInv

(***************************************************************************)
(* A step of one cancellation preserves the invariant as soon as it keeps  *)
(* the types, the rows and the consistency of that request.                *)
(***************************************************************************)
LEMMA CancelFrame ==
    ASSUME IInv, TypeOK', NEW s \in Supervisors,
           \A q \in Supervisors : q # s => cancel'[q] = cancel[q],
           \A id \in Ids : Stored(id) => Stored(id)',
           UNCHANGED <<sync, answer>>,
           CancelConsistent(s)',
           SignedByItsDevice'
    PROVE  IInv'
<1>1. \A q \in Supervisors : CancelConsistent(q)'
  <2> TAKE q \in Supervisors
  <2>1. CASE q = s
    BY <2>1
  <2>2. CASE q # s
    <3>1. cancel'[q] = cancel[q] /\ CancelConsistent(q)
      BY <2>2 DEF IInv, RequestsConsistent
    <3> QED BY <3>1 DEF CancelConsistent
  <2> QED BY <2>1, <2>2
<1>2. \A h \in SyncHandlers : SyncConsistent(h)'
  BY DEF IInv, RequestsConsistent, SyncConsistent
<1>3. Acknowledged'
  BY DEF IInv, Acknowledged
<1> QED BY <1>1, <1>2, <1>3 DEF IInv, RequestsConsistent

LEMMA CancelFacts ==
    ASSUME IInv, NEW s \in Supervisors
    PROVE  /\ cancel \in [Supervisors -> CancelRequest]
           /\ cancel[s] \in CancelRequest
           /\ NoCancel \in CancelRequest
           /\ audit \subseteq DeviceAudit \cup TicketAudit
           /\ table \in [Ids -> Row \cup {NoRow}]
           /\ CancelConsistent(s)
           /\ \A id \in Ids : Stored(id) => table[id] \in Row /\ table[id].device = Signer[id]
BY DEF IInv, TypeOK, RequestsConsistent, SignedByItsDevice, Stored, NoCancel, CancelRequest

(***************************************************************************)
(* The same for a step that writes no row and leaves the request as r.     *)
(***************************************************************************)
LEMMA CancelQuietStep ==
    ASSUME IInv, NEW s \in Supervisors, NEW r \in CancelRequest,
           cancel' = [cancel EXCEPT ![s] = r],
           UNCHANGED <<status, enroll, admin, clock, table, sync, answer>>,
           audit' \subseteq DeviceAudit \cup TicketAudit,
           cancel'[s] = r => CancelConsistent(s)'
    PROVE  IInv'
<1>1. /\ cancel' \in [Supervisors -> CancelRequest]
      /\ cancel'[s] = r
      /\ \A q \in Supervisors : q # s => cancel'[q] = cancel[q]
  BY CancelFacts
<1>2. TypeOK'
  BY <1>1 DEF IInv, TypeOK, RegistryTypeOK
<1>3. \A id \in Ids : Stored(id)' <=> Stored(id)
  BY DEF Stored
<1>4. SignedByItsDevice'
  BY DEF IInv, SignedByItsDevice, Stored
<1> QED BY <1>1, <1>2, <1>3, <1>4, CancelFrame

LEMMA CancelFindStep ==
    ASSUME IInv, NEW s \in Supervisors, NEW id \in Ids, CancelFind(s, id)
    PROVE  IInv'
<1> DEFINE row == [table[id] EXCEPT !.status = "cancelled", !.cancelledBy = s]
<1> DEFINE r == [pc |-> "select", id |-> id, loaded |-> NoRow, ent |-> row]
<1>1. Stored(id) /\ table[id] \in Row /\ table[id].device = Signer[id]
  BY CancelFacts DEF CancelFind, Cancellable
<1>2. row \in Row /\ row.device = Signer[id]
  BY <1>1 DEF Row, TicketStatus
<1>3. cancel' = [cancel EXCEPT ![s] = r]
  BY DEF CancelFind
<1> HIDE DEF row
<1>4. r \in CancelRequest
  BY <1>2 DEF CancelRequest
<1>5. cancel'[s] = r => CancelConsistent(s)'
  BY <1>1, <1>2 DEF CancelConsistent, CancelFind, Stored
<1> HIDE DEF r
<1> QED
  BY <1>3, <1>4, <1>5, CancelFacts, CancelQuietStep DEF CancelFind, registryVars

LEMMA CancelSelectStep ==
    ASSUME IInv, NEW s \in Supervisors, CancelSelect(s)
    PROVE  IInv'
<1> DEFINE r == [cancel[s] EXCEPT !.pc = "write", !.loaded = table[cancel[s].id]]
<1>1. /\ cancel[s].id \in Ids /\ Stored(cancel[s].id)
      /\ table[cancel[s].id] \in Row
      /\ cancel[s].ent \in Row /\ cancel[s].ent.device = Signer[cancel[s].id]
  BY CancelFacts DEF CancelConsistent, CancelSelect
<1>2. r \in CancelRequest
  BY <1>1, CancelFacts DEF CancelRequest
<1>3. /\ r.pc = "write" /\ r.id = cancel[s].id /\ r.ent = cancel[s].ent
      /\ r.loaded = table[cancel[s].id]
  BY CancelFacts DEF CancelRequest
<1>4. cancel' = [cancel EXCEPT ![s] = r]
  BY CancelFacts DEF CancelSelect
<1> HIDE DEF r
<1>5. cancel'[s] = r => CancelConsistent(s)'
  BY <1>1, <1>3 DEF CancelConsistent, CancelSelect, Stored
<1> QED
  BY <1>2, <1>4, <1>5, CancelFacts, CancelQuietStep DEF CancelSelect, registryVars

LEMMA CancelWriteStep ==
    ASSUME IInv, NEW s \in Supervisors, CancelWrite(s)
    PROVE  IInv'
<1> DEFINE id == cancel[s].id
<1> DEFINE row == Written(cancel[s].ent, cancel[s].loaded, table[id])
<1> DEFINE r == [cancel[s] EXCEPT !.pc = "audit", !.ent = NoRow, !.loaded = NoRow]
<1>1. /\ id \in Ids /\ Stored(id)
      /\ table[id] \in Row /\ table[id].device = Signer[id]
      /\ cancel[s].ent \in Row /\ cancel[s].ent.device = Signer[id]
      /\ cancel[s].loaded \in Row
  BY CancelFacts DEF CancelConsistent, CancelWrite
<1>2. row \in Row /\ row.device = Signer[id]
  <2>1. row \in Row
    BY <1>1, WrittenIsRow
  <2>2. row.device = table[id].device
    BY <1>1, WrittenKeepsDevice
  <2> QED BY <1>1, <2>1, <2>2
<1>3. table' = [table EXCEPT ![id] = row]
  BY DEF CancelWrite
<1> HIDE DEF row
<1>4. /\ table' \in [Ids -> Row \cup {NoRow}]
      /\ \A t \in Ids : Stored(t) => Stored(t)'
      /\ table'[id] # NoRow
  BY <1>1, <1>2, <1>3, CancelFacts, RowIsWritten
<1>5. r \in CancelRequest
  BY CancelFacts DEF CancelRequest
<1>6. r.pc = "audit" /\ r.id = id
  BY CancelFacts DEF CancelRequest
<1>7. cancel' = [cancel EXCEPT ![s] = r]
  BY CancelFacts DEF CancelWrite
<1> HIDE DEF r
<1>8. /\ cancel' \in [Supervisors -> CancelRequest]
      /\ cancel'[s] = r
      /\ \A q \in Supervisors : q # s => cancel'[q] = cancel[q]
  BY <1>5, <1>7, CancelFacts
<1>9. CancelConsistent(s)'
  BY <1>1, <1>4, <1>6, <1>8 DEF CancelConsistent, Stored
<1>10. TypeOK'
  BY <1>4, <1>8 DEF CancelWrite, IInv, TypeOK, RegistryTypeOK, registryVars
<1>11. SignedByItsDevice'
  BY <1>1, <1>2, <1>3, CancelFacts DEF IInv, SignedByItsDevice, Stored
<1> QED BY <1>4, <1>8, <1>9, <1>10, <1>11, CancelFrame DEF CancelWrite

LEMMA CancelAuditStep ==
    ASSUME IInv, NEW s \in Supervisors, CancelAudit(s)
    PROVE  IInv'
<1>1. cancel[s].id \in Ids
  BY CancelFacts DEF CancelConsistent, CancelAudit
<1>2. audit' \subseteq DeviceAudit \cup TicketAudit
  BY <1>1, CancelFacts DEF CancelAudit, Record, Entry, TicketAudit
<1>3. cancel'[s] = NoCancel => CancelConsistent(s)'
  BY DEF CancelConsistent, NoCancel
<1> QED BY <1>2, <1>3, CancelFacts, CancelQuietStep DEF CancelAudit

LEMMA LoseCancelStep ==
    ASSUME IInv, NEW s \in Supervisors, LoseCancel(s)
    PROVE  IInv'
<1>1. cancel'[s] = NoCancel => CancelConsistent(s)'
  BY DEF CancelConsistent, NoCancel
<1> QED BY <1>1, CancelFacts, CancelQuietStep DEF LoseCancel, registryVars

(***************************************************************************)
(* The requests of the registry only add entries of their own to the log.  *)
(***************************************************************************)
LEMMA RegistryStepAudit ==
    ASSUME RegistryTypeOK, RegistryNext
    PROVE  audit' \subseteq audit \cup DeviceAudit
<1>1. CASE UNCHANGED audit
  BY <1>1
<1>2. ASSUME NEW a \in Admins, AdminAudit(a)
      PROVE  audit' \subseteq audit \cup DeviceAudit
  <2>1. admin[a].dev \in Devices
    BY <1>2 DEF AdminAudit, RegistryTypeOK, AdminRequest, NoAdmin
  <2> QED
    BY <1>2, <2>1 DEF AdminAudit, Record, Entry, AdminAction, DeviceAudit
<1> QED
  BY <1>1, <1>2 DEF RegistryNext, EnrollFind, EnrollInsert, EnrollConflict,
     LoseEnroll, AdminFind, AdminSelect, AdminUpdate, LoseAdmin

LEMMA RegistryStep ==
    ASSUME IInv, RegistryNext, UNCHANGED ledgerVars
    PROVE  IInv'
<1>1. RegistryTypeOK' /\ audit' \subseteq DeviceAudit \cup TicketAudit
  BY RegistryStepType, RegistryStepAudit DEF IInv, TypeOK
<1>2. TypeOK'
  BY <1>1 DEF IInv, TypeOK, ledgerVars
<1> QED
  BY <1>2 DEF IInv, RequestsConsistent, SyncConsistent, CancelConsistent,
     Acknowledged, SignedByItsDevice, Stored, ledgerVars

LEMMA TickStep ==
    ASSUME IInv, Tick
    PROVE  IInv'
<1>1. clock' \in Time
  BY SyncAssumption DEF IInv, TypeOK, Tick, Time
<1>2. TypeOK'
  BY <1>1 DEF IInv, TypeOK, RegistryTypeOK, Tick, registryVars
<1> QED
  BY <1>2 DEF IInv, RequestsConsistent, SyncConsistent, CancelConsistent,
     Acknowledged, SignedByItsDevice, Stored, Tick

LEMMA StutterStep ==
    ASSUME IInv, UNCHANGED vars
    PROVE  IInv'
BY DEF IInv, TypeOK, RegistryTypeOK, RequestsConsistent, SyncConsistent,
   CancelConsistent, Acknowledged, SignedByItsDevice, Stored, vars,
   registryVars, ledgerVars

LEMMA SyncRequestStep ==
    ASSUME IInv, NEW h \in SyncHandlers, SyncStep(h)
    PROVE  IInv'
<1>1. CASE SyncConflict(h)
  BY <1>1, IInvFacts, SyncEnds DEF SyncConflict, registryVars
<1> QED
  BY <1>1, RejectDeviceStep, StartBatchStep, SkipDuplicateStep,
     DetectBadSignatureStep, AdmitItemStep, RejectSignatureStep,
     ReadLastHashStep, SyncSelectStep, SyncInsertStep, SyncUpdateStep,
     AuditFlagStep, SyncRespondStep DEF SyncStep

(***************************************************************************)
(* The invariant is inductive.                                             *)
(***************************************************************************)
LEMMA NextStep ==
    ASSUME IInv, Next
    PROVE  IInv'
<1>1. ASSUME NEW h \in SyncHandlers,
             \/ \E d \in Devices : \E batch \in SUBSET Holds[d] : SyncOpen(h, d, batch)
             \/ SyncStep(h)
             \/ LoseSync(h)
      PROVE  IInv'
  <2>1. CASE LoseSync(h)
    BY <2>1, IInvFacts, SyncEnds DEF LoseSync, registryVars
  <2> QED BY <1>1, <2>1, SyncOpenStep, SyncRequestStep
<1>2. ASSUME NEW s \in Supervisors,
             \/ \E id \in Ids : CancelFind(s, id)
             \/ CancelStep(s)
             \/ LoseCancel(s)
      PROVE  IInv'
  BY <1>2, CancelFindStep, CancelSelectStep, CancelWriteStep, CancelAuditStep,
     LoseCancelStep DEF CancelStep
<1> QED BY <1>1, <1>2, RegistryStep, TickStep DEF Next

LEMMA InitStep == Init => IInv
<1> SUFFICES ASSUME Init PROVE IInv
  OBVIOUS
<1>1. RegistryTypeOK
  BY DEF Init, RegistryInit, RegistryTypeOK, DeviceStatus, EnrollRequest, AdminRequest
<1>2. TypeOK
  BY <1>1, NoSyncIsRequest, SyncAssumption
     DEF Init, RegistryInit, TypeOK, Time, NoCancel, CancelRequest
<1>3. RequestsConsistent
  BY DEF Init, RequestsConsistent, SyncConsistent, CancelConsistent, NoSync, NoCancel
<1>4. Acknowledged
  BY NoSyncIsRequest DEF Init, Acknowledged
<1>5. SignedByItsDevice
  BY DEF Init, SignedByItsDevice, Stored
<1> QED BY <1>2, <1>3, <1>4, <1>5 DEF IInv

LEMMA Invariance == Spec => []IInv
<1>1. IInv /\ [Next]_vars => IInv'
  BY NextStep, StutterStep
<1> QED BY <1>1, InitStep, PTL DEF Spec

(***************************************************************************)
(* The tables and the requests keep their shape.                           *)
(***************************************************************************)
THEOREM TypeCorrect == Spec => []TypeOK
<1>1. IInv => TypeOK
  BY DEF IInv
<1> QED BY <1>1, Invariance, PTL

(***************************************************************************)
(* No phone is ever told that a ticket is on the server when it is not.    *)
(***************************************************************************)
THEOREM AcknowledgedIsStored == Spec => []Acknowledged
<1>1. IInv => Acknowledged
  BY DEF IInv
<1> QED BY <1>1, Invariance, PTL

(***************************************************************************)
(* No row is ever attributed to a terminal that did not sign its ticket.   *)
(***************************************************************************)
THEOREM StoredIsSigned == Spec => []SignedByItsDevice
<1>1. IInv => SignedByItsDevice
  BY DEF IInv
<1> QED BY <1>1, Invariance, PTL

(***************************************************************************)
(* Rows are never deleted, and a row appears only by the INSERT of a sync  *)
(* past the signature check.                                               *)
(***************************************************************************)
LEMMA RowsAreOnlyInserted ==
    ASSUME IInv, Next, NEW id \in Ids
    PROVE  /\ Stored(id) => Stored(id)'
           /\ ~Stored(id) /\ Stored(id)' =>
                 \E h \in SyncHandlers : sync[h].pc = "write" /\ sync[h].cur = id
<1>1. CASE UNCHANGED table
  BY <1>1 DEF Stored
<1>2. ASSUME NEW h \in SyncHandlers, SyncInsert(h)
      PROVE  /\ Stored(id) => Stored(id)'
             /\ ~Stored(id) /\ Stored(id)' => sync[h].pc = "write" /\ sync[h].cur = id
  <2>1. /\ sync[h].cur \in Ids /\ sync[h].ent \in Row
        /\ table' = [table EXCEPT ![sync[h].cur] = sync[h].ent]
    BY <1>2, IInvFacts DEF SyncConsistent, SyncInsert
  <2>2. Stored(id) => Stored(id)'
    BY <2>1, <1>2, IInvFacts, RowIsWritten
  <2>3. id # sync[h].cur => table'[id] = table[id]
    BY <2>1, IInvFacts
  <2> QED BY <1>2, <2>2, <2>3 DEF SyncInsert, Stored
<1>3. ASSUME NEW h \in SyncHandlers, SyncUpdate(h)
      PROVE  Stored(id)' <=> Stored(id)
  <2>1. /\ sync[h].cur \in Ids /\ sync[h].ent \in Row /\ Stored(sync[h].cur)
        /\ sync[h].loaded \in Row
    BY <1>3, IInvFacts DEF SyncConsistent, SyncUpdate, SyncRequest
  <2>2. Written(sync[h].ent, sync[h].loaded, table[sync[h].cur]) \in Row
    BY <2>1, IInvFacts, WrittenIsRow DEF Stored
  <2>3. /\ Stored(id) => Stored(id)'
        /\ id # sync[h].cur => table'[id] = table[id]
    BY <1>3, <2>1, <2>2, IInvFacts, RowIsWritten DEF SyncUpdate
  <2> QED BY <2>1, <2>3 DEF Stored
<1>4. ASSUME NEW s \in Supervisors, CancelWrite(s)
      PROVE  Stored(id)' <=> Stored(id)
  <2>1. /\ cancel[s].id \in Ids /\ cancel[s].ent \in Row /\ Stored(cancel[s].id)
        /\ cancel[s].loaded \in Row /\ table[cancel[s].id] \in Row
    BY <1>4, CancelFacts DEF CancelConsistent, CancelWrite
  <2>2. Written(cancel[s].ent, cancel[s].loaded, table[cancel[s].id]) \in Row
    BY <2>1, WrittenIsRow
  <2>3. /\ Stored(id) => Stored(id)'
        /\ id # cancel[s].id => table'[id] = table[id]
    BY <1>4, <2>1, <2>2, CancelFacts, RowIsWritten DEF CancelWrite
  <2> QED BY <2>1, <2>3 DEF Stored
<1> QED
  BY <1>1, <1>2, <1>3, <1>4
     DEF Next, SyncStep, CancelStep, ledgerVars, SyncOpen, RejectDevice, StartBatch,
         SkipDuplicate, DetectBadSignature, AdmitItem, RejectSignature, ReadLastHash,
         SyncSelect, SyncConflict, AuditFlag, SyncRespond, LoseSync, CancelFind,
         CancelSelect, CancelAudit, LoseCancel, Tick

(***************************************************************************)
(* A step of a sync goes on for the same terminal, or ends the request.    *)
(***************************************************************************)
LEMMA SyncKeepsDevice ==
    ASSUME IInv, NEW h \in SyncHandlers, SyncStep(h) \/ LoseSync(h)
    PROVE  /\ \A g \in SyncHandlers : g # h => sync'[g] = sync[g]
           /\ \/ sync'[h] = NoSync
              \/ /\ sync'[h].dev = sync[h].dev
                 /\ sync[h].pc \notin {"idle", "deviceAudit"}
<1>1. sync \in [SyncHandlers -> SyncRequest]
  BY IInvFacts
<1>2. CASE \E id \in Ids : SkipDuplicate(h, id)
  BY <1>1, <1>2 DEF SkipDuplicate, SyncRequest
<1>3. CASE \E id \in Ids : DetectBadSignature(h, id)
  BY <1>1, <1>3 DEF DetectBadSignature, SyncRequest
<1>4. CASE \E id \in Ids : AdmitItem(h, id)
  BY <1>1, <1>4 DEF AdmitItem, SyncRequest
<1>5. CASE RejectDevice(h) \/ SyncConflict(h) \/ SyncRespond(h) \/ LoseSync(h)
  BY <1>1, <1>5 DEF RejectDevice, SyncConflict, SyncRespond, LoseSync
<1>6. CASE StartBatch(h)
  BY <1>1, <1>6 DEF StartBatch, SyncRequest
<1>7. CASE ReadLastHash(h)
  BY <1>1, <1>7 DEF ReadLastHash, SyncRequest
<1>8. CASE SyncSelect(h)
  BY <1>1, <1>8 DEF SyncSelect, SyncRequest
<1>9. ASSUME NEW id, NEW outcome, Settle(h, id, outcome),
             sync[h].pc \notin {"idle", "deviceAudit"}
      PROVE  /\ \A g \in SyncHandlers : g # h => sync'[g] = sync[g]
             /\ sync'[h].dev = sync[h].dev
  <2>1. Settled(h, id, outcome).dev = sync[h].dev
    BY <1>1 DEF Settled, SyncRequest
  <2> QED BY <1>1, <1>9, <2>1 DEF Settle
<1>10. CASE RejectSignature(h)
  BY <1>9, <1>10 DEF RejectSignature
<1>11. CASE AuditFlag(h)
  BY <1>9, <1>11 DEF AuditFlag
<1>12. CASE SyncInsert(h) \/ SyncUpdate(h)
  <2>1. AfterWrite(h) /\ sync[h].pc = "write"
    BY <1>12 DEF SyncInsert, SyncUpdate
  <2>2. CASE sync[h].ent.tampered
    BY <1>1, <2>1, <2>2 DEF AfterWrite, SyncRequest
  <2>3. CASE ~sync[h].ent.tampered
    BY <1>9, <2>1, <2>3 DEF AfterWrite
  <2> QED BY <2>2, <2>3
<1> QED
  BY <1>2, <1>3, <1>4, <1>5, <1>6, <1>7, <1>8, <1>10, <1>11, <1>12 DEF SyncStep

(***************************************************************************)
(* No new request of an inactive terminal gets past the check.             *)
(***************************************************************************)
LEMMA DrainedStaysDrained ==
    ASSUME IInv, Next, NEW d \in Devices, Drained(d)
    PROVE  Drained(d)'
<1>1. status'[d] \in Inactive
  <2>1. CASE RegistryNext
    BY <2>1, RegistryStepInactive DEF IInv, TypeOK, Drained
  <2>2. CASE UNCHANGED status
    BY <2>2 DEF Drained
  <2> QED
    BY <2>1, <2>2
       DEF Next, SyncStep, CancelStep, SyncOpen, RejectDevice, StartBatch,
           SkipDuplicate, DetectBadSignature, AdmitItem, RejectSignature,
           ReadLastHash, SyncSelect, SyncInsert, SyncUpdate, SyncConflict,
           AuditFlag, SyncRespond, LoseSync, CancelFind, CancelSelect,
           CancelWrite, CancelAudit, LoseCancel, Tick, registryVars
<1>2. SUFFICES ASSUME NEW g \in SyncHandlers, sync'[g].dev = d,
                      sync'[g].pc \notin {"idle", "deviceAudit"}
               PROVE  FALSE
  BY <1>1 DEF Drained, InFlight
<1>3. sync[g].dev = d => sync[g].pc \in {"idle", "deviceAudit"}
  BY DEF Drained, InFlight
<1>4. ASSUME NEW h \in SyncHandlers, NEW c \in Devices, NEW batch \in SUBSET Holds[c],
             SyncOpen(h, c, batch)
      PROVE  FALSE
  <2>1. CASE g # h
    BY <1>2, <1>3, <1>4, <2>1, IInvFacts DEF SyncOpen
  <2>2. CASE g = h
    <3>1. /\ sync'[g].dev = c
          /\ sync'[g].pc = IF DeviceUsable(c) THEN "start" ELSE "deviceAudit"
      BY <1>4, <2>2, IInvFacts DEF SyncOpen, NoSync
    <3>2. ~DeviceUsable(d)
      BY DEF Drained, DeviceUsable, Inactive
    <3> QED BY <1>2, <3>1, <3>2
  <2> QED BY <2>1, <2>2
<1>5. ASSUME NEW h \in SyncHandlers, SyncStep(h) \/ LoseSync(h)
      PROVE  FALSE
  <2>1. NoSync.pc = "idle"
    BY DEF NoSync
  <2> QED BY <1>2, <1>3, <1>5, <2>1, SyncKeepsDevice
<1>6. CASE UNCHANGED sync
  BY <1>2, <1>3, <1>6
<1> QED
  BY <1>4, <1>5, <1>6
     DEF Next, ledgerVars, CancelStep, CancelFind, CancelSelect, CancelWrite,
         CancelAudit, LoseCancel, Tick

(***************************************************************************)
(* Once a terminal is out of use and its requests have ended, no ticket of *)
(* it is ever stored again.                                                *)
(***************************************************************************)
THEOREM DrainedIsSilent == Spec => DrainedDeviceIsSilent
<1>1. ASSUME IInv, Next, NEW d \in Devices, Drained(d)
      PROVE  Drained(d)' /\ TicketsOf(d)' = TicketsOf(d)
  <2>1. Drained(d)'
    BY <1>1, DrainedStaysDrained
  <2>2. ASSUME NEW id \in Ids, Signer[id] = d
        PROVE  Stored(id)' <=> Stored(id)
    <3>1. ASSUME NEW h \in SyncHandlers, sync[h].pc = "write", sync[h].cur = id
          PROVE  FALSE
      BY <1>1, <2>2, <3>1, IInvFacts DEF SyncConsistent, Drained, InFlight
    <3> QED BY <1>1, <3>1, RowsAreOnlyInserted
  <2>3. SignedByItsDevice /\ SignedByItsDevice'
    BY <1>1, NextStep DEF IInv
  <2>4. TicketsOf(d) = {id \in Ids : Stored(id) /\ Signer[id] = d}
    BY <2>3 DEF TicketsOf, SignedByItsDevice
  <2>5. TicketsOf(d)' = {id \in Ids : Stored(id)' /\ Signer[id] = d}
    BY <2>3 DEF TicketsOf, SignedByItsDevice
  <2> QED BY <2>1, <2>2, <2>4, <2>5
<1>2. IInv /\ [Next]_vars
      => [\A d \in Devices : Drained(d) => Drained(d)' /\ TicketsOf(d)' = TicketsOf(d)]_vars
  BY <1>1
<1> QED BY <1>2, Invariance, PTL DEF Spec, DrainedDeviceIsSilent

=============================================================================
