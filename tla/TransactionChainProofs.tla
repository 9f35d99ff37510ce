----------------------- MODULE TransactionChainProofs -----------------------
(***************************************************************************)
(* Proof that the hash chain of an agent is grounded in its own ledger,    *)
(* for any number of tickets, terminals, agents, overlapping syncs and     *)
(* cancellations, with or without faults.                                  *)
(***************************************************************************)
EXTENDS TransactionSyncProofs

StoredIds == {id \in Ids : Stored(id)}
Home(id) == DeviceAgent[Signer[id]]

(***************************************************************************)
(* Everything hashed into a hash is one of the tickets in rows, with the   *)
(* terminal of agent a that signed it.                                     *)
(***************************************************************************)
Over(hash, rows, a) ==
    \A i \in DOMAIN hash :
        /\ hash[i].id \in rows
        /\ hash[i].device = Signer[hash[i].id]
        /\ DeviceAgent[hash[i].device] = a

RowOver(row, rows, a) == Over(row.prev, rows, a) /\ Over(row.hash, rows, a)

(***************************************************************************)
(* The inductive invariant.  A row gets what a request computed several    *)
(* steps before, so the entities of the requests are constrained too: that *)
(* of a sync may in addition hold the ticket that the sync is about to     *)
(* store.                                                                  *)
(***************************************************************************)
ChainInv ==
    /\ \A id \in StoredIds : RowOver(table[id], StoredIds, Home(id))
    /\ \A h \in SyncHandlers : sync[h].pc \in {"select", "write"} =>
          RowOver(sync[h].ent, StoredIds \cup {sync[h].cur}, Home(sync[h].cur))
    /\ \A s \in Supervisors : cancel[s].pc \in {"select", "write"} =>
          RowOver(cancel[s].ent, StoredIds, Home(cancel[s].id))

LEMMA OverMoreRows ==
    ASSUME NEW row, NEW rows, NEW more, NEW a, RowOver(row, rows, a), rows \subseteq more
    PROVE  RowOver(row, more, a)
BY DEF RowOver, Over

LEMMA StoredIdsGrow ==
    ASSUME IInv, Next
    PROVE  StoredIds \subseteq StoredIds'
BY RowsAreOnlyInserted DEF StoredIds

(***************************************************************************)
(* save() writes each hash from the entity or leaves that of the row.      *)
(***************************************************************************)
LEMMA WrittenOver ==
    ASSUME NEW ent, NEW loaded, NEW row, NEW rows, NEW a,
           RowOver(ent, rows, a), RowOver(row, rows, a)
    PROVE  RowOver(Written(ent, loaded, row), rows, a)
<1>1. /\ Written(ent, loaded, row).prev \in {ent.prev, row.prev}
      /\ Written(ent, loaded, row).hash \in {ent.hash, row.hash}
  BY DEF Written, Column
<1> QED BY <1>1 DEF RowOver

(***************************************************************************)
(* The last hash of an agent was computed over tickets of that agent.      *)
(***************************************************************************)
LEMMA LastHashIsOver ==
    ASSUME IInv, ChainInv, NEW a, NEW prev \in LastHashes(a)
    PROVE  Over(prev, StoredIds, a)
<1>1. CASE prev = Genesis
  BY <1>1 DEF Over, Genesis
<1>2. ASSUME NEW t \in AgentTickets(a), prev = table[t].hash
      PROVE  Over(prev, StoredIds, a)
  <2>1. t \in StoredIds /\ DeviceAgent[table[t].device] = a
    BY DEF AgentTickets, Agent, StoredIds
  <2>2. Home(t) = a
    BY <2>1 DEF IInv, SignedByItsDevice, StoredIds, Home
  <2> QED BY <1>2, <2>1, <2>2 DEF ChainInv, RowOver
<1> QED BY <1>1, <1>2 DEF LastHashes

(***************************************************************************)
(* A new link adds the ticket that is about to be stored.                  *)
(***************************************************************************)
LEMMA NewLinkIsOver ==
    ASSUME NEW id \in Ids, NEW d, NEW now, NEW prev \in Hash, NEW rows,
           Signer[id] = d, Over(prev, rows, DeviceAgent[d])
    PROVE  RowOver(NewRow(id, d, now, prev), rows \cup {id}, DeviceAgent[d])
<1> DEFINE row == NewRow(id, d, now, prev)
           link == [id |-> id, device |-> d, ts |-> now]
<1>1. row.prev = prev /\ row.hash = Append(prev, link)
  BY DEF NewRow, Digest
<1>2. prev \in Seq(Link)
  BY DEF Hash
<1>3. \A i \in DOMAIN row.hash :
         \/ i \in DOMAIN prev /\ row.hash[i] = prev[i]
         \/ row.hash[i] = link
  BY <1>1, <1>2
<1>4. link.id = id /\ link.device = d
  OBVIOUS
<1> HIDE DEF row, link
<1>5. Over(row.prev, rows \cup {id}, DeviceAgent[d])
  BY <1>1 DEF Over
<1>6. Over(row.hash, rows \cup {id}, DeviceAgent[d])
  BY <1>3, <1>4 DEF Over
<1> QED BY <1>5, <1>6 DEF RowOver, row

-----------------------------------------------------------------------------
(* The rows.                                                               *)

LEMMA RowsStayOver ==
    ASSUME IInv, ChainInv, Next, NEW id \in StoredIds'
    PROVE  RowOver(table'[id], StoredIds', Home(id))
<1>1. id \in Ids /\ StoredIds \subseteq StoredIds'
  BY StoredIdsGrow DEF StoredIds
<1>2. CASE table'[id] = table[id]
  <2>1. id \in StoredIds
    BY <1>1, <1>2 DEF StoredIds, Stored
  <2> QED BY <1>1, <1>2, <2>1, OverMoreRows DEF ChainInv
<1>3. ASSUME NEW h \in SyncHandlers, SyncInsert(h) \/ SyncUpdate(h), table'[id] # table[id]
      PROVE  RowOver(table'[id], StoredIds', Home(id))
  <2>1. id = sync[h].cur /\ sync[h].pc = "write"
    <3>1. table \in [Ids -> Row \cup {NoRow}] /\ sync[h].pc = "write"
      BY <1>3, IInvFacts DEF SyncInsert, SyncUpdate
    <3>2. \E row : table' = [table EXCEPT ![sync[h].cur] = row]
      BY <1>3 DEF SyncInsert, SyncUpdate
    <3> QED BY <1>1, <1>3, <3>1, <3>2
  <2>2. StoredIds \cup {id} \subseteq StoredIds'
    BY <1>1
  <2>3. RowOver(sync[h].ent, StoredIds', Home(id))
    BY <2>1, <2>2, OverMoreRows DEF ChainInv
  <2>4. CASE SyncInsert(h)
    <3>1. table'[id] = sync[h].ent
      BY <1>1, <2>1, <2>4, IInvFacts DEF SyncInsert
    <3> QED BY <2>3, <3>1
  <2>5. CASE SyncUpdate(h)
    <3>1. /\ table'[id] = Written(sync[h].ent, sync[h].loaded, table[id])
          /\ id \in StoredIds
      BY <1>1, <2>1, <2>5, IInvFacts DEF SyncUpdate, SyncConsistent, StoredIds
    <3>2. RowOver(table[id], StoredIds', Home(id))
      BY <1>1, <3>1, OverMoreRows DEF ChainInv
    <3> QED BY <2>3, <3>1, <3>2, WrittenOver
  <2> QED BY <1>3, <2>4, <2>5
<1>4. ASSUME NEW s \in Supervisors, CancelWrite(s), table'[id] # table[id]
      PROVE  RowOver(table'[id], StoredIds', Home(id))
  <2>1. /\ id = cancel[s].id /\ cancel[s].pc = "write"
        /\ table'[id] = Written(cancel[s].ent, cancel[s].loaded, table[id])
        /\ id \in StoredIds
    BY <1>1, <1>4, CancelFacts DEF CancelWrite, CancelConsistent, StoredIds
  <2>2. /\ RowOver(cancel[s].ent, StoredIds', Home(id))
        /\ RowOver(table[id], StoredIds', Home(id))
    BY <1>1, <2>1, OverMoreRows DEF ChainInv
  <2> QED BY <2>1, <2>2, WrittenOver
<1> QED
  BY <1>2, <1>3, <1>4
     DEF Next, SyncStep, CancelStep, ledgerVars, SyncOpen, RejectDevice, StartBatch,
         SkipDuplicate, DetectBadSignature, AdmitItem, RejectSignature, ReadLastHash,
         SyncSelect, SyncConflict, AuditFlag, SyncRespond, LoseSync, CancelFind,
         CancelSelect, CancelAudit, LoseCancel, Tick

-----------------------------------------------------------------------------
(* The entities of the syncs and of the cancellations.                     *)

LEMMA SyncEntityStaysOver ==
    ASSUME IInv, ChainInv, Next, NEW h \in SyncHandlers,
           sync'[h].pc \in {"select", "write"}
    PROVE  RowOver(sync'[h].ent, StoredIds' \cup {sync'[h].cur}, Home(sync'[h].cur))
<1>1. sync \in [SyncHandlers -> SyncRequest] /\ NoSync.pc = "idle"
  BY IInvFacts DEF NoSync
<1>2. ASSUME sync[h].pc \in {"select", "write"}, sync'[h].ent = sync[h].ent,
             sync'[h].cur = sync[h].cur
      PROVE  RowOver(sync'[h].ent, StoredIds' \cup {sync'[h].cur}, Home(sync'[h].cur))
  <2>1. StoredIds \cup {sync[h].cur} \subseteq StoredIds' \cup {sync[h].cur}
    BY StoredIdsGrow
  <2> QED BY <1>2, <2>1, OverMoreRows DEF ChainInv
<1>3. CASE sync'[h] = sync[h]
  BY <1>2, <1>3
<1>4. CASE ReadLastHash(h)
  <2> PICK prev \in LastHashes(DeviceAgent[sync[h].dev]) :
        sync' = [sync EXCEPT ![h].pc = "select",
                   ![h].ent = NewRow(sync[h].cur, sync[h].dev, sync[h].now, prev)]
    BY <1>4 DEF ReadLastHash
  <2>1. /\ sync'[h].ent = NewRow(sync[h].cur, sync[h].dev, sync[h].now, prev)
        /\ sync'[h].cur = sync[h].cur
    BY <1>1 DEF SyncRequest
  <2>2. sync[h].cur \in Ids /\ Signer[sync[h].cur] = sync[h].dev
    BY <1>4, IInvFacts DEF ReadLastHash, SyncConsistent
  <2>3. prev \in Hash /\ Over(prev, StoredIds, DeviceAgent[sync[h].dev])
    BY LastHashesAreHashes, LastHashIsOver DEF IInv
  <2>4. RowOver(NewRow(sync[h].cur, sync[h].dev, sync[h].now, prev),
                StoredIds \cup {sync[h].cur}, DeviceAgent[sync[h].dev])
    BY <2>2, <2>3, NewLinkIsOver
  <2>5. StoredIds' = StoredIds
    BY <1>4 DEF ReadLastHash, StoredIds, Stored
  <2> QED BY <2>1, <2>2, <2>4, <2>5 DEF Home
<1>5. CASE SyncSelect(h)
  BY <1>1, <1>2, <1>5 DEF SyncSelect, SyncRequest
<1>6. CASE \E d \in Devices : \E batch \in SUBSET Holds[d] : SyncOpen(h, d, batch)
  BY <1>1, <1>6 DEF SyncOpen, NoSync
<1>7. CASE RejectDevice(h) \/ SyncConflict(h) \/ SyncRespond(h) \/ LoseSync(h)
  BY <1>1, <1>7 DEF RejectDevice, SyncConflict, SyncRespond, LoseSync
<1>8. CASE StartBatch(h) \/ \E id \in Ids : SkipDuplicate(h, id)
  BY <1>1, <1>8 DEF StartBatch, SkipDuplicate, SyncRequest
<1>9. CASE \E id \in Ids : DetectBadSignature(h, id) \/ AdmitItem(h, id)
  BY <1>1, <1>9 DEF DetectBadSignature, AdmitItem, SyncRequest
<1>10. CASE RejectSignature(h) \/ AuditFlag(h)
  BY <1>1, <1>10 DEF RejectSignature, AuditFlag, Settle, Settled, SyncRequest
<1>11. CASE SyncInsert(h) \/ SyncUpdate(h)
  <2>1. AfterWrite(h)
    BY <1>11 DEF SyncInsert, SyncUpdate
  <2>2. CASE sync[h].ent.tampered
    BY <1>1, <2>1, <2>2 DEF AfterWrite, SyncRequest
  <2>3. CASE ~sync[h].ent.tampered
    BY <1>1, <2>1, <2>3 DEF AfterWrite, Settle, Settled, SyncRequest
  <2> QED BY <2>2, <2>3
<1>12. ASSUME NEW g \in SyncHandlers, g # h,
              \/ SyncStep(g)
              \/ LoseSync(g)
              \/ \E d \in Devices : \E batch \in SUBSET Holds[d] : SyncOpen(g, d, batch)
       PROVE  sync'[h] = sync[h]
  BY <1>1, <1>12, SyncKeepsDevice DEF SyncOpen
<1>13. CASE UNCHANGED sync
  BY <1>3, <1>13
<1> QED
  BY <1>3, <1>4, <1>5, <1>6, <1>7, <1>8, <1>9, <1>10, <1>11, <1>12, <1>13
     DEF Next, SyncStep, ledgerVars, CancelStep, CancelFind, CancelSelect,
         CancelWrite, CancelAudit, LoseCancel, Tick

LEMMA CancelEntityStaysOver ==
    ASSUME IInv, ChainInv, Next, NEW s \in Supervisors,
           cancel'[s].pc \in {"select", "write"}
    PROVE  RowOver(cancel'[s].ent, StoredIds', Home(cancel'[s].id))
<1>1. ASSUME cancel[s].pc \in {"select", "write"}, cancel'[s].ent = cancel[s].ent,
             cancel'[s].id = cancel[s].id
      PROVE  RowOver(cancel'[s].ent, StoredIds', Home(cancel'[s].id))
  BY <1>1, StoredIdsGrow, OverMoreRows DEF ChainInv
<1>2. CASE cancel'[s] = cancel[s]
  BY <1>1, <1>2
<1>3. ASSUME NEW id \in Ids, CancelFind(s, id)
      PROVE  RowOver(cancel'[s].ent, StoredIds', Home(cancel'[s].id))
  <2>1. /\ id \in StoredIds /\ cancel'[s].id = id
        /\ cancel'[s].ent = [table[id] EXCEPT !.status = "cancelled", !.cancelledBy = s]
        /\ table[id] \in Row
    BY <1>3, CancelFacts DEF CancelFind, Cancellable, StoredIds
  <2>2. cancel'[s].ent.prev = table[id].prev /\ cancel'[s].ent.hash = table[id].hash
    BY <2>1 DEF Row
  <2>3. RowOver(table[id], StoredIds', Home(id))
    BY <2>1, StoredIdsGrow, OverMoreRows DEF ChainInv
  <2> QED BY <2>1, <2>2, <2>3 DEF RowOver
<1>4. CASE CancelSelect(s)
  BY <1>1, <1>4, CancelFacts DEF CancelSelect, CancelRequest
<1>5. CASE CancelWrite(s) \/ CancelAudit(s) \/ LoseCancel(s)
  BY <1>5, CancelFacts DEF CancelWrite, CancelAudit, LoseCancel, CancelRequest, NoCancel
<1>6. ASSUME NEW q \in Supervisors, q # s,
             (\E id \in Ids : CancelFind(q, id)) \/ CancelStep(q) \/ LoseCancel(q)
      PROVE  cancel'[s] = cancel[s]
  BY <1>6, CancelFacts
     DEF CancelFind, CancelStep, CancelSelect, CancelWrite, CancelAudit, LoseCancel
<1>7. CASE UNCHANGED cancel
  BY <1>2, <1>7
<1> QED
  BY <1>2, <1>3, <1>4, <1>5, <1>6, <1>7
     DEF Next, SyncStep, CancelStep, ledgerVars, SyncOpen, RejectDevice, StartBatch,
         SkipDuplicate, DetectBadSignature, AdmitItem, RejectSignature, ReadLastHash,
         SyncSelect, SyncInsert, SyncUpdate, SyncConflict, AuditFlag, SyncRespond,
         LoseSync, Tick

-----------------------------------------------------------------------------

LEMMA ChainInvStep == IInv /\ ChainInv /\ [Next]_vars => ChainInv'
<1> SUFFICES ASSUME IInv, ChainInv, [Next]_vars
             PROVE  ChainInv'
  OBVIOUS
<1>1. CASE Next
  BY <1>1, RowsStayOver, SyncEntityStaysOver, CancelEntityStaysOver DEF ChainInv
<1>2. CASE UNCHANGED vars
  BY <1>2 DEF ChainInv, StoredIds, Stored, vars, ledgerVars
<1> QED BY <1>1, <1>2

(***************************************************************************)
(* The hashes of the rows speak of tickets of the ledger.                  *)
(***************************************************************************)
LEMMA OverIsGrounded ==
    ASSUME NEW hash, NEW a, Over(hash, StoredIds, a)
    PROVE  Grounded(hash, a)
BY DEF Over, Grounded, StoredIds

(***************************************************************************)
(* Whatever syncs, retries and cancellations overlap and whatever fails,   *)
(* the hashes of an agent are computed over stored tickets of that agent,  *)
(* each with the terminal that signed it: no link names a ticket that an   *)
(* insert conflict or a crash kept out of the ledger, nor the ticket of    *)
(* somebody else.                                                          *)
(***************************************************************************)
THEOREM ChainGrounded == Spec => []ChainIsGrounded
<1>1. Init => ChainInv
  BY DEF Init, ChainInv, StoredIds, Stored, NoSync, NoCancel
<1>2. IInv /\ ChainInv => ChainIsGrounded
  <2> SUFFICES ASSUME IInv, ChainInv, NEW id \in Ids, Stored(id)
               PROVE  Grounded(table[id].prev, Agent(id)) /\ Grounded(table[id].hash, Agent(id))
    BY DEF ChainIsGrounded
  <2>1. Agent(id) = Home(id)
    BY DEF IInv, SignedByItsDevice, Agent, Home
  <2>2. RowOver(table[id], StoredIds, Home(id))
    BY DEF ChainInv, StoredIds
  <2> QED BY <2>1, <2>2, OverIsGrounded DEF RowOver
<1> QED BY <1>1, <1>2, ChainInvStep, Invariance, PTL DEF Spec

=============================================================================
