----------------------- MODULE TransactionAuditProofs -----------------------
(***************************************************************************)
(* Proofs that the audit log keeps up with the ledger, for any number of   *)
(* tickets, terminals and concurrent requests: what was answered is in the *)
(* log whatever fails, and what was flagged is in it as long as no request *)
(* dies.                                                                   *)
(***************************************************************************)
EXTENDS TransactionSyncProofs

(***************************************************************************)
(* No request takes an entry out of the log.                               *)
(***************************************************************************)
LEMMA AuditOnlyGrows ==
    ASSUME Next
    PROVE  audit \subseteq audit'
<1>1. CASE RegistryNext
  BY <1>1 DEF RegistryNext, EnrollFind, EnrollInsert, EnrollConflict, LoseEnroll,
     AdminFind, AdminSelect, AdminUpdate, AdminAudit, LoseAdmin, Record
<1>2. CASE UNCHANGED audit
  BY <1>2
<1>3. ASSUME NEW h \in SyncHandlers, RejectDevice(h) \/ RejectSignature(h) \/ AuditFlag(h)
      PROVE  audit \subseteq audit'
  BY <1>3 DEF RejectDevice, RejectSignature, AuditFlag, Record
<1>4. ASSUME NEW s \in Supervisors, CancelAudit(s)
      PROVE  audit \subseteq audit'
  BY <1>4 DEF CancelAudit, Record
<1> QED
  BY <1>1, <1>2, <1>3, <1>4
     DEF Next, SyncStep, CancelStep, SyncOpen, StartBatch, SkipDuplicate,
         DetectBadSignature, AdmitItem, ReadLastHash, SyncSelect, SyncInsert,
         SyncUpdate, SyncConflict, SyncRespond, LoseSync, CancelFind,
         CancelSelect, CancelWrite, LoseCancel, Tick, registryVars

-----------------------------------------------------------------------------
(***************************************************************************)
(* The outcomes of a sync.                                                 *)
(***************************************************************************)

AuditedFor(h, id, action) == Entry(action, id, DeviceAgent[sync[h].dev]) \in audit

(***************************************************************************)
(* An item gets its outcome, and the others keep theirs.                   *)
(***************************************************************************)
LEMMA SettledOutcomes ==
    ASSUME IInv, NEW h \in SyncHandlers, NEW id \in Ids, NEW outcome,
           Settle(h, id, outcome)
    PROVE  /\ sync'[h].dev = sync[h].dev
           /\ sync'[h].pc = "find"
           /\ sync'[h].out[id] = outcome
           /\ \A u \in Ids : u # id => sync'[h].out[u] = sync[h].out[u]
<1>1. sync \in [SyncHandlers -> SyncRequest]
  BY IInvFacts
<1>2. sync'[h] = Settled(h, id, outcome)
  BY <1>1 DEF Settle
<1> QED BY <1>1, <1>2 DEF Settled, SyncRequest

(***************************************************************************)
(* A step of a sync gives a ticket an outcome that rejects or flags it     *)
(* only together with its audit entry.                                     *)
(***************************************************************************)
LEMMA NewOutcomeIsAudited ==
    ASSUME IInv, NEW h \in SyncHandlers, SyncStep(h), NEW id \in Ids
    PROVE  \/ sync'[h].out[id] = sync[h].out[id]
           \/ sync'[h].out[id] \in {"none", "accepted", "duplicate"}
           \/ /\ sync'[h].out[id] = "flagged"
              /\ AuditedFor(h, id, "TRANSACTION_FLAGGED_CLOCK_DRIFT")'
           \/ /\ sync'[h].out[id] = "rejected_signature"
              /\ AuditedFor(h, id, "TRANSACTION_REJECTED_SIGNATURE")'
<1>1. sync \in [SyncHandlers -> SyncRequest]
  BY IInvFacts
<1>2. CASE RejectDevice(h) \/ SyncConflict(h) \/ SyncRespond(h)
  BY <1>1, <1>2 DEF RejectDevice, SyncConflict, SyncRespond, NoSync
<1>3. CASE \E u \in Ids : SkipDuplicate(h, u)
  BY <1>1, <1>3 DEF SkipDuplicate, SyncRequest
<1>4. CASE \E u \in Ids : DetectBadSignature(h, u)
  BY <1>1, <1>4 DEF DetectBadSignature, SyncRequest
<1>5. CASE \E u \in Ids : AdmitItem(h, u)
  BY <1>1, <1>5 DEF AdmitItem, SyncRequest
<1>6. CASE StartBatch(h)
  BY <1>1, <1>6 DEF StartBatch, SyncRequest
<1>7. CASE ReadLastHash(h)
  BY <1>1, <1>7 DEF ReadLastHash, SyncRequest
<1>8. CASE SyncSelect(h)
  BY <1>1, <1>8 DEF SyncSelect, SyncRequest
<1>9. CASE RejectSignature(h)
  <2>1. /\ Settle(h, sync[h].cur, "rejected_signature") /\ sync[h].cur \in Ids
        /\ Entry("TRANSACTION_REJECTED_SIGNATURE", sync[h].cur,
                 DeviceAgent[sync[h].dev]) \in audit'
    BY <1>9, IInvFacts DEF RejectSignature, SyncConsistent, Record
  <2> QED BY <2>1, SettledOutcomes DEF AuditedFor
<1>10. CASE AuditFlag(h)
  <2>1. /\ Settle(h, sync[h].cur, "flagged") /\ sync[h].cur \in Ids
        /\ Entry("TRANSACTION_FLAGGED_CLOCK_DRIFT", sync[h].cur,
                 DeviceAgent[sync[h].dev]) \in audit'
    BY <1>10, IInvFacts DEF AuditFlag, SyncConsistent, Record
  <2> QED BY <2>1, SettledOutcomes DEF AuditedFor
<1>11. CASE SyncInsert(h) \/ SyncUpdate(h)
  <2>1. AfterWrite(h) /\ sync[h].cur \in Ids
    BY <1>11, IInvFacts DEF SyncInsert, SyncUpdate, SyncConsistent
  <2>2. CASE sync[h].ent.tampered
    BY <1>1, <2>1, <2>2 DEF AfterWrite, SyncRequest
  <2>3. CASE ~sync[h].ent.tampered
    BY <2>1, <2>3, SettledOutcomes DEF AfterWrite
  <2> QED BY <2>2, <2>3
<1> QED
  BY <1>2, <1>3, <1>4, <1>5, <1>6, <1>7, <1>8, <1>9, <1>10, <1>11 DEF SyncStep

LEMMA OutcomesStayAudited ==
    ASSUME IInv, OutcomesAreAudited, Next
    PROVE  OutcomesAreAudited'
<1> SUFFICES ASSUME NEW g \in SyncHandlers, NEW id \in Ids
             PROVE  /\ sync'[g].out[id] = "flagged" =>
                          AuditedFor(g, id, "TRANSACTION_FLAGGED_CLOCK_DRIFT")'
                    /\ sync'[g].out[id] = "rejected_signature" =>
                          AuditedFor(g, id, "TRANSACTION_REJECTED_SIGNATURE")'
  BY DEF OutcomesAreAudited, AuditedFor
<1>1. /\ sync[g].out[id] = "flagged" =>
            AuditedFor(g, id, "TRANSACTION_FLAGGED_CLOCK_DRIFT")
      /\ sync[g].out[id] = "rejected_signature" =>
            AuditedFor(g, id, "TRANSACTION_REJECTED_SIGNATURE")
  BY DEF OutcomesAreAudited, AuditedFor
<1>2. CASE sync'[g].out[id] = sync[g].out[id] /\ sync'[g].dev = sync[g].dev
  BY <1>1, <1>2, AuditOnlyGrows DEF AuditedFor
<1>3. CASE sync'[g].out[id] \in {"none", "accepted", "duplicate"}
  BY <1>3
<1>4. NoSync.out[id] = "none"
  BY DEF NoSync
<1>5. ASSUME NEW h \in SyncHandlers, NEW d \in Devices, NEW batch \in SUBSET Holds[d],
             SyncOpen(h, d, batch)
      PROVE  \/ sync'[g] = sync[g]
             \/ sync'[g].out[id] = "none"
  BY <1>4, <1>5, IInvFacts DEF SyncOpen, NoSync
<1>6. ASSUME NEW h \in SyncHandlers, h # g, SyncStep(h) \/ LoseSync(h)
      PROVE  sync'[g] = sync[g]
  BY <1>6, SyncKeepsDevice
<1>7. CASE SyncStep(g)
  <2>1. sync'[g].dev = sync[g].dev \/ sync'[g] = NoSync
    BY <1>7, SyncKeepsDevice
  <2>2. CASE sync'[g] = NoSync
    BY <1>3, <1>4, <2>2
  <2>3. CASE sync'[g].dev = sync[g].dev
    BY <1>2, <1>3, <1>7, <2>3, NewOutcomeIsAudited
  <2> QED BY <2>1, <2>2, <2>3
<1>8. CASE LoseSync(g)
  BY <1>3, <1>4, <1>8, IInvFacts DEF LoseSync
<1>9. CASE UNCHANGED sync
  BY <1>2, <1>9
<1> QED
  BY <1>2, <1>3, <1>5, <1>6, <1>7, <1>8, <1>9
     DEF Next, ledgerVars, CancelStep, CancelFind, CancelSelect, CancelWrite,
         CancelAudit, LoseCancel, Tick

(***************************************************************************)
(* sync "may reject or flag, never silently": whichever requests overlap   *)
(* and whatever fails, an outcome that rejects or flags a ticket is given  *)
(* only with its entry in the audit log.                                   *)
(***************************************************************************)
THEOREM OutcomesAudited == Spec => []OutcomesAreAudited
<1>1. Init => OutcomesAreAudited
  BY DEF Init, OutcomesAreAudited, NoSync
<1>2. IInv /\ OutcomesAreAudited /\ [Next]_vars => OutcomesAreAudited'
  <2>1. ASSUME OutcomesAreAudited, UNCHANGED vars
        PROVE  OutcomesAreAudited'
    BY <2>1 DEF OutcomesAreAudited, vars, registryVars, ledgerVars
  <2> QED BY <2>1, OutcomesStayAudited
<1> QED BY <1>1, <1>2, Invariance, PTL DEF Spec

-----------------------------------------------------------------------------
(***************************************************************************)
(* The flags.  A cancellation saves the copy of the row it found and, with *)
(* it, the flag that row had; so the copy too must be one the log explains.*)
(***************************************************************************)
FlagKnown(id) ==
    \/ \E entry \in audit : /\ entry.action = "TRANSACTION_FLAGGED_CLOCK_DRIFT"
                             /\ entry.entity = id
    \/ \E h \in SyncHandlers : sync[h].cur = id /\ sync[h].pc = "flagAudit"

CopiedFlagsAreKnown ==
    \A s \in Supervisors :
        cancel[s].pc \in {"select", "write"} /\ cancel[s].ent.tampered
        => FlagKnown(cancel[s].id)

FlagsAreKnown == FlagIsNeverSilent /\ CopiedFlagsAreKnown

(***************************************************************************)
(* A flag whose entry is written, or is about to be, stays so.             *)
(***************************************************************************)
LEMMA FlagStaysKnown ==
    ASSUME IInv, ~Faults, Next, NEW id \in Ids, FlagKnown(id)
    PROVE  FlagKnown(id)'
<1>1. CASE \E entry \in audit : /\ entry.action = "TRANSACTION_FLAGGED_CLOCK_DRIFT"
                                 /\ entry.entity = id
  BY <1>1, AuditOnlyGrows DEF FlagKnown
<1>2. ASSUME NEW g \in SyncHandlers, sync[g].cur = id, sync[g].pc = "flagAudit"
      PROVE  FlagKnown(id)'
  <2>1. CASE sync'[g] = sync[g]
    BY <1>2, <2>1 DEF FlagKnown
  <2>2. CASE AuditFlag(g)
    <3>1. Entry("TRANSACTION_FLAGGED_CLOCK_DRIFT", id, DeviceAgent[sync[g].dev])
             \in audit'
      BY <1>2, <2>2 DEF AuditFlag, Record
    <3> QED BY <3>1 DEF FlagKnown, Entry
  <2>3. ASSUME NEW h \in SyncHandlers, h # g, SyncStep(h)
        PROVE  sync'[g] = sync[g]
    BY <2>3, SyncKeepsDevice
  <2>4. ASSUME NEW h \in SyncHandlers, NEW d \in Devices,
               NEW batch \in SUBSET Holds[d], SyncOpen(h, d, batch)
        PROVE  sync'[g] = sync[g]
    BY <1>2, <2>4 DEF SyncOpen, NoSync
  <2>5. CASE SyncStep(g)
    <3>1. AuditFlag(g)
      BY <1>2, <2>5 DEF SyncStep, RejectDevice, StartBatch, SkipDuplicate,
         DetectBadSignature, AdmitItem, RejectSignature, ReadLastHash,
         SyncSelect, SyncInsert, SyncConflict, SyncUpdate, SyncRespond
    <3> QED BY <2>2, <3>1
  <2>6. CASE UNCHANGED sync
    BY <2>1, <2>6
  <2> QED
    BY <2>1, <2>3, <2>4, <2>5, <2>6
       DEF Next, LoseSync, ledgerVars, CancelStep, CancelFind, CancelSelect,
           CancelWrite, CancelAudit, LoseCancel, Tick
<1> QED BY <1>1, <1>2 DEF FlagKnown

(***************************************************************************)
(* A sync that wrote a flagged row goes on to the audit entry.             *)
(***************************************************************************)
LEMMA WrittenFlagIsKnown ==
    ASSUME IInv, NEW h \in SyncHandlers, AfterWrite(h), sync[h].ent.tampered,
           NEW id \in Ids, id = sync[h].cur
    PROVE  FlagKnown(id)'
<1>1. sync'[h].cur = sync[h].cur /\ sync'[h].pc = "flagAudit"
  BY IInvFacts DEF AfterWrite, SyncRequest
<1> QED BY <1>1 DEF FlagKnown

(***************************************************************************)
(* save() writes no flag that neither the entity nor the row has.          *)
(***************************************************************************)
LEMMA WrittenFlag ==
    ASSUME NEW ent, NEW loaded, NEW row, Written(ent, loaded, row).tampered
    PROVE  ent.tampered \/ row.tampered
BY DEF Written, Column

LEMMA RowFlagsStayKnown ==
    ASSUME IInv, FlagsAreKnown, ~Faults, Next
    PROVE  FlagIsNeverSilent'
<1> SUFFICES ASSUME NEW id \in Ids, Stored(id)', table'[id].tampered
             PROVE  FlagKnown(id)'
  BY DEF FlagIsNeverSilent, FlagKnown
<1>1. Stored(id) /\ table[id].tampered => FlagKnown(id)'
  BY FlagStaysKnown DEF FlagsAreKnown, FlagIsNeverSilent, FlagKnown
<1>2. CASE table'[id] = table[id]
  BY <1>1, <1>2 DEF Stored
<1>3. ASSUME NEW h \in SyncHandlers, SyncInsert(h), table'[id] # table[id]
      PROVE  FlagKnown(id)'
  <2>1. id = sync[h].cur /\ table'[id] = sync[h].ent
    BY <1>3, IInvFacts DEF SyncInsert
  <2> QED BY <1>3, <2>1, WrittenFlagIsKnown DEF SyncInsert
<1>4. ASSUME NEW h \in SyncHandlers, SyncUpdate(h), table'[id] # table[id]
      PROVE  FlagKnown(id)'
  <2>1. /\ id = sync[h].cur
        /\ table'[id] = Written(sync[h].ent, sync[h].loaded, table[id])
        /\ Stored(id)
    BY <1>4, IInvFacts DEF SyncUpdate, SyncConsistent
  <2>2. sync[h].ent.tampered \/ table[id].tampered
    BY <2>1, WrittenFlag
  <2> QED BY <1>1, <1>4, <2>1, <2>2, WrittenFlagIsKnown DEF SyncUpdate
<1>5. ASSUME NEW s \in Supervisors, CancelWrite(s), table'[id] # table[id]
      PROVE  FlagKnown(id)'
  <2>1. /\ id = cancel[s].id
        /\ table'[id] = Written(cancel[s].ent, cancel[s].loaded, table[id])
        /\ Stored(id) /\ cancel[s].pc = "write"
    BY <1>5, CancelFacts DEF CancelWrite, CancelConsistent
  <2>2. cancel[s].ent.tampered \/ table[id].tampered
    BY <2>1, WrittenFlag
  <2>3. cancel[s].ent.tampered => FlagKnown(id)
    BY <2>1 DEF FlagsAreKnown, CopiedFlagsAreKnown
  <2> QED BY <1>1, <2>1, <2>2, <2>3, FlagStaysKnown
<1> QED
  BY <1>2, <1>3, <1>4, <1>5
     DEF Next, SyncStep, CancelStep, ledgerVars, SyncOpen, RejectDevice, StartBatch,
         SkipDuplicate, DetectBadSignature, AdmitItem, RejectSignature, ReadLastHash,
         SyncSelect, SyncConflict, AuditFlag, SyncRespond, LoseSync, CancelFind,
         CancelSelect, CancelAudit, LoseCancel, Tick

LEMMA CopiedFlagsStayKnown ==
    ASSUME IInv, FlagsAreKnown, ~Faults, Next
    PROVE  CopiedFlagsAreKnown'
<1> SUFFICES ASSUME NEW q \in Supervisors, cancel'[q].pc \in {"select", "write"},
                    cancel'[q].ent.tampered
             PROVE  \E id \in Ids : id = cancel'[q].id /\ FlagKnown(id)'
  BY DEF CopiedFlagsAreKnown, FlagKnown
<1>1. ASSUME cancel[q].pc \in {"select", "write"}, cancel'[q].id = cancel[q].id,
             cancel'[q].ent = cancel[q].ent
      PROVE  \E id \in Ids : id = cancel'[q].id /\ FlagKnown(id)'
  <2> DEFINE id == cancel[q].id
  <2>1. id \in Ids /\ FlagKnown(id)
    BY <1>1, CancelFacts DEF FlagsAreKnown, CopiedFlagsAreKnown, CancelConsistent
  <2> PICK t \in Ids : t = cancel[q].id /\ FlagKnown(t)
    BY <2>1
  <2>2. FlagKnown(t)'
    BY FlagStaysKnown
  <2> QED BY <1>1, <2>2
<1>2. CASE cancel'[q] = cancel[q]
  BY <1>1, <1>2
<1>3. ASSUME NEW id \in Ids, CancelFind(q, id)
      PROVE  id = cancel'[q].id /\ FlagKnown(id)'
  <2>1. /\ Stored(id) /\ cancel'[q].id = id
        /\ cancel'[q].ent = [table[id] EXCEPT !.status = "cancelled", !.cancelledBy = q]
    BY <1>3, CancelFacts DEF CancelFind, Cancellable
  <2>2. table[id].tampered
    BY <2>1, CancelFacts DEF Row
  <2>3. FlagKnown(id)
    BY <2>1, <2>2 DEF FlagsAreKnown, FlagIsNeverSilent, FlagKnown
  <2>4. FlagKnown(id)'
    BY <2>3, FlagStaysKnown
  <2> QED BY <2>1, <2>4
<1>4. CASE CancelSelect(q)
  BY <1>1, <1>4, CancelFacts DEF CancelSelect, CancelRequest
<1>5. CASE CancelWrite(q) \/ CancelAudit(q)
  BY <1>5, CancelFacts DEF CancelWrite, CancelAudit, CancelRequest, NoCancel
<1>6. ASSUME NEW s \in Supervisors, s # q,
             (\E id \in Ids : CancelFind(s, id)) \/ CancelStep(s)
      PROVE  cancel'[q] = cancel[q]
  BY <1>6, CancelFacts
     DEF CancelFind, CancelStep, CancelSelect, CancelWrite, CancelAudit
<1>7. CASE UNCHANGED cancel
  BY <1>2, <1>7
<1> QED
  BY <1>2, <1>3, <1>4, <1>5, <1>6, <1>7
     DEF Next, SyncStep, CancelStep, ledgerVars, SyncOpen, RejectDevice, StartBatch,
         SkipDuplicate, DetectBadSignature, AdmitItem, RejectSignature, ReadLastHash,
         SyncSelect, SyncInsert, SyncUpdate, SyncConflict, AuditFlag, SyncRespond,
         LoseSync, LoseCancel, Tick

(***************************************************************************)
(* As long as no request dies, a flagged ticket has its entry in the audit *)
(* log, or the sync that wrote the row is about to add it, however many    *)
(* syncs and cancellations overlap.                                        *)
(***************************************************************************)
THEOREM FlagNeverSilent ==
    ASSUME ~Faults
    PROVE  Spec => []FlagIsNeverSilent
<1>1. Init => FlagsAreKnown
  BY DEF Init, FlagsAreKnown, FlagIsNeverSilent, CopiedFlagsAreKnown, NoCancel, Stored
<1>2. IInv /\ FlagsAreKnown /\ [Next]_vars => FlagsAreKnown'
  <2>1. ASSUME FlagsAreKnown, UNCHANGED vars
        PROVE  FlagsAreKnown'
    BY <2>1 DEF FlagsAreKnown, FlagIsNeverSilent, CopiedFlagsAreKnown, FlagKnown,
       Stored, vars, registryVars, ledgerVars
  <2> QED BY <2>1, RowFlagsStayKnown, CopiedFlagsStayKnown DEF FlagsAreKnown
<1>3. FlagsAreKnown => FlagIsNeverSilent
  BY DEF FlagsAreKnown
<1> QED BY <1>1, <1>2, <1>3, Invariance, PTL DEF Spec

=============================================================================
