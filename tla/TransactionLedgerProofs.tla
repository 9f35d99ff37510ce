----------------------- MODULE TransactionLedgerProofs ----------------------
(***************************************************************************)
(* Proofs about the ledger: for any number of tickets, terminals, syncs    *)
(* and cancellations at once, overlapping or not, with or without faults,  *)
(* a ticket that is stored and settled is changed by its cancellation      *)
(* only, and the tables implement TicketLedger.                            *)
(***************************************************************************)
EXTENDS TransactionSyncProofs

(***************************************************************************)
(* The rest of the inductive invariant, beyond IInv: what a sync saves is  *)
(* never cancelled, what a cancellation saves always is.                   *)
(***************************************************************************)
SavedKinds ==
    /\ \A h \in SyncHandlers :
          sync[h].pc \in {"select", "write"} => sync[h].ent.status \in {"synced", "flagged"}
    /\ \A s \in Supervisors :
          cancel[s].pc \in {"select", "write"} => cancel[s].ent.status = "cancelled"

(***************************************************************************)
(* One ticket as the refinement mapping shows it, and who unsettles it.    *)
(***************************************************************************)
Seen(id) ==
    IF ~Stored(id) THEN "unknown"
    ELSE CASE table[id].status = "synced" -> "counted"
           [] table[id].status = "flagged" -> "flagged"
           [] OTHER -> "cancelled"

Held(h, id) == Saving(h) /\ sync[h].cur = id
Stale(s, id) == Cancelling(s) /\ cancel[s].id = id /\ ~CopyIsCurrent(s)
Open(id) ==
    \/ \E h \in SyncHandlers : Held(h, id)
    \/ \E s \in Supervisors : Stale(s, id)

SafeTickets == {id \in Ids : answer[id] \cap Safe # {}}

LEMMA UnsettledAreOpen ==
    /\ IInv => Unsettled = {id \in Ids : Open(id)}
    /\ IInv' => Unsettled' = {id \in Ids : Open(id)'}
<1>1. IInv => Unsettled = {id \in Ids : Open(id)}
  BY DEF IInv, RequestsConsistent, SyncConsistent, CancelConsistent, Unsettled,
     Open, Held, Stale, Saving, Cancelling
<1>2. IInv' => Unsettled' = {id \in Ids : Open(id)'}
  BY DEF IInv, RequestsConsistent, SyncConsistent, CancelConsistent, Unsettled,
     Open, Held, Stale, Saving, Cancelling
<1> QED BY <1>1, <1>2

(***************************************************************************)
(* What a step may do to the ticket id when it shows nothing of the        *)
(* others.  The cases are those of TicketLedger: an unknown ticket becomes *)
(* unsettled or settles; an unsettled one is saved, or only settles; one   *)
(* that is stored is cancelled, which never unsettles it.                  *)
(***************************************************************************)
Unseen(id) == Seen(id)' = Seen(id) /\ (Open(id)' <=> Open(id))

Moves(id) ==
    /\ \A t \in Ids : t # id => Unseen(t)
    /\ UNCHANGED answer
    /\ \/ Seen(id) = "unknown" /\ Seen(id)' = "unknown"
       \/ Open(id) /\ Seen(id)' \in {"counted", "flagged"}
       \/ Open(id) /\ Seen(id)' = Seen(id)
       \/ Seen(id) # "unknown" /\ Seen(id)' = "cancelled" /\ (Open(id)' => Open(id))

LEMMA MovesRefine ==
    ASSUME IInv, IInv', NEW id \in Ids, Moves(id)
    PROVE  \/ Ledger!Next
           \/ /\ \A t \in Ids : Seen(t)' = Seen(t)
              /\ Unsettled' = Unsettled /\ SafeTickets' = SafeTickets
<1>1. /\ Unsettled = {t \in Ids : Open(t)}
      /\ Unsettled' = {t \in Ids : Open(t)'}
  BY UnsettledAreOpen
<1>2. /\ Open(id)' /\ Open(id) => Unsettled' = Unsettled
      /\ ~Open(id)' /\ ~Open(id) => Unsettled' = Unsettled
      /\ Open(id)' => Unsettled' = Unsettled \cup {id}
      /\ ~Open(id)' => Unsettled' = Unsettled \ {id}
      /\ id \in Unsettled <=> Open(id)
  BY <1>1 DEF Moves, Unseen
<1>3. /\ \A t \in Ids : t # id => Seen(t)' = Seen(t)
      /\ UNCHANGED answer
      /\ SafeTickets' = SafeTickets
      /\ Seen(id) \in {"unknown", "counted", "flagged", "cancelled"}
  BY DEF Moves, Unseen, SafeTickets, Seen
<1>4. CASE Open(id) /\ Seen(id)' \in {"counted", "flagged"}
  <2>1. PICK kind \in Ledger!Kinds : kind = Seen(id)'
    BY <1>4 DEF Ledger!Kinds
  <2>2. Ledger!Save(id, kind)
    BY <1>2, <1>3, <1>4, <2>1 DEF Ledger!Save, Ledger!MaySettle, Seen, SafeTickets
  <2> QED BY <2>2 DEF Ledger!Next
<1>5. CASE Seen(id)' = Seen(id) /\ Open(id) /\ ~Open(id)'
  <2>1. Ledger!Settle(id)
    BY <1>2, <1>3, <1>5 DEF Ledger!Settle, Seen, SafeTickets
  <2> QED BY <2>1 DEF Ledger!Next
<1>6. CASE Seen(id)' = Seen(id) /\ (Open(id)' <=> Open(id))
  BY <1>2, <1>3, <1>6
<1>7. CASE Seen(id) = "unknown" /\ Seen(id)' = "unknown" /\ Open(id)'
  <2>1. Ledger!Begin(id)
    BY <1>2, <1>3, <1>7 DEF Ledger!Begin, Seen, SafeTickets
  <2> QED BY <2>1 DEF Ledger!Next
<1>8. CASE Seen(id) \in {"counted", "flagged"} /\ Seen(id)' = "cancelled"
           /\ (Open(id)' => Open(id))
  <2>1. Ledger!Cancel(id)
    BY <1>2, <1>3, <1>8 DEF Ledger!Cancel, Ledger!Kinds, Ledger!MaySettle, Seen, SafeTickets
  <2> QED BY <2>1 DEF Ledger!Next
<1> QED BY <1>3, <1>4, <1>5, <1>6, <1>7, <1>8 DEF Moves

-----------------------------------------------------------------------------
(* The steps of the syncs.                                                 *)

(***************************************************************************)
(* A sync moves by its own steps only, and they show nothing of a ticket   *)
(* whose row stays and that the sync holds, or does not, before and after. *)
(***************************************************************************)
LEMMA SyncMoves ==
    ASSUME IInv, Next, NEW h \in SyncHandlers
    PROVE  \/ sync'[h] = sync[h]
           \/ \E d \in Devices : \E batch \in SUBSET Holds[d] : SyncOpen(h, d, batch)
           \/ SyncStep(h)
           \/ LoseSync(h)
<1>1. ASSUME NEW g \in SyncHandlers, g # h,
             NEW d, NEW batch, SyncOpen(g, d, batch)
      PROVE  sync'[h] = sync[h]
  BY <1>1, IInvFacts DEF SyncOpen
<1>2. ASSUME NEW g \in SyncHandlers, g # h, SyncStep(g) \/ LoseSync(g)
      PROVE  sync'[h] = sync[h]
  BY <1>2, SyncKeepsDevice
<1> QED
  BY <1>1, <1>2
     DEF Next, ledgerVars, CancelStep, CancelFind, CancelSelect, CancelWrite,
         CancelAudit, LoseCancel, Tick

LEMMA SyncUnseen ==
    ASSUME NEW h \in SyncHandlers,
           \A g \in SyncHandlers : g # h => sync'[g] = sync[g],
           UNCHANGED cancel,
           NEW t \in Ids, table'[t] = table[t], Held(h, t)' <=> Held(h, t)
    PROVE  Unseen(t)
<1>1. Seen(t)' = Seen(t)
  BY DEF Seen, Stored
<1>2. \A g \in SyncHandlers : Held(g, t)' <=> Held(g, t)
  BY DEF Held, Saving
<1>3. \A s \in Supervisors : Stale(s, t)' <=> Stale(s, t)
  BY DEF Stale, Cancelling, CopyIsCurrent
<1> QED BY <1>1, <1>2, <1>3 DEF Unseen, Open

LEMMA SettledPc ==
    ASSUME IInv, NEW h \in SyncHandlers, NEW id, NEW outcome, Settle(h, id, outcome)
    PROVE  sync'[h].pc = "find"
BY IInvFacts DEF Settle, Settled, SyncRequest

LEMMA WrittenPc ==
    ASSUME IInv, NEW h \in SyncHandlers, AfterWrite(h)
    PROVE  sync'[h].pc \in {"flagAudit", "find"}
<1>1. CASE sync[h].ent.tampered
  BY <1>1, IInvFacts DEF AfterWrite, SyncRequest
<1>2. CASE ~sync[h].ent.tampered
  BY <1>2, SettledPc DEF AfterWrite
<1> QED BY <1>1, <1>2

(***************************************************************************)
(* The steps of a sync that leave what it holds as it is.                  *)
(***************************************************************************)
LEMMA SyncHoldsOn ==
    ASSUME IInv, NEW h \in SyncHandlers,
           \/ \E d \in Devices : \E batch \in SUBSET Holds[d] : SyncOpen(h, d, batch)
           \/ RejectDevice(h) \/ StartBatch(h) \/ RejectSignature(h)
           \/ \E id \in Ids : SkipDuplicate(h, id) \/ DetectBadSignature(h, id)
           \/ ReadLastHash(h) \/ SyncSelect(h) \/ AuditFlag(h) \/ SyncRespond(h)
    PROVE  /\ \A t \in Ids : Held(h, t)' <=> Held(h, t)
           /\ UNCHANGED <<table, cancel>>
<1>1. sync \in [SyncHandlers -> SyncRequest] /\ NoSync.pc = "idle"
  BY IInvFacts DEF NoSync
<1>2. CASE \E d \in Devices : \E batch \in SUBSET Holds[d] : SyncOpen(h, d, batch)
  <2> PICK d \in Devices : \E batch \in SUBSET Holds[d] : SyncOpen(h, d, batch)
    BY <1>2
  <2>1. sync[h].pc = "idle" /\ sync'[h].pc \in {"start", "deviceAudit"}
    BY <1>1 DEF SyncOpen, NoSync
  <2> QED BY <2>1 DEF SyncOpen, Held, Saving
<1>3. CASE RejectDevice(h) \/ SyncRespond(h)
  BY <1>1, <1>3 DEF RejectDevice, SyncRespond, Held, Saving
<1>4. CASE StartBatch(h) \/ \E id \in Ids : SkipDuplicate(h, id) \/ DetectBadSignature(h, id)
  <2>1. /\ sync[h].pc \in {"start", "find"}
        /\ sync'[h].pc \in {"find", "signatureAudit"}
        /\ UNCHANGED <<table, cancel>>
    <3>1. CASE StartBatch(h)
      BY <1>1, <3>1 DEF StartBatch, SyncRequest
    <3>2. CASE \E id \in Ids : SkipDuplicate(h, id)
      BY <1>1, <3>2 DEF SkipDuplicate, SyncRequest
    <3>3. CASE \E id \in Ids : DetectBadSignature(h, id)
      BY <1>1, <3>3 DEF DetectBadSignature, SyncRequest
    <3> QED BY <1>4, <3>1, <3>2, <3>3
  <2> QED BY <2>1 DEF Held, Saving
<1>5. CASE RejectSignature(h) \/ AuditFlag(h)
  <2>1. sync'[h].pc = "find"
    BY <1>5, SettledPc DEF RejectSignature, AuditFlag
  <2> QED BY <1>5, <2>1 DEF RejectSignature, AuditFlag, Held, Saving
<1>6. CASE ReadLastHash(h)
  <2>1. sync[h].pc = "lastHash" /\ sync'[h].pc = "select" /\ sync'[h].cur = sync[h].cur
    BY <1>1, <1>6 DEF ReadLastHash, SyncRequest
  <2> QED BY <1>6, <2>1 DEF ReadLastHash, Held, Saving
<1>7. CASE SyncSelect(h)
  <2>1. sync[h].pc = "select" /\ sync'[h].pc = "write" /\ sync'[h].cur = sync[h].cur
    BY <1>1, <1>7 DEF SyncSelect, SyncRequest
  <2> QED BY <1>7, <2>1 DEF SyncSelect, Held, Saving
<1> QED BY <1>2, <1>3, <1>4, <1>5, <1>6, <1>7

(***************************************************************************)
(* A sync that admits a ticket unsettles it; its save, conflict or death   *)
(* ends that.                                                              *)
(***************************************************************************)
LEMMA AdmitMoves ==
    ASSUME IInv, NEW h \in SyncHandlers, NEW id \in Ids, AdmitItem(h, id)
    PROVE  Moves(id)
<1>1. /\ \A g \in SyncHandlers : g # h => sync'[g] = sync[g]
      /\ UNCHANGED <<table, cancel, answer>>
      /\ sync[h].pc = "find" /\ sync'[h].cur = id
  BY IInvFacts DEF AdmitItem, SyncRequest
<1>2. \A t \in Ids : t # id => Unseen(t)
  BY <1>1, SyncUnseen DEF Held, Saving
<1>3. Seen(id) = "unknown" /\ Seen(id)' = "unknown"
  BY <1>1 DEF AdmitItem, Known, Seen, Stored
<1> QED BY <1>1, <1>2, <1>3 DEF Moves

LEMMA EndMoves ==
    ASSUME IInv, NEW h \in SyncHandlers, SyncConflict(h) \/ LoseSync(h)
    PROVE  (\E id \in Ids : Moves(id)) \/ (UNCHANGED answer /\ \A t \in Ids : Unseen(t))
<1>1. /\ \A g \in SyncHandlers : g # h => sync'[g] = sync[g]
      /\ UNCHANGED <<table, cancel, answer>>
      /\ sync'[h].pc = "idle"
  BY IInvFacts DEF SyncConflict, LoseSync, NoSync
<1>2. CASE \E id \in Ids : Held(h, id)
  <2> PICK id \in Ids : Held(h, id)
    BY <1>2
  <2>1. \A t \in Ids : t # id => Unseen(t)
    BY <1>1, SyncUnseen DEF Held, Saving
  <2>2. Open(id) /\ Seen(id)' = Seen(id)
    BY <1>1 DEF Open, Seen, Stored
  <2> QED BY <1>1, <2>1, <2>2 DEF Moves
<1>3. CASE ~\E id \in Ids : Held(h, id)
  BY <1>1, <1>3, SyncUnseen DEF Held, Saving
<1> QED BY <1>2, <1>3

LEMMA SaveMoves ==
    ASSUME IInv, SavedKinds, NEW h \in SyncHandlers, SyncInsert(h) \/ SyncUpdate(h)
    PROVE  \E id \in Ids : id = sync[h].cur /\ Held(h, id) /\ Moves(id)
<1>1. /\ \A g \in SyncHandlers : g # h => sync'[g] = sync[g]
      /\ UNCHANGED <<cancel, answer>>
      /\ sync[h].pc = "write" /\ sync'[h].pc \in {"flagAudit", "find"}
      /\ sync[h].cur \in Ids /\ sync[h].ent \in Row
  BY IInvFacts, SyncKeepsDevice, WrittenPc
     DEF SyncInsert, SyncUpdate, SyncStep, SyncConsistent
<1> PICK id \in Ids : id = sync[h].cur
  BY <1>1
<1>2. \A t \in Ids : t # id => table'[t] = table[t]
  BY IInvFacts DEF SyncInsert, SyncUpdate
<1>3. \A t \in Ids : t # id => Unseen(t)
  BY <1>1, <1>2, SyncUnseen DEF Held, Saving
<1>4. Held(h, id) /\ Open(id)
  BY <1>1 DEF Held, Saving, Open
<1>5. sync[h].ent.status \in {"synced", "flagged"} /\ NoRow \notin Row
  BY <1>1, RowAssumption DEF SavedKinds
<1>6. CASE SyncInsert(h)
  <2>1. table'[id] = sync[h].ent
    BY <1>6, IInvFacts DEF SyncInsert
  <2>2. Seen(id)' \in {"counted", "flagged"}
    BY <1>1, <1>5, <2>1 DEF Seen, Stored
  <2> QED BY <1>1, <1>3, <1>4, <2>2 DEF Moves
<1>7. CASE SyncUpdate(h)
  <2>1. /\ Stored(id) /\ table[id] \in Row /\ sync[h].loaded \in Row
        /\ table'[id] = Written(sync[h].ent, sync[h].loaded, table[id])
    BY <1>7, IInvFacts DEF SyncUpdate, SyncConsistent, SyncRequest, Stored
  <2>2. /\ table'[id] \in Row
        /\ table'[id].status \in {sync[h].ent.status, table[id].status}
    BY <1>1, <2>1, WrittenIsRow DEF Written, Column
  <2>3. Seen(id)' \in {"counted", "flagged"} \/ Seen(id)' = Seen(id)
    BY <1>5, <2>1, <2>2 DEF Seen, Stored
  <2> QED BY <1>1, <1>3, <1>4, <2>3 DEF Moves
<1> QED BY <1>6, <1>7

-----------------------------------------------------------------------------
(* The steps of the cancellations.                                         *)

LEMMA CancelUnseen ==
    ASSUME NEW s \in Supervisors,
           \A p \in Supervisors : p # s => cancel'[p] = cancel[p],
           UNCHANGED sync,
           NEW t \in Ids, table'[t] = table[t], Stale(s, t)' <=> Stale(s, t)
    PROVE  Unseen(t)
<1>1. Seen(t)' = Seen(t)
  BY DEF Seen, Stored
<1>2. \A h \in SyncHandlers : Held(h, t)' <=> Held(h, t)
  BY DEF Held, Saving
<1>3. \A p \in Supervisors : Stale(p, t)' <=> Stale(p, t)
  BY DEF Stale, Cancelling, CopyIsCurrent
<1> QED BY <1>1, <1>2, <1>3 DEF Unseen, Open

(***************************************************************************)
(* A cancellation copies the row as it is, and the second copy that save() *)
(* makes does not make the first one better or worse.                      *)
(***************************************************************************)
LEMMA CancelReadMoves ==
    ASSUME IInv, NEW s \in Supervisors,
           (\E id \in Ids : CancelFind(s, id)) \/ CancelSelect(s)
    PROVE  \A t \in Ids : Unseen(t)
<1>1. cancel \in [Supervisors -> CancelRequest] /\ NoCancel.pc = "idle"
  BY CancelFacts DEF NoCancel
<1>2. ASSUME NEW id \in Ids, CancelFind(s, id), NEW t \in Ids
      PROVE  Unseen(t)
  <2>1. /\ table' = table /\ cancel[s].pc = "idle" /\ table[id] \in Row
        /\ cancel'[s].pc = "select" /\ cancel'[s].id = id
        /\ cancel'[s].ent = [table[id] EXCEPT !.status = "cancelled", !.cancelledBy = s]
    BY <1>1, <1>2, CancelFacts DEF CancelFind, Cancellable
  <2>2. Agrees(cancel'[s].ent, table[id])
    BY <2>1 DEF Agrees, Row
  <2>3. ~Stale(s, t)' /\ ~Stale(s, t)
    BY <2>1, <2>2 DEF Stale, Cancelling, CopyIsCurrent
  <2> QED BY <1>1, <1>2, <2>1, <2>3, CancelUnseen DEF CancelFind
<1>3. ASSUME CancelSelect(s), NEW t \in Ids
      PROVE  Unseen(t)
  <2>1. /\ table' = table /\ cancel[s].pc = "select"
        /\ cancel'[s].pc = "write" /\ cancel'[s].id = cancel[s].id
        /\ cancel'[s].ent = cancel[s].ent
        /\ cancel'[s].loaded = table[cancel[s].id]
    BY <1>1, <1>3 DEF CancelSelect, CancelRequest
  <2>2. Stale(s, t)' <=> Stale(s, t)
    BY <2>1 DEF Stale, Cancelling, CopyIsCurrent, Agrees
  <2> QED BY <1>1, <1>3, <2>1, <2>2, CancelUnseen DEF CancelSelect
<1> QED BY <1>2, <1>3

(***************************************************************************)
(* save() of a copy that is current changes the status and the person      *)
(* only, and the status to cancelled.                                      *)
(***************************************************************************)
LEMMA CurrentCopyIsSaved ==
    ASSUME IInv, SavedKinds, NEW s \in Supervisors, CancelWrite(s), CopyIsCurrent(s)
    PROVE  /\ Agrees(table'[cancel[s].id], table[cancel[s].id])
           /\ table'[cancel[s].id].status = "cancelled"
<1>1. /\ cancel[s].id \in Ids /\ Stored(cancel[s].id)
      /\ table[cancel[s].id] \in Row
      /\ cancel[s].ent \in Row /\ cancel[s].loaded \in Row
      /\ cancel[s].ent.status = "cancelled"
      /\ table'[cancel[s].id] =
            Written(cancel[s].ent, cancel[s].loaded, table[cancel[s].id])
  BY CancelFacts DEF CancelConsistent, CancelWrite, SavedKinds
<1> QED BY <1>1 DEF CancelWrite, CopyIsCurrent, Agrees, Written, Column

LEMMA CancelWriteMoves ==
    ASSUME IInv, SavedKinds, NEW s \in Supervisors, CancelWrite(s)
    PROVE  \E id \in Ids : id = cancel[s].id /\ Moves(id)
<1>1. /\ cancel[s].id \in Ids /\ Stored(cancel[s].id)
      /\ table[cancel[s].id] \in Row
      /\ cancel[s].ent \in Row /\ cancel[s].loaded \in Row
      /\ cancel[s].ent.status = "cancelled"
      /\ table'[cancel[s].id] =
            Written(cancel[s].ent, cancel[s].loaded, table[cancel[s].id])
  BY CancelFacts DEF CancelConsistent, CancelWrite, SavedKinds
<1> PICK id \in Ids : id = cancel[s].id
  BY <1>1
<1>2. /\ \A p \in Supervisors : p # s => cancel'[p] = cancel[p]
      /\ UNCHANGED <<sync, answer>>
      /\ cancel[s].pc = "write" /\ cancel'[s].pc = "audit"
      /\ cancel'[s].id = id
      /\ \A t \in Ids : t # id => table'[t] = table[t]
  BY CancelFacts DEF CancelWrite, CancelRequest
<1>3. \A t \in Ids : t # id => Unseen(t)
  BY <1>2, CancelUnseen DEF Stale, Cancelling
<1>4. /\ table'[id] \in Row /\ table'[id] # NoRow
      /\ table'[id].status \in {"cancelled", table[id].status}
  BY <1>1, WrittenIsRow, RowAssumption DEF Written, Column
<1>5. Seen(id) # "unknown" /\ Seen(id)' \in {"cancelled", Seen(id)}
  BY <1>1, <1>4 DEF Seen, Stored
<1>6. CASE CopyIsCurrent(s)
  <2>1. Agrees(table'[id], table[id]) /\ table'[id].status = "cancelled"
    BY <1>6, CurrentCopyIsSaved
  <2>2. Seen(id)' = "cancelled"
    BY <1>4, <2>1 DEF Seen, Stored
  <2>3. \A h \in SyncHandlers : Held(h, id)' <=> Held(h, id)
    BY <1>2 DEF Held, Saving
  <2>4. \A p \in Supervisors : Stale(p, id)' => Stale(p, id)
    BY <1>2, <2>1 DEF Stale, Cancelling, CopyIsCurrent, Agrees
  <2>5. Open(id)' => Open(id)
    BY <2>3, <2>4 DEF Open
  <2> QED BY <1>2, <1>3, <1>5, <2>2, <2>5 DEF Moves
<1>7. CASE ~CopyIsCurrent(s)
  <2>1. Open(id)
    BY <1>2, <1>7 DEF Open, Stale, Cancelling
  <2> QED BY <1>2, <1>3, <1>5, <2>1 DEF Moves
<1> QED BY <1>6, <1>7

LEMMA CancelEndMoves ==
    ASSUME IInv, NEW s \in Supervisors, CancelAudit(s) \/ LoseCancel(s)
    PROVE  (\E id \in Ids : Moves(id)) \/ (UNCHANGED answer /\ \A t \in Ids : Unseen(t))
<1>1. /\ \A p \in Supervisors : p # s => cancel'[p] = cancel[p]
      /\ UNCHANGED <<table, sync, answer>>
      /\ cancel'[s].pc = "idle"
  BY CancelFacts DEF CancelAudit, LoseCancel, NoCancel
<1>2. CASE \E id \in Ids : Stale(s, id)
  <2> PICK id \in Ids : Stale(s, id)
    BY <1>2
  <2>1. \A t \in Ids : t # id => Unseen(t)
    BY <1>1, CancelUnseen DEF Stale, Cancelling
  <2>2. Open(id) /\ Seen(id)' = Seen(id)
    BY <1>1 DEF Open, Seen, Stored
  <2> QED BY <1>1, <2>1, <2>2 DEF Moves
<1>3. CASE ~\E id \in Ids : Stale(s, id)
  BY <1>1, <1>3, CancelUnseen DEF Stale, Cancelling
<1> QED BY <1>2, <1>3

-----------------------------------------------------------------------------
(* All the steps.                                                          *)

(***************************************************************************)
(* An answer acknowledges; any other step moves one ticket or shows        *)
(* nothing.                                                                *)
(***************************************************************************)
LEMMA NextMoves ==
    ASSUME IInv, SavedKinds, Next
    PROVE  \/ \E id \in Ids : Moves(id)
           \/ UNCHANGED answer /\ \A t \in Ids : Unseen(t)
           \/ (\E h \in SyncHandlers : SyncRespond(h)) /\ \A t \in Ids : Unseen(t)
<1>1. ASSUME NEW h \in SyncHandlers,
             \/ \E d \in Devices : \E batch \in SUBSET Holds[d] : SyncOpen(h, d, batch)
             \/ RejectDevice(h) \/ StartBatch(h) \/ RejectSignature(h)
             \/ \E id \in Ids : SkipDuplicate(h, id) \/ DetectBadSignature(h, id)
             \/ ReadLastHash(h) \/ SyncSelect(h) \/ AuditFlag(h) \/ SyncRespond(h)
      PROVE  /\ \A t \in Ids : Unseen(t)
             /\ UNCHANGED answer \/ SyncRespond(h)
  <2>1. \A g \in SyncHandlers : g # h => sync'[g] = sync[g]
    <3>1. CASE \E d \in Devices : \E batch \in SUBSET Holds[d] : SyncOpen(h, d, batch)
      BY <3>1, IInvFacts DEF SyncOpen
    <3> QED BY <1>1, <3>1, SyncKeepsDevice DEF SyncStep
  <2>2. \A t \in Ids : Unseen(t)
    BY <1>1, <2>1, SyncHoldsOn, SyncUnseen
  <2>3. UNCHANGED answer \/ SyncRespond(h)
    BY <1>1 DEF SyncOpen, RejectDevice, StartBatch, RejectSignature, SkipDuplicate,
       DetectBadSignature, ReadLastHash, SyncSelect, AuditFlag
  <2> QED BY <2>2, <2>3
<1>2. ASSUME NEW s \in Supervisors,
             (\E id \in Ids : CancelFind(s, id)) \/ CancelSelect(s)
      PROVE  UNCHANGED answer /\ \A t \in Ids : Unseen(t)
  BY <1>2, CancelReadMoves DEF CancelFind, CancelSelect
<1>3. CASE UNCHANGED <<table, sync, cancel, answer>>
  BY <1>3 DEF Unseen, Seen, Stored, Open, Held, Saving, Stale, Cancelling, CopyIsCurrent
<1> QED
  BY <1>1, <1>2, <1>3, AdmitMoves, EndMoves, SaveMoves, CancelWriteMoves, CancelEndMoves
     DEF Next, ledgerVars, SyncStep, CancelStep, Tick

LEMMA LedgerStep ==
    ASSUME IInv, IInv', SavedKinds, [Next]_vars
    PROVE  \/ Ledger!Next
           \/ /\ \A t \in Ids : Seen(t)' = Seen(t)
              /\ Unsettled' = Unsettled /\ SafeTickets' = SafeTickets
<1>1. ASSUME \A t \in Ids : Unseen(t)
      PROVE  /\ \A t \in Ids : Seen(t)' = Seen(t)
             /\ Unsettled' = Unsettled
  BY <1>1, UnsettledAreOpen DEF Unseen
<1>2. ASSUME NEW h \in SyncHandlers, SyncRespond(h), \A t \in Ids : Unseen(t)
      PROVE  Ledger!Next
  <2> PICK batch \in SUBSET Ids : batch = {id \in Ids : sync[h].out[id] \in Safe}
    OBVIOUS
  <2>1. \A id \in batch : Seen(id) # "unknown"
    BY DEF IInv, Acknowledged, Seen
  <2>2. SafeTickets' = SafeTickets \cup batch
    BY <1>2 DEF SyncRespond, SafeTickets, Safe
  <2>3. Ledger!Acknowledge(batch)
    BY <1>1, <1>2, <2>1, <2>2 DEF Ledger!Acknowledge, Seen, SafeTickets
  <2> QED BY <2>3 DEF Ledger!Next
<1>3. CASE UNCHANGED answer /\ \A t \in Ids : Unseen(t)
  BY <1>1, <1>3 DEF SafeTickets
<1>4. CASE UNCHANGED vars
  BY <1>4 DEF vars, ledgerVars, Seen, Stored, Unsettled, Saving, Cancelling,
     CopyIsCurrent, SafeTickets
<1> QED BY <1>2, <1>3, <1>4, NextMoves, MovesRefine

(***************************************************************************)
(* What a settled ticket may still undergo.                                *)
(***************************************************************************)
LEMMA AtRestStep ==
    ASSUME IInv, IInv', SavedKinds, Next, NEW id \in Ids, AtRest(id)
    PROVE  /\ AtRest(id)'
           /\ \/ table'[id] = table[id]
              \/ Agrees(table'[id], table[id]) /\ table'[id].status = "cancelled"
<1>1. Stored(id) /\ ~Open(id) /\ Seen(id) # "unknown"
  BY UnsettledAreOpen DEF AtRest, Seen
<1>2. Seen(id)' # "unknown" /\ ~Open(id)'
  <2>1. ASSUME NEW t \in Ids, Moves(t)
        PROVE  Seen(id)' # "unknown" /\ ~Open(id)'
    BY <1>1, <2>1 DEF Moves, Unseen
  <2> QED BY <1>1, <2>1, NextMoves DEF Unseen
<1>3. AtRest(id)'
  BY <1>2, UnsettledAreOpen DEF AtRest, Seen
<1>4. ASSUME NEW h \in SyncHandlers, SyncInsert(h) \/ SyncUpdate(h)
      PROVE  table'[id] = table[id]
  <2>1. sync[h].cur # id
    BY <1>1, <1>4, SaveMoves DEF Open
  <2> QED BY <1>4, <2>1, IInvFacts DEF SyncInsert, SyncUpdate
<1>5. ASSUME NEW s \in Supervisors, CancelWrite(s)
      PROVE  \/ table'[id] = table[id]
             \/ Agrees(table'[id], table[id]) /\ table'[id].status = "cancelled"
  <2>1. CASE cancel[s].id # id
    BY <1>5, <2>1, CancelFacts DEF CancelWrite
  <2>2. CASE cancel[s].id = id
    <3>1. CopyIsCurrent(s)
      BY <1>1, <1>5, <2>2 DEF Open, Stale, Cancelling, CancelWrite
    <3> QED BY <1>5, <2>2, <3>1, CurrentCopyIsSaved
  <2> QED BY <2>1, <2>2
<1>6. CASE UNCHANGED table
  BY <1>3, <1>6
<1> QED
  BY <1>3, <1>4, <1>5, <1>6
     DEF Next, SyncStep, CancelStep, ledgerVars, SyncOpen, RejectDevice, StartBatch,
         SkipDuplicate, DetectBadSignature, AdmitItem, RejectSignature, ReadLastHash,
         SyncSelect, SyncConflict, AuditFlag, SyncRespond, LoseSync, CancelFind,
         CancelSelect, CancelAudit, LoseCancel, Tick

-----------------------------------------------------------------------------
(* SavedKinds is inductive.                                                *)

LEMMA SavedBySync ==
    ASSUME IInv, SavedKinds, Next, NEW h \in SyncHandlers,
           sync'[h].pc \in {"select", "write"}
    PROVE  sync'[h].ent.status \in {"synced", "flagged"}
<1>1. sync \in [SyncHandlers -> SyncRequest] /\ NoSync.pc = "idle"
  BY IInvFacts DEF NoSync
<1>2. CASE sync'[h] = sync[h]
  BY <1>2 DEF SavedKinds
<1>3. CASE ReadLastHash(h)
  <2> PICK prev \in LastHashes(DeviceAgent[sync[h].dev]) :
        sync'[h].ent = NewRow(sync[h].cur, sync[h].dev, sync[h].now, prev)
    BY <1>1, <1>3 DEF ReadLastHash, SyncRequest
  <2> QED BY DEF NewRow, StatusFor
<1>4. CASE SyncSelect(h)
  <2>1. sync'[h].ent = sync[h].ent /\ sync[h].pc = "select"
    BY <1>1, <1>4 DEF SyncSelect, SyncRequest
  <2> QED BY <2>1 DEF SavedKinds
<1>5. CASE \E d \in Devices : \E batch \in SUBSET Holds[d] : SyncOpen(h, d, batch)
  BY <1>1, <1>5 DEF SyncOpen, NoSync
<1>6. CASE RejectDevice(h) \/ SyncConflict(h) \/ SyncRespond(h) \/ LoseSync(h)
  BY <1>1, <1>6 DEF RejectDevice, SyncConflict, SyncRespond, LoseSync
<1>7. CASE StartBatch(h) \/ \E id \in Ids : SkipDuplicate(h, id)
  BY <1>1, <1>7 DEF StartBatch, SkipDuplicate, SyncRequest
<1>8. CASE \E id \in Ids : DetectBadSignature(h, id)
  BY <1>1, <1>8 DEF DetectBadSignature, SyncRequest
<1>9. CASE \E id \in Ids : AdmitItem(h, id)
  BY <1>1, <1>9 DEF AdmitItem, SyncRequest
<1>10. CASE RejectSignature(h) \/ AuditFlag(h)
  BY <1>10, SettledPc DEF RejectSignature, AuditFlag
<1>11. CASE SyncInsert(h) \/ SyncUpdate(h)
  BY <1>11, WrittenPc DEF SyncInsert, SyncUpdate
<1> QED
  BY <1>2, <1>3, <1>4, <1>5, <1>6, <1>7, <1>8, <1>9, <1>10, <1>11, SyncMoves
     DEF SyncStep

LEMMA SavedByCancel ==
    ASSUME IInv, SavedKinds, Next, NEW s \in Supervisors,
           cancel'[s].pc \in {"select", "write"}
    PROVE  cancel'[s].ent.status = "cancelled"
<1>1. cancel \in [Supervisors -> CancelRequest]
  BY CancelFacts
<1>2. CASE cancel'[s] = cancel[s]
  BY <1>2 DEF SavedKinds
<1>3. ASSUME NEW id \in Ids, CancelFind(s, id)
      PROVE  cancel'[s].ent.status = "cancelled"
  <2>1. /\ table[id] \in Row
        /\ cancel'[s].ent = [table[id] EXCEPT !.status = "cancelled", !.cancelledBy = s]
    BY <1>1, <1>3, CancelFacts DEF CancelFind, Cancellable
  <2> QED BY <2>1 DEF Row
<1>4. CASE CancelSelect(s)
  <2>1. cancel[s].pc = "select" /\ cancel'[s].ent = cancel[s].ent
    BY <1>1, <1>4 DEF CancelSelect, CancelRequest
  <2> QED BY <2>1 DEF SavedKinds
<1>5. CASE CancelWrite(s) \/ CancelAudit(s) \/ LoseCancel(s)
  BY <1>1, <1>5 DEF CancelWrite, CancelAudit, LoseCancel, CancelRequest, NoCancel
<1>6. ASSUME NEW p \in Supervisors, p # s,
             (\E id \in Ids : CancelFind(p, id)) \/ CancelStep(p) \/ LoseCancel(p)
      PROVE  cancel'[s] = cancel[s]
  BY <1>1, <1>6
     DEF CancelFind, CancelStep, CancelSelect, CancelWrite, CancelAudit, LoseCancel
<1> QED
  BY <1>2, <1>3, <1>4, <1>5, <1>6
     DEF Next, SyncStep, CancelStep, ledgerVars, SyncOpen, RejectDevice, StartBatch,
         SkipDuplicate, DetectBadSignature, AdmitItem, RejectSignature, ReadLastHash,
         SyncSelect, SyncInsert, SyncUpdate, SyncConflict, AuditFlag, SyncRespond,
         LoseSync, Tick

LEMMA SavedInvariance == Spec => [](IInv /\ SavedKinds)
<1>1. Init => SavedKinds
  BY DEF Init, SavedKinds, NoSync, NoCancel
<1>2. ASSUME IInv, SavedKinds, [Next]_vars
      PROVE  SavedKinds'
  <2>1. CASE Next
    BY <1>2, <2>1, SavedBySync, SavedByCancel DEF SavedKinds
  <2>2. CASE UNCHANGED vars
    BY <1>2, <2>2 DEF SavedKinds, vars, ledgerVars
  <2> QED BY <1>2, <2>1, <2>2
<1> QED BY <1>1, <1>2, Invariance, PTL DEF Spec

-----------------------------------------------------------------------------
(* What follows.                                                           *)

(***************************************************************************)
(* A stored ticket that no sync may still save keeps its terminal, its     *)
(* date, its flag, its link and its hash for ever, and its status but for  *)
(* a cancellation: however many syncs and cancellations overlapped before, *)
(* and whatever dies or is resent later.                                   *)
(***************************************************************************)
THEOREM SettledIsFinal == Spec => SettledTicketIsFinal
<1>1. IInv /\ IInv' /\ SavedKinds /\ [Next]_vars
      => [\A id \in Ids : AtRest(id) =>
            /\ AtRest(id)'
            /\ table'[id].device = table[id].device
            /\ table'[id].ts = table[id].ts
            /\ table'[id].prev = table[id].prev
            /\ table'[id].hash = table[id].hash
            /\ table'[id].tampered = table[id].tampered
            /\ table'[id].status \in {table[id].status, "cancelled"}]_vars
  BY AtRestStep DEF Agrees
<1> QED BY <1>1, SavedInvariance, PTL DEF Spec, SettledTicketIsFinal

(***************************************************************************)
(* The tables and the requests implement TicketLedger, on which the models *)
(* of the cash and of the phone rely, with no hypothesis on the requests:  *)
(* a sync that admits a ticket unsettles it, a save gives it a kind or     *)
(* only settles it, the write of a cancellation cancels it or shows        *)
(* nothing, and an answer acknowledges the tickets it names.               *)
(***************************************************************************)
THEOREM LedgerImplemented == Spec => ImplementsLedger
<1>1. Init => Ledger!Init
  BY DEF Init, Ledger!Init, Stored, Unsettled, Saving, Cancelling, NoSync, NoCancel
<1>2. IInv /\ IInv' /\ SavedKinds /\ [Next]_vars
      => [Ledger!Next]_<<[id \in Ids |->
            IF ~Stored(id) THEN "unknown"
            ELSE CASE table[id].status = "synced" -> "counted"
                   [] table[id].status = "flagged" -> "flagged"
                   [] OTHER -> "cancelled"],
           Unsettled,
           {id \in Ids : answer[id] \cap Safe # {}}>>
  BY LedgerStep DEF Seen, SafeTickets
<1> QED BY <1>1, <1>2, SavedInvariance, PTL DEF Spec, ImplementsLedger, Ledger!Spec

=============================================================================
