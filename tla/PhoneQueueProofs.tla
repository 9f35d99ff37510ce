-------------------------- MODULE PhoneQueueProofs --------------------------
(***************************************************************************)
(* Proofs about DeviceKeyStore and PhoneQueue, for any tickets, keys and   *)
(* batch limit and any number of syncs at once.                            *)
(***************************************************************************)
EXTENDS PhoneQueue, TLAPS

(***************************************************************************)
(* The inductive invariant.  What the phone shows as sent was answered     *)
(* before it was marked, so the answers in flight are constrained as well  *)
(* (AnsweredIsStored).  That a phone with no second enrollment signs right *)
(* takes all its keys: the one in memory, the one and the terminal in the  *)
(* storage, those a collection or an enrollment holds (OneTerminal); and   *)
(* that its tickets are never rejected takes the terminal of each request  *)
(* in flight (SentByItsTerminal).                                          *)
(***************************************************************************)

\* An enrollment holds the key in memory as long as there is no terminal; from
\* then on there is none under way, and every key is that of the terminal.
OneTerminal ==
    /\ \A k \in Keys : enrolling[k] \in UnderWay =>
          /\ cache = k
          /\ storedId = None
          /\ enrolling[k] = "keyWritten" => storedKey = k
    /\ storedId # None => storedKey = storedId /\ cache \in {None, storedId}
    /\ \A t \in Ids :
          /\ collecting[t] # NotCollecting =>
                storedId # None /\ collecting[t].sig.dev = storedId
          /\ collecting[t].pc = "insert" => collecting[t].sig.key = storedId

\* Every signature is the terminal's own, and so is every request.
SignedByItsTerminal(t) ==
    /\ signed[t] # NoSignature =>
          storedId # None /\ signed[t] = [dev |-> storedId, key |-> storedId]
    /\ local[t] # "none" => signed[t] # NoSignature
    /\ local[t] # "error"

RequestOfItsTerminal(h) ==
    sync[h] # NoSync =>
        /\ storedId # None /\ sync[h].dev = storedId
        /\ \A t \in Ids :
              /\ t \in sync[h].todo \/ t = sync[h].cur \/ sync[h].out[t] # "none"
                    => signed[t] # NoSignature
              /\ sync[h].out[t] # "rejected_signature"

SentByItsTerminal ==
    /\ session \in {None, storedId}
    /\ \A t \in Ids : SignedByItsTerminal(t)
    /\ \A h \in Syncs : RequestOfItsTerminal(h)

\* What a request has answered as sent, or has found stored before its save.
FoundStored(r, t) ==
    \/ r.out[t] \in {"accepted", "duplicate", "flagged"}
    \/ r.pc = "write" /\ r.cur = t /\ r.loaded # "unknown"

AnsweredIsStored ==
    \A h \in Syncs, t \in Ids : FoundStored(sync[h], t) => ticket[t] # "unknown"

IInv ==
    /\ PhoneTypeOK
    /\ AnsweredIsStored
    /\ SentIsStored
    /\ ~renewed => OneTerminal /\ SentByItsTerminal

-----------------------------------------------------------------------------
(* The key store.                                                          *)

\* The steps of the key store keep its types.
LEMMA KeyStepType ==
    ASSUME KeyTypeOK, KeyStep
    PROVE  KeyTypeOK'
<1> USE DEF KeyTypeOK, Stages, UnderWay
<1>1. ASSUME NEW k \in Keys,
             GenerateKeyPair(k) \/ EnrollFails(k) \/ WriteKey(k) \/ WriteId(k)
      PROVE  KeyTypeOK'
  BY <1>1 DEF GenerateKeyPair, EnrollFails, WriteKey, WriteId
<1>2. ASSUME NEW k \in Keys, EnrollOnServer(k)
      PROVE  KeyTypeOK'
  BY <1>2 DEF EnrollOnServer, Terminals!Enroll
<1>3. CASE AgentLogin \/ SignOut
  BY <1>3 DEF AgentLogin, SignOut
<1>4. CASE TerminalDeactivated
  <2>1. status' \in [Keys -> {"absent", "active"} \cup Terminals!Inactive]
    BY <1>4 DEF TerminalDeactivated, Terminals!Deactivate
  <2> QED BY <1>4, <2>1 DEF TerminalDeactivated
<1> QED BY <1>1, <1>2, <1>3, <1>4 DEF KeyStep

-----------------------------------------------------------------------------
(* The shape of the requests in flight.                                    *)

LiveSync ==
    [pc : {"device", "items", "select", "write", "mark"}, dev : Keys, todo : SUBSET Ids,
     out : [Ids -> Outcomes \cup {"none"}], cur : Ids \cup {None}, loaded : Rows,
     awaited : BOOLEAN]

LEMMA SyncUnderWay ==
    ASSUME PhoneTypeOK, NEW h \in Syncs
    PROVE  /\ sync[h].pc # "idle" => sync[h] \in LiveSync /\ sync[h] # NoSync
           /\ sync[h] # NoSync => sync[h] \in LiveSync
           /\ sync[h].out \in [Ids -> Outcomes \cup {"none"}]
BY DEF PhoneTypeOK, SyncRequest, LiveSync, NoSync, NoOutcome

LEMMA NoSyncIsFree ==
    ASSUME NEW r, r = NoSync
    PROVE  /\ r \in SyncRequest
           /\ r.pc = "idle" /\ r.cur = None
           /\ \A t \in Ids : r.out[t] = "none" /\ ~FoundStored(r, t)
BY QueueAssumption DEF NoSync, NoOutcome, SyncRequest, FoundStored

\* One request takes a step, the others stay where they are.
OneSync(h) ==
    /\ sync' \in [Syncs -> SyncRequest]
    /\ \A g \in Syncs \ {h} : sync'[g] = sync[g]

\* It goes on with no more than it had to do, or ends, and gets no new answer.
HasToDo(r, t) == t \in r.todo \/ t = r.cur

GoesOn(h) ==
    /\ sync[h] # NoSync
    /\ sync'[h].dev = sync[h].dev
    /\ \A t \in Ids : HasToDo(sync'[h], t) => HasToDo(sync[h], t)

Quiet(h) ==
    /\ \/ sync'[h] = NoSync
       \/ GoesOn(h)
    /\ \A t \in Ids :
          /\ sync'[h].out[t] \in {sync[h].out[t], "none"}
          /\ FoundStored(sync'[h], t) => FoundStored(sync[h], t) \/ ticket[t] # "unknown"

LEMMA OneSyncMoves ==
    ASSUME PhoneTypeOK, NEW h \in Syncs, NEW r \in SyncRequest,
           sync' = [sync EXCEPT ![h] = r]
    PROVE  OneSync(h) /\ sync'[h] = r
BY DEF PhoneTypeOK, OneSync

LEMMA SyncEnds ==
    ASSUME PhoneTypeOK, NEW h \in Syncs, sync' = [sync EXCEPT ![h] = NoSync]
    PROVE  OneSync(h) /\ Quiet(h)
<1>1. OneSync(h) /\ sync'[h] = NoSync
  BY NoSyncIsFree, OneSyncMoves
<1> QED BY <1>1, NoSyncIsFree DEF Quiet

(***************************************************************************)
(* What each action makes of the request it is a step of.                  *)
(***************************************************************************)
LEMMA StartStep ==
    ASSUME PhoneTypeOK, NEW h \in Syncs, SyncStart(h)
    PROVE  /\ OneSync(h)
           /\ sync'[h].dev = session /\ sync'[h].todo = Pending /\ sync'[h].cur = None
           /\ \A t \in Ids : sync'[h].out[t] = "none" /\ ~FoundStored(sync'[h], t)
<1> DEFINE r == [NoSync EXCEPT !.pc = "device", !.dev = session,
                               !.todo = Pending, !.awaited = TRUE]
<1>1. session \in Keys /\ Pending \in SUBSET Ids
  BY DEF SyncStart, PhoneTypeOK, KeyTypeOK, Pending
<1>2. NoOutcome \in [Ids -> Outcomes \cup {"none"}]
  BY DEF NoOutcome
<1>3. r.dev = session /\ r.todo = Pending /\ r.out = NoOutcome /\ r.cur = None
  BY DEF NoSync
<1>4. r \in SyncRequest
  BY <1>1, <1>2 DEF SyncRequest, NoSync, Rows
<1>5. OneSync(h) /\ sync'[h] = r
  BY <1>4, OneSyncMoves DEF SyncStart
<1> HIDE DEF r
<1> QED BY <1>3, <1>5, QueueAssumption DEF NoOutcome, FoundStored

LEMMA ServerStepQuiet ==
    ASSUME PhoneTypeOK, NEW h \in Syncs,
           ServerCheckDevice(h) \/ ServerAnswers(h) \/ PhoneGivesUp(h)
    PROVE  OneSync(h) /\ Quiet(h)
<1>1. sync[h] \in LiveSync /\ sync[h] # NoSync
  BY SyncUnderWay DEF ServerCheckDevice, ServerAnswers, PhoneGivesUp, AtServer
<1>2. CASE sync' = [sync EXCEPT ![h] = NoSync]
  BY <1>2, SyncEnds
<1>3. CASE sync' = [sync EXCEPT ![h] = [sync[h] EXCEPT !.pc = "items"]]
  <2>1. [sync[h] EXCEPT !.pc = "items"] \in SyncRequest
    BY <1>1 DEF LiveSync, SyncRequest
  <2>2. OneSync(h) /\ sync'[h] = [sync[h] EXCEPT !.pc = "items"]
    BY <1>3, <2>1, OneSyncMoves
  <2> QED BY <1>1, <2>2 DEF LiveSync, Quiet, GoesOn, HasToDo, FoundStored
<1>4. CASE sync' = [sync EXCEPT ![h] = [sync[h] EXCEPT !.pc = "mark"]]
  <2>1. [sync[h] EXCEPT !.pc = "mark"] \in SyncRequest
    BY <1>1 DEF LiveSync, SyncRequest
  <2>2. OneSync(h) /\ sync'[h] = [sync[h] EXCEPT !.pc = "mark"]
    BY <1>4, <2>1, OneSyncMoves
  <2> QED BY <1>1, <2>2 DEF LiveSync, Quiet, GoesOn, HasToDo, FoundStored
<1>5. CASE PhoneGivesUp(h)
  <2>1. [sync[h] EXCEPT !.awaited = FALSE] \in SyncRequest
    BY <1>1 DEF LiveSync, SyncRequest
  <2>2. sync' = [sync EXCEPT ![h] = [sync[h] EXCEPT !.awaited = FALSE]]
    BY <1>5 DEF PhoneGivesUp, PhoneTypeOK
  <2>3. OneSync(h) /\ sync'[h] = [sync[h] EXCEPT !.awaited = FALSE]
    BY <2>1, <2>2, OneSyncMoves
  <2> QED BY <1>1, <2>3 DEF LiveSync, Quiet, GoesOn, HasToDo, FoundStored
<1> QED BY <1>2, <1>3, <1>4, <1>5 DEF ServerCheckDevice, ServerAnswers

\* An unknown ticket is admitted, and what the SELECT of save() finds is kept.
LEMMA ItemQuiet ==
    ASSUME PhoneTypeOK, NEW h \in Syncs, NEW t \in Ids,
           ServerAdmits(h, t) \/ ServerSelects(h, t)
    PROVE  OneSync(h) /\ Quiet(h)
<1>1. sync[h] \in LiveSync /\ sync[h] # NoSync
  BY SyncUnderWay DEF ServerAdmits, ServerSelects
<1>2. ASSUME NEW r \in LiveSync, sync' = [sync EXCEPT ![h] = r],
             r.dev = sync[h].dev, r.out = sync[h].out,
             \A u \in Ids :
                /\ HasToDo(r, u) => HasToDo(sync[h], u)
                /\ FoundStored(r, u) => FoundStored(sync[h], u) \/ ticket[u] # "unknown"
      PROVE  OneSync(h) /\ Quiet(h)
  <2>1. r \in SyncRequest
    BY DEF LiveSync, SyncRequest
  <2>2. OneSync(h) /\ sync'[h] = r
    BY <1>2, <2>1, OneSyncMoves
  <2> QED BY <1>1, <1>2, <2>2 DEF LiveSync, Quiet, GoesOn
<1>3. CASE ServerAdmits(h, t)
  <2> DEFINE r == [sync[h] EXCEPT !.pc = "select", !.todo = @ \ {t}, !.cur = t]
  <2>1. r \in LiveSync /\ r.dev = sync[h].dev /\ r.out = sync[h].out
    BY <1>1 DEF LiveSync
  <2>2. \A u \in Ids : HasToDo(r, u) => HasToDo(sync[h], u)
    BY <1>1, <1>3 DEF LiveSync, HasToDo, ServerAdmits
  <2>3. sync' = [sync EXCEPT ![h] = r]
    BY <1>1, <1>3 DEF ServerAdmits, PhoneTypeOK, LiveSync
  <2>4. \A u \in Ids : FoundStored(r, u) => FoundStored(sync[h], u) \/ ticket[u] # "unknown"
    BY <1>1 DEF LiveSync, FoundStored
  <2> HIDE DEF r
  <2> QED BY <1>2, <2>1, <2>2, <2>3, <2>4
<1>4. CASE ServerSelects(h, t)
  <2> DEFINE r == [sync[h] EXCEPT !.pc = "write", !.loaded = ticket[t]]
  <2>1. r \in LiveSync /\ r.dev = sync[h].dev /\ r.out = sync[h].out
    BY <1>1 DEF LiveSync, PhoneTypeOK
  <2>2. \A u \in Ids : HasToDo(r, u) => HasToDo(sync[h], u)
    BY <1>1 DEF LiveSync, HasToDo
  <2>3. sync' = [sync EXCEPT ![h] = r]
    BY <1>1, <1>4 DEF ServerSelects, PhoneTypeOK, LiveSync
  <2>4. \A u \in Ids : FoundStored(r, u) => FoundStored(sync[h], u) \/ ticket[u] # "unknown"
    BY <1>1, <1>4 DEF LiveSync, FoundStored, ServerSelects
  <2> HIDE DEF r
  <2> QED BY <1>2, <2>1, <2>2, <2>3, <2>4
<1> QED BY <1>3, <1>4

\* A ticket is answered: without being saved, or after its save.
LEMMA AnswerStep ==
    ASSUME PhoneTypeOK, NEW h \in Syncs, NEW t \in Ids, NEW outcome \in Outcomes,
           \/ sync[h].pc = "items" /\ Answered(h, t, outcome)
           \/ sync[h].pc = "write" /\ Saved(h, t, outcome)
    PROVE  /\ OneSync(h) /\ GoesOn(h)
           /\ sync'[h].out[t] = outcome
           /\ \A u \in Ids \ {t} :
                 /\ sync'[h].out[u] = sync[h].out[u]
                 /\ FoundStored(sync'[h], u) => FoundStored(sync[h], u)
           /\ FoundStored(sync'[h], t) =>
                 FoundStored(sync[h], t) \/ outcome # "rejected_signature"
<1>1. sync[h] \in LiveSync /\ sync[h] # NoSync
  BY SyncUnderWay
<1>2. ASSUME NEW r \in LiveSync, sync' = [sync EXCEPT ![h] = r],
             r.dev = sync[h].dev, r.todo \subseteq sync[h].todo,
             r.cur \in {sync[h].cur, None},
             r.out = [sync[h].out EXCEPT ![t] = outcome],
             r.pc = "items"
      PROVE  /\ OneSync(h) /\ GoesOn(h)
             /\ sync'[h].out[t] = outcome
             /\ \A u \in Ids \ {t} :
                   /\ sync'[h].out[u] = sync[h].out[u]
                   /\ FoundStored(sync'[h], u) => FoundStored(sync[h], u)
             /\ FoundStored(sync'[h], t) =>
                   FoundStored(sync[h], t) \/ outcome # "rejected_signature"
  <2>1. r \in SyncRequest
    BY DEF LiveSync, SyncRequest
  <2>2. OneSync(h) /\ sync'[h] = r
    BY <1>2, <2>1, OneSyncMoves
  <2>3. \A u \in Ids : HasToDo(r, u) => HasToDo(sync[h], u)
    BY <1>2, QueueAssumption DEF HasToDo
  <2>4. \A u \in Ids \ {t} : FoundStored(r, u) => FoundStored(sync[h], u)
    BY <1>1, <1>2, QueueAssumption DEF LiveSync, FoundStored
  <2>5. FoundStored(r, t) => FoundStored(sync[h], t) \/ outcome # "rejected_signature"
    BY <1>1, <1>2, QueueAssumption DEF LiveSync, FoundStored
  <2> QED BY <1>1, <1>2, <2>2, <2>3, <2>4, <2>5 DEF LiveSync, GoesOn
<1>3. CASE sync[h].pc = "items" /\ Answered(h, t, outcome)
  <2> DEFINE r == [sync[h] EXCEPT !.todo = @ \ {t}, !.out = [@ EXCEPT ![t] = outcome]]
  <2>1. /\ r \in LiveSync /\ r.dev = sync[h].dev /\ r.todo \subseteq sync[h].todo
        /\ r.cur = sync[h].cur /\ r.pc = "items" /\ r.out = [sync[h].out EXCEPT ![t] = outcome]
    BY <1>1, <1>3 DEF LiveSync
  <2>2. sync' = [sync EXCEPT ![h] = r]
    BY <1>1, <1>3 DEF Answered, PhoneTypeOK, LiveSync
  <2> HIDE DEF r
  <2> QED BY <1>2, <2>1, <2>2
<1>4. CASE sync[h].pc = "write" /\ Saved(h, t, outcome)
  <2> DEFINE r == [sync[h] EXCEPT !.pc = "items", !.cur = None, !.loaded = "unknown",
                                  !.out = [@ EXCEPT ![t] = outcome]]
  <2>1. /\ r \in LiveSync /\ r.dev = sync[h].dev /\ r.todo = sync[h].todo
        /\ r.cur = None /\ r.pc = "items" /\ r.out = [sync[h].out EXCEPT ![t] = outcome]
    BY <1>1 DEF LiveSync, Rows
  <2>2. sync' = [sync EXCEPT ![h] = r]
    BY <1>1, <1>4 DEF Saved, PhoneTypeOK, LiveSync
  <2> HIDE DEF r
  <2> QED BY <1>2, <2>1, <2>2
<1> QED BY <1>3, <1>4

LEMMA MarkStepQuiet ==
    ASSUME PhoneTypeOK, NEW h \in Syncs, NEW t \in Ids, MarkSynced(h, t)
    PROVE  OneSync(h) /\ Quiet(h)
<1>1. sync[h] \in LiveSync /\ sync[h] # NoSync
  BY SyncUnderWay DEF MarkSynced
<1> DEFINE out == [sync[h].out EXCEPT ![t] = "none"]
<1>2. CASE out = NoOutcome
  BY <1>2, SyncEnds DEF MarkSynced
<1>3. CASE out # NoOutcome
  <2>1. [sync[h] EXCEPT !.out = out] \in SyncRequest
    BY <1>1 DEF LiveSync, SyncRequest
  <2>2. sync' = [sync EXCEPT ![h] = [sync[h] EXCEPT !.out = out]]
    BY <1>3 DEF MarkSynced
  <2>3. OneSync(h) /\ sync'[h] = [sync[h] EXCEPT !.out = out]
    BY <2>1, <2>2, OneSyncMoves
  <2> QED BY <1>1, <2>3 DEF LiveSync, Quiet, GoesOn, HasToDo, FoundStored
<1> QED BY <1>2, <1>3

LEMMA RestartStep ==
    ASSUME PhoneTypeOK, Restart
    PROVE  /\ sync' \in [Syncs -> SyncRequest]
           /\ \A h \in Syncs : Quiet(h)
<1> SUFFICES ASSUME NEW h \in Syncs
             PROVE  sync'[h] \in SyncRequest /\ Quiet(h)
  BY DEF Restart
<1>1. CASE sync'[h] = NoSync
  BY <1>1, NoSyncIsFree DEF Quiet
<1>2. CASE sync[h] = NoSync
  <2>1. sync'[h] = NoSync
    <3>1. NoSync.pc = "idle"
      BY NoSyncIsFree
    <3>2. sync'[h] = [NoSync EXCEPT !.awaited = FALSE]
      BY <1>2, <3>1 DEF Restart
    <3> QED BY <3>2 DEF NoSync
  <2> QED BY <1>1, <2>1
<1>3. CASE sync[h] # NoSync /\ sync'[h] = [sync[h] EXCEPT !.awaited = FALSE]
  BY <1>3, SyncUnderWay DEF LiveSync, SyncRequest, Quiet, GoesOn, HasToDo,
                              FoundStored
<1> QED BY <1>1, <1>2, <1>3 DEF Restart

-----------------------------------------------------------------------------
(* The steps, grouped by what they touch.                                  *)

CollectStep == \E t \in Ids : CollectStart(t) \/ CollectSign(t) \/ CollectInsert(t)

QuietStep(h) ==
    \/ ServerCheckDevice(h) \/ ServerAnswers(h) \/ ServerFails(h) \/ PhoneGivesUp(h)
    \/ \E t \in Ids : ServerAdmits(h, t) \/ ServerSelects(h, t)

AnswersItem(h, t) ==
    \/ ServerKnows(h, t) \/ ServerRejects(h, t)
    \/ \E kind \in Ledger!Kinds : ServerSaves(h, t, kind)

LEMMA NextCases ==
    ASSUME Next
    PROVE  \/ KeyStep /\ UNCHANGED queueVars
           \/ CollectStep
           \/ \E t \in Ids : TicketCancelled(t)
           \/ \E h \in Syncs : SyncStart(h) \/ QuietStep(h)
           \/ \E h \in Syncs, t \in Ids : AnswersItem(h, t) \/ MarkSynced(h, t)
           \/ Restart
BY DEF Next, CollectStep, QuietStep, AnswersItem, ServerItem

LEMMA QuietStepMoves ==
    ASSUME PhoneTypeOK, NEW h \in Syncs, QuietStep(h)
    PROVE  /\ OneSync(h) /\ Quiet(h)
           /\ UNCHANGED <<keyVars, ticket, local, signed, collecting>>
<1>1. OneSync(h) /\ Quiet(h)
  BY ServerStepQuiet, SyncEnds, ItemQuiet DEF QuietStep, ServerFails
<1> QED BY <1>1 DEF QuietStep, ServerCheckDevice, ServerAnswers, ServerFails, PhoneGivesUp,
                ServerAdmits, ServerSelects, Ledger!Begin

\* The outcome of one item, and what the ledger holds of the ticket then.
LEMMA ItemMoves ==
    ASSUME PhoneTypeOK, AnsweredIsStored, NEW h \in Syncs, NEW t \in Ids,
           AnswersItem(h, t)
    PROVE  /\ OneSync(h) /\ GoesOn(h) /\ HasToDo(sync[h], t)
           /\ \A u \in Ids \ {t} :
                 /\ sync'[h].out[u] = sync[h].out[u]
                 /\ FoundStored(sync'[h], u) => FoundStored(sync[h], u)
           /\ UNCHANGED <<keyVars, local, signed, collecting>>
           /\ ticket' \in [Ids -> Rows]
           /\ \A u \in Ids : ticket[u] # "unknown" => ticket'[u] # "unknown"
           /\ sync'[h].out[t] \in Outcomes
           /\ FoundStored(sync'[h], t) => ticket'[t] # "unknown"
           /\ sync'[h].out[t] = "rejected_signature" => ~Valid(t, sync[h].dev)
<1> USE DEF PhoneTypeOK
<1>1. CASE ServerKnows(h, t)
  <2>1. "duplicate" \in Outcomes
    BY DEF Outcomes
  <2> QED BY <1>1, <2>1, AnswerStep DEF ServerKnows, HasToDo
<1>2. CASE \E kind \in Ledger!Kinds : ServerSaves(h, t, kind)
  <2> PICK kind \in Ledger!Kinds : ServerSaves(h, t, kind)
    BY <1>2
  <2> DEFINE outcome == IF kind = "counted" THEN "accepted" ELSE "flagged"
  <2>1. kind \in Rows /\ kind # "unknown"
    BY DEF Ledger!Kinds, Rows
  <2>2. /\ ticket' \in [Ids -> Rows]
        /\ \A u \in Ids : ticket[u] # "unknown" => ticket'[u] # "unknown"
    BY <2>1 DEF ServerSaves, Ledger!Save
  <2>3. ticket'[t] # "unknown"
    <3>1. sync[h].loaded = kind => ticket[t] # "unknown"
      BY <2>1 DEF ServerSaves, AnsweredIsStored, FoundStored
    <3> QED BY <2>1, <3>1 DEF ServerSaves, Ledger!Save
  <2>4. outcome \in Outcomes /\ outcome # "rejected_signature"
    BY DEF Outcomes
  <2>5. /\ OneSync(h) /\ GoesOn(h) /\ sync'[h].out[t] = outcome
        /\ \A u \in Ids \ {t} :
              /\ sync'[h].out[u] = sync[h].out[u]
              /\ FoundStored(sync'[h], u) => FoundStored(sync[h], u)
    BY <2>4, AnswerStep DEF ServerSaves
  <2> HIDE DEF outcome
  <2> QED BY <2>2, <2>3, <2>4, <2>5 DEF ServerSaves, HasToDo
<1>3. CASE ServerRejects(h, t)
  <2>1. "rejected_signature" \in Outcomes
    BY DEF Outcomes
  <2>2. ~FoundStored(sync[h], t)
    BY <1>3 DEF ServerRejects, AnsweredIsStored
  <2> QED BY <1>3, <2>1, <2>2, AnswerStep DEF ServerRejects, HasToDo
<1> QED BY <1>1, <1>2, <1>3 DEF AnswersItem

LEMMA MarkMoves ==
    ASSUME PhoneTypeOK, NEW h \in Syncs, NEW t \in Ids, MarkSynced(h, t)
    PROVE  /\ OneSync(h) /\ Quiet(h)
           /\ UNCHANGED <<keyVars, ticket, signed, collecting>>
           /\ sync[h].out[t] \in Outcomes
           /\ local' = [local EXCEPT ![t] = Marked(sync[h].out[t])]
           /\ Marked(sync[h].out[t]) \in LocalStatus
<1>1. sync[h].out[t] \in Outcomes
  BY SyncUnderWay DEF MarkSynced
<1> QED BY <1>1, MarkStepQuiet DEF MarkSynced, Marked, LocalStatus, Outcomes

LEMMA CollectingUnderWay ==
    ASSUME PhoneTypeOK, NEW t \in Ids
    PROVE  /\ collecting[t].pc = "sign" =>
                /\ collecting[t] # NotCollecting
                /\ collecting[t] \in [pc : {"sign"}, sig : [dev : Keys, key : {None}]]
           /\ collecting[t].pc = "insert" =>
                /\ collecting[t] # NotCollecting
                /\ collecting[t] \in [pc : {"insert"}, sig : Signature]
           /\ NotCollecting \in Collecting /\ NotCollecting.pc = "idle"
BY DEF PhoneTypeOK, Collecting, NotCollecting

(***************************************************************************)
(* The types.                                                              *)
(***************************************************************************)
LEMMA CollectStepType ==
    ASSUME PhoneTypeOK, NEW t \in Ids,
           CollectStart(t) \/ CollectSign(t) \/ CollectInsert(t)
    PROVE  PhoneTypeOK'
<1> USE DEF PhoneTypeOK, KeyTypeOK
<1>1. CASE CollectStart(t)
  <2>1. storedId \in Keys
    BY <1>1 DEF CollectStart
  <2>2. [pc |-> "sign", sig |-> [dev |-> storedId, key |-> None]] \in Collecting
    BY <2>1 DEF Collecting
  <2> QED BY <1>1, <2>2 DEF CollectStart, keyVars
<1>2. CASE CollectSign(t)
  <2>1. LoadedKey \in {k \in Keys : enrolling[k] # "new"}
    BY <1>2 DEF CollectSign, LoadedKey
  <2>2. [pc |-> "insert", sig |-> [dev |-> collecting[t].sig.dev, key |-> LoadedKey]]
          \in Collecting
    BY <1>2, <2>1, CollectingUnderWay DEF CollectSign, Collecting, Signature
  <2> QED BY <1>2, <2>1, <2>2 DEF CollectSign
<1>3. CASE CollectInsert(t)
  <2>1. collecting[t].sig \in Signature
    BY <1>3, CollectingUnderWay DEF CollectInsert
  <2> QED BY <1>3, <2>1, CollectingUnderWay DEF CollectInsert, LocalStatus, keyVars
<1> QED BY <1>1, <1>2, <1>3

LEMMA PhoneTypeStep ==
    ASSUME PhoneTypeOK, AnsweredIsStored, Next
    PROVE  PhoneTypeOK'
<1>1. CASE KeyStep /\ UNCHANGED queueVars
  BY <1>1, KeyStepType DEF PhoneTypeOK, queueVars
<1>2. CASE CollectStep
  BY <1>2, CollectStepType DEF CollectStep
<1>3. CASE \E t \in Ids : TicketCancelled(t)
  BY <1>3 DEF TicketCancelled, Ledger!Cancel, PhoneTypeOK, KeyTypeOK, keyVars, Rows
<1>4. CASE \E h \in Syncs : SyncStart(h) \/ QuietStep(h)
  <2> PICK h \in Syncs : SyncStart(h) \/ QuietStep(h)
    BY <1>4
  <2>1. OneSync(h) /\ UNCHANGED <<keyVars, ticket, local, signed, collecting>>
    BY StartStep, QuietStepMoves DEF SyncStart
  <2> QED BY <2>1 DEF OneSync, PhoneTypeOK, KeyTypeOK, keyVars
<1>5. CASE \E h \in Syncs, t \in Ids : AnswersItem(h, t) \/ MarkSynced(h, t)
  <2> PICK h \in Syncs, t \in Ids : AnswersItem(h, t) \/ MarkSynced(h, t)
    BY <1>5
  <2>1. OneSync(h) /\ UNCHANGED <<keyVars, signed, collecting>>
    BY ItemMoves, MarkMoves
  <2>2. ticket' \in [Ids -> Rows]
    BY ItemMoves, MarkMoves DEF PhoneTypeOK
  <2>3. local' \in [Ids -> LocalStatus \cup {"none"}]
    BY ItemMoves, MarkMoves DEF PhoneTypeOK
  <2> QED BY <2>1, <2>2, <2>3 DEF OneSync, PhoneTypeOK, KeyTypeOK, keyVars
<1>6. CASE Restart
  <2>1. NotCollecting \in Collecting
    BY DEF Collecting
  <2>2. sync' \in [Syncs -> SyncRequest]
    BY <1>6, RestartStep
  <2>3. KeyTypeOK'
    BY <1>6 DEF Restart, PhoneTypeOK, KeyTypeOK, Stages, UnderWay
  <2> QED BY <1>6, <2>1, <2>2, <2>3 DEF Restart, PhoneTypeOK
<1> QED BY <1>1, <1>2, <1>3, <1>4, <1>5, <1>6, NextCases

-----------------------------------------------------------------------------
(* What is answered, and what is shown, is stored.                         *)

\* An action leaves every request in flight without a new answer.
AllQuiet ==
    \A h \in Syncs, t \in Ids :
        FoundStored(sync'[h], t) => FoundStored(sync[h], t) \/ ticket[t] # "unknown"

LEMMA NothingNewIsAnswered ==
    ASSUME AnsweredIsStored, AllQuiet,
           \A t \in Ids : ticket[t] # "unknown" => ticket'[t] # "unknown"
    PROVE  AnsweredIsStored'
BY DEF AnsweredIsStored, AllQuiet

LEMMA OneQuietIsAllQuiet ==
    ASSUME NEW h \in Syncs, OneSync(h),
           \A t \in Ids : FoundStored(sync'[h], t) =>
                              FoundStored(sync[h], t) \/ ticket[t] # "unknown"
    PROVE  AllQuiet
<1> SUFFICES ASSUME NEW g \in Syncs, NEW t \in Ids, FoundStored(sync'[g], t)
             PROVE  FoundStored(sync[g], t) \/ ticket[t] # "unknown"
  BY DEF AllQuiet
<1>1. CASE g = h
  BY <1>1
<1>2. CASE g # h
  BY <1>2 DEF OneSync
<1> QED BY <1>1, <1>2

LEMMA StoredStep ==
    ASSUME PhoneTypeOK, AnsweredIsStored, SentIsStored, Next
    PROVE  AnsweredIsStored' /\ SentIsStored'
<1>1. CASE (KeyStep /\ UNCHANGED queueVars) \/ CollectStep
  <2>1. UNCHANGED <<ticket, sync>>
    BY <1>1 DEF queueVars, CollectStep, CollectStart, CollectSign, CollectInsert
  <2>2. \A t \in Ids : local'[t] \in {local[t], "pending"}
    BY <1>1 DEF queueVars, CollectStep, CollectStart, CollectSign, CollectInsert,
                PhoneTypeOK
  <2> QED BY <2>1, <2>2 DEF AnsweredIsStored, SentIsStored
<1>2. CASE \E t \in Ids : TicketCancelled(t)
  <2> PICK t \in Ids : TicketCancelled(t)
    BY <1>2
  <2>1. /\ ticket' = [ticket EXCEPT ![t] = "cancelled"]
        /\ UNCHANGED <<sync, local>>
    BY DEF TicketCancelled, Ledger!Cancel
  <2> QED BY <2>1 DEF PhoneTypeOK, AnsweredIsStored, SentIsStored
<1>3. CASE \E h \in Syncs : SyncStart(h) \/ QuietStep(h)
  <2> PICK h \in Syncs : SyncStart(h) \/ QuietStep(h)
    BY <1>3
  <2>1. AllQuiet /\ UNCHANGED <<ticket, local>>
    BY StartStep, QuietStepMoves, OneQuietIsAllQuiet DEF SyncStart, Quiet
  <2> QED BY <2>1, NothingNewIsAnswered DEF SentIsStored
<1>4. CASE \E h \in Syncs, t \in Ids : AnswersItem(h, t)
  <2> PICK h \in Syncs, t \in Ids : AnswersItem(h, t)
    BY <1>4
  <2>1. \A u \in Ids : ticket[u] # "unknown" => ticket'[u] # "unknown"
    BY ItemMoves
  <2>2. AnsweredIsStored'
    <3> SUFFICES ASSUME NEW g \in Syncs, NEW u \in Ids, FoundStored(sync'[g], u)
                 PROVE  ticket'[u] # "unknown"
      BY DEF AnsweredIsStored
    <3>1. CASE g = h /\ u = t
      BY <3>1, ItemMoves
    <3>2. CASE ~(g = h /\ u = t)
      <4>1. FoundStored(sync[g], u)
        BY <3>2, ItemMoves DEF OneSync
      <4> QED BY <2>1, <4>1 DEF AnsweredIsStored
    <3> QED BY <3>1, <3>2
  <2> QED BY <2>1, <2>2, ItemMoves DEF SentIsStored
<1>5. CASE \E h \in Syncs, t \in Ids : MarkSynced(h, t)
  <2> PICK h \in Syncs, t \in Ids : MarkSynced(h, t)
    BY <1>5
  <2>1. AllQuiet /\ UNCHANGED ticket
    BY MarkMoves, OneQuietIsAllQuiet DEF Quiet
  <2>2. AnsweredIsStored'
    BY <2>1, NothingNewIsAnswered
  <2>3. SentIsStored'
    <3> SUFFICES ASSUME NEW u \in Ids, local'[u] \in {"synced", "flagged"}
                 PROVE  ticket'[u] # "unknown"
      BY DEF SentIsStored
    <3>1. CASE u = t
      <4>1. local'[t] = Marked(sync[h].out[t]) /\ sync[h].out[t] \in Outcomes
        BY MarkMoves DEF PhoneTypeOK
      <4>2. FoundStored(sync[h], t)
        BY <3>1, <4>1 DEF Marked, Outcomes, FoundStored
      <4> QED BY <2>1, <3>1, <4>2 DEF AnsweredIsStored
    <3>2. CASE u # t
      BY <2>1, <3>2, MarkMoves DEF PhoneTypeOK, SentIsStored
    <3> QED BY <3>1, <3>2
  <2> QED BY <2>2, <2>3
<1>6. CASE Restart
  <2>1. AllQuiet /\ UNCHANGED <<ticket, local>>
    BY <1>6, RestartStep DEF Restart, Quiet, AllQuiet
  <2> QED BY <2>1, NothingNewIsAnswered DEF SentIsStored
<1> QED BY <1>1, <1>2, <1>3, <1>4, <1>5, <1>6, NextCases

-----------------------------------------------------------------------------
(* A phone with no second enrollment.                                      *)

\* As long as it has had one terminal, the terminal it has stays.
LEMMA KeysStayOne ==
    ASSUME PhoneTypeOK, OneTerminal, KeyStep, UNCHANGED queueVars, ~renewed'
    PROVE  OneTerminal' /\ (storedId # None => storedId' = storedId)
<1> USE DEF PhoneTypeOK, KeyTypeOK, OneTerminal, queueVars, UnderWay
<1>1. ASSUME NEW k \in Keys, GenerateKeyPair(k)
      PROVE  OneTerminal' /\ storedId' = storedId
  <2>1. storedId = None /\ \A j \in Keys : enrolling[j] \notin UnderWay
    BY <1>1 DEF GenerateKeyPair
  <2> QED BY <1>1, <2>1 DEF GenerateKeyPair
<1>2. ASSUME NEW k \in Keys, EnrollOnServer(k) \/ EnrollFails(k)
      PROVE  OneTerminal' /\ storedId' = storedId
  BY <1>2 DEF EnrollOnServer, EnrollFails
<1>3. ASSUME NEW k \in Keys, WriteKey(k)
      PROVE  OneTerminal' /\ storedId' = storedId
  BY <1>3 DEF WriteKey
<1>4. ASSUME NEW k \in Keys, WriteId(k)
      PROVE  OneTerminal' /\ storedId = None
  <2>1. cache = k /\ storedKey = k /\ storedId = None
    BY <1>4 DEF WriteId
  <2>2. \A j \in Keys \ {k} : enrolling[j] \notin UnderWay
    BY <2>1
  <2>3. \A j \in Keys : enrolling'[j] \notin UnderWay
    BY <1>4, <2>2 DEF WriteId
  <2> QED BY <1>4, <2>1, <2>3 DEF WriteId, NotCollecting
<1>5. CASE AgentLogin \/ SignOut \/ TerminalDeactivated
  BY <1>5 DEF AgentLogin, SignOut, TerminalDeactivated
<1> QED BY <1>1, <1>2, <1>3, <1>4, <1>5 DEF KeyStep

LEMMA CollectStaysOne ==
    ASSUME PhoneTypeOK, OneTerminal, NEW t \in Ids,
           CollectStart(t) \/ CollectSign(t) \/ CollectInsert(t)
    PROVE  OneTerminal' /\ storedId' = storedId
<1> USE DEF PhoneTypeOK, KeyTypeOK, OneTerminal
<1>1. CASE CollectStart(t)
  BY <1>1 DEF CollectStart, keyVars
<1>2. CASE CollectSign(t)
  <2>1. /\ collecting[t].sig.dev = storedId /\ storedId # None
        /\ LoadedKey = storedId
    BY <1>2, CollectingUnderWay DEF CollectSign, LoadedKey
  <2> QED BY <1>2, <2>1 DEF CollectSign
<1>3. CASE CollectInsert(t)
  BY <1>3, CollectingUnderWay DEF CollectInsert, keyVars
<1> QED BY <1>1, <1>2, <1>3

LEMMA OneTerminalStep ==
    ASSUME PhoneTypeOK, AnsweredIsStored, OneTerminal, Next, ~renewed'
    PROVE  OneTerminal' /\ (storedId # None => storedId' = storedId)
<1>1. CASE KeyStep /\ UNCHANGED queueVars
  BY <1>1, KeysStayOne
<1>2. CASE CollectStep
  BY <1>2, CollectStaysOne DEF CollectStep
<1>3. CASE Restart
  <2>1. \A k \in Keys : enrolling'[k] \notin UnderWay
    BY <1>3 DEF Restart, UnderWay
  <2>2. \A t \in Ids : collecting'[t] = NotCollecting /\ NotCollecting.pc # "insert"
    BY <1>3 DEF Restart, NotCollecting
  <2> QED BY <1>3, <2>1, <2>2 DEF Restart, OneTerminal
<1>4. CASE UNCHANGED <<keyVars, collecting>>
  BY <1>4 DEF keyVars, OneTerminal
<1> QED
  BY <1>1, <1>2, <1>3, <1>4, NextCases, ItemMoves, MarkMoves, QuietStepMoves
     DEF TicketCancelled, SyncStart

\* A request that gets no new answer stays one of its terminal.
LEMMA QuietKeepsTerminal ==
    ASSUME NEW h \in Syncs, RequestOfItsTerminal(h), Quiet(h),
           UNCHANGED <<storedId, signed>>
    PROVE  RequestOfItsTerminal(h)'
BY QueueAssumption, NoSyncIsFree DEF RequestOfItsTerminal, Quiet, GoesOn, HasToDo

LEMMA OneRequestMoves ==
    ASSUME NEW h \in Syncs, OneSync(h), UNCHANGED <<storedId, signed>>,
           \A g \in Syncs : RequestOfItsTerminal(g), RequestOfItsTerminal(h)'
    PROVE  \A g \in Syncs : RequestOfItsTerminal(g)'
<1> TAKE g \in Syncs
<1>1. CASE g = h
  BY <1>1
<1>2. CASE g # h
  BY <1>2 DEF OneSync, RequestOfItsTerminal
<1> QED BY <1>1, <1>2

LEMMA SentByItsTerminalStep ==
    ASSUME PhoneTypeOK, AnsweredIsStored, OneTerminal, SentByItsTerminal, Next, ~renewed',
           storedId # None => storedId' = storedId
    PROVE  SentByItsTerminal'
<1>1. CASE KeyStep /\ UNCHANGED queueVars
  <2>1. \A t \in Ids : SignedByItsTerminal(t)'
    BY <1>1 DEF queueVars, SentByItsTerminal, SignedByItsTerminal
  <2>2. \A h \in Syncs : RequestOfItsTerminal(h)'
    BY <1>1 DEF queueVars, SentByItsTerminal, RequestOfItsTerminal
  <2>3. session' \in {None, storedId'}
    <3>1. session' \in {session, None, storedId}
      BY <1>1 DEF KeyStep, GenerateKeyPair, EnrollOnServer, EnrollFails, WriteKey,
                  WriteId, AgentLogin, SignOut, TerminalDeactivated
    <3> QED BY <3>1 DEF SentByItsTerminal
  <2> QED BY <2>1, <2>2, <2>3 DEF SentByItsTerminal
<1>2. CASE CollectStep
  <2> PICK t \in Ids : CollectStart(t) \/ CollectSign(t) \/ CollectInsert(t)
    BY <1>2 DEF CollectStep
  <2>1. CASE CollectInsert(t)
    <3>1. storedId \in Keys /\ collecting[t].sig = [dev |-> storedId, key |-> storedId]
      BY <2>1, CollectingUnderWay
         DEF CollectInsert, OneTerminal, Signature, PhoneTypeOK, KeyTypeOK
    <3>2. collecting[t].sig # NoSignature
      BY <3>1, KeyStoreAssumption DEF NoSignature
    <3>3. \A u \in Ids : SignedByItsTerminal(u)'
      BY <2>1, <3>1, <3>2, KeyStoreAssumption
         DEF CollectInsert, SentByItsTerminal, SignedByItsTerminal, PhoneTypeOK, keyVars
    <3>4. \A u \in Ids : signed[u] # NoSignature => signed'[u] # NoSignature
      BY <2>1, <3>1, <3>2 DEF CollectInsert, PhoneTypeOK
    <3>5. \A h \in Syncs : RequestOfItsTerminal(h)'
      BY <2>1, <3>4 DEF CollectInsert, SentByItsTerminal, RequestOfItsTerminal, keyVars
    <3> QED BY <2>1, <3>3, <3>5 DEF CollectInsert, SentByItsTerminal, keyVars
  <2>2. CASE UNCHANGED <<storedId, session, local, signed, sync>>
    BY <2>2 DEF SentByItsTerminal, SignedByItsTerminal, RequestOfItsTerminal
  <2> QED BY <2>1, <2>2 DEF CollectStart, CollectSign, keyVars
<1>3. CASE \E t \in Ids : TicketCancelled(t)
  BY <1>3 DEF TicketCancelled, keyVars, SentByItsTerminal, SignedByItsTerminal,
              RequestOfItsTerminal
<1>4. CASE \E h \in Syncs : SyncStart(h) \/ QuietStep(h)
  <2> PICK h \in Syncs : SyncStart(h) \/ QuietStep(h)
    BY <1>4
  <2>1. OneSync(h) /\ UNCHANGED <<storedId, session, local, signed>>
    BY StartStep, QuietStepMoves DEF SyncStart, keyVars
  <2>2. RequestOfItsTerminal(h)'
    <3>1. CASE QuietStep(h)
      BY <2>1, <3>1, QuietStepMoves, QuietKeepsTerminal DEF SentByItsTerminal
    <3>2. CASE SyncStart(h)
      <4>1. session = storedId /\ storedId # None
        BY <3>2 DEF SyncStart, SentByItsTerminal
      <4>2. \A t \in Pending : signed[t] # NoSignature
        BY DEF Pending, SentByItsTerminal, SignedByItsTerminal
      <4> QED BY <2>1, <3>2, <4>1, <4>2, StartStep, QueueAssumption DEF RequestOfItsTerminal
    <3> QED BY <3>1, <3>2
  <2>3. \A t \in Ids : SignedByItsTerminal(t)'
    BY <2>1 DEF SentByItsTerminal, SignedByItsTerminal
  <2>4. \A g \in Syncs : RequestOfItsTerminal(g)'
    BY <2>1, <2>2, OneRequestMoves DEF SentByItsTerminal
  <2> QED BY <2>1, <2>3, <2>4 DEF SentByItsTerminal
<1>5. CASE \E h \in Syncs, t \in Ids : AnswersItem(h, t)
  <2> PICK h \in Syncs, t \in Ids : AnswersItem(h, t)
    BY <1>5
  <2>1. /\ OneSync(h) /\ GoesOn(h) /\ HasToDo(sync[h], t)
        /\ UNCHANGED <<storedId, session, local, signed>>
    BY ItemMoves DEF keyVars
  <2>2. /\ storedId # None /\ sync[h].dev = storedId
        /\ signed[t] = [dev |-> storedId, key |-> storedId]
    BY <2>1 DEF GoesOn, HasToDo, SentByItsTerminal, RequestOfItsTerminal,
                SignedByItsTerminal
  <2>3. sync'[h].out[t] # "rejected_signature"
    BY <2>2, ItemMoves DEF Valid
  <2>4. RequestOfItsTerminal(h)'
    BY <2>1, <2>2, <2>3, ItemMoves
       DEF GoesOn, HasToDo, SentByItsTerminal, RequestOfItsTerminal
  <2>5. \A u \in Ids : SignedByItsTerminal(u)'
    BY <2>1 DEF SentByItsTerminal, SignedByItsTerminal
  <2>6. \A g \in Syncs : RequestOfItsTerminal(g)'
    BY <2>1, <2>4, OneRequestMoves DEF SentByItsTerminal
  <2> QED BY <2>1, <2>5, <2>6 DEF SentByItsTerminal
<1>6. CASE \E h \in Syncs, t \in Ids : MarkSynced(h, t)
  <2> PICK h \in Syncs, t \in Ids : MarkSynced(h, t)
    BY <1>6
  <2>1. OneSync(h) /\ Quiet(h) /\ UNCHANGED <<storedId, session, signed>>
    BY MarkMoves DEF keyVars
  <2>2. \A g \in Syncs : RequestOfItsTerminal(g)'
    BY <2>1, QuietKeepsTerminal, OneRequestMoves DEF SentByItsTerminal
  <2>3. sync[h].out[t] # "rejected_signature" /\ signed[t] # NoSignature
    <3>1. sync[h] # NoSync /\ sync[h].out[t] # "none"
      BY SyncUnderWay DEF MarkSynced
    <3> QED BY <3>1 DEF SentByItsTerminal, RequestOfItsTerminal
  <2>4. Marked(sync[h].out[t]) # "error"
    BY <2>3, MarkMoves DEF Marked, Outcomes
  <2>5. \A u \in Ids : SignedByItsTerminal(u)'
    BY <2>1, <2>3, <2>4, MarkMoves
       DEF SentByItsTerminal, SignedByItsTerminal, PhoneTypeOK
  <2> QED BY <2>1, <2>2, <2>5 DEF SentByItsTerminal
<1>7. CASE Restart
  <2>1. /\ UNCHANGED <<storedId, session, local, signed>>
        /\ \A h \in Syncs : Quiet(h)
    BY <1>7, RestartStep DEF Restart
  <2>2. \A h \in Syncs : RequestOfItsTerminal(h)'
    BY <2>1, QuietKeepsTerminal DEF SentByItsTerminal
  <2> QED BY <2>1, <2>2 DEF SentByItsTerminal, SignedByItsTerminal
<1> QED BY <1>1, <1>2, <1>3, <1>4, <1>5, <1>6, <1>7, NextCases

-----------------------------------------------------------------------------
(* The theorems.                                                           *)

LEMMA IInvHolds == Spec => []IInv
<1>1. Init => IInv
  <2> SUFFICES ASSUME Init PROVE IInv
    OBVIOUS
  <2>1. NotCollecting \in Collecting /\ NotCollecting.pc = "idle"
    BY DEF Collecting, NotCollecting
  <2>2. \A h \in Syncs : sync[h] \in SyncRequest /\ \A t \in Ids : ~FoundStored(sync[h], t)
    BY NoSyncIsFree DEF Init
  <2>3. PhoneTypeOK
    BY <2>1, <2>2 DEF Init, KeyInit, PhoneTypeOK, KeyTypeOK, Stages, Rows
  <2>4. AnsweredIsStored /\ SentIsStored
    BY <2>2 DEF Init, AnsweredIsStored, SentIsStored
  <2>5. OneTerminal /\ SentByItsTerminal
    BY <2>1 DEF Init, KeyInit, OneTerminal, UnderWay, SentByItsTerminal,
                SignedByItsTerminal, RequestOfItsTerminal
  <2> QED BY <2>3, <2>4, <2>5 DEF IInv
<1>2. IInv /\ [Next]_vars => IInv'
  <2> SUFFICES ASSUME IInv, [Next]_vars PROVE IInv'
    OBVIOUS
  <2>1. CASE Next
    <3>1. ~renewed' => ~renewed
      BY <2>1, NextCases, ItemMoves, MarkMoves, QuietStepMoves
         DEF IInv, KeyStep, GenerateKeyPair, EnrollOnServer, EnrollFails, WriteKey,
             WriteId, AgentLogin, SignOut, TerminalDeactivated, CollectStep,
             CollectStart, CollectSign, CollectInsert, TicketCancelled, SyncStart,
             Restart, keyVars
    <3>2. ~renewed' => OneTerminal' /\ SentByItsTerminal'
      BY <2>1, <3>1, OneTerminalStep, SentByItsTerminalStep DEF IInv
    <3> QED BY <2>1, <3>2, PhoneTypeStep, StoredStep DEF IInv
  <2>2. CASE UNCHANGED vars
    <3> USE <2>2 DEF vars, keyVars, queueVars, IInv
    <3>1. PhoneTypeOK'
      BY DEF PhoneTypeOK, KeyTypeOK
    <3>2. AnsweredIsStored' /\ SentIsStored'
      BY DEF AnsweredIsStored, SentIsStored
    <3>3. ~renewed' => OneTerminal' /\ SentByItsTerminal'
      BY DEF OneTerminal, SentByItsTerminal, SignedByItsTerminal, RequestOfItsTerminal
    <3> QED BY <3>1, <3>2, <3>3
  <2> QED BY <2>1, <2>2
<1> QED BY <1>1, <1>2, PTL DEF Spec

(***************************************************************************)
(* The phone's state and its requests keep their shape; in particular      *)
(* every key the phone holds is one it generated.                          *)
(***************************************************************************)
THEOREM PhoneTypeCorrect == Spec => []PhoneTypeOK
<1>1. IInv => PhoneTypeOK
  BY DEF IInv
<1> QED BY <1>1, IInvHolds, PTL

(***************************************************************************)
(* What the phone shows as sent, and will never send again, is on the      *)
(* server, whatever the network loses and whenever the application dies.   *)
(***************************************************************************)
THEOREM SentStaysStored == Spec => []SentIsStored
<1>1. IInv => SentIsStored
  BY DEF IInv
<1> QED BY <1>1, IInvHolds, PTL

(***************************************************************************)
(* A phone on which no key is generated once it has its terminal or is     *)
(* getting it signs every ticket with the key of that terminal and has     *)
(* none rejected, however many enrollments failed or were cut short before.*)
(***************************************************************************)
THEOREM EnrolledOnceIsRight == Spec => []EnrolledOnceSignsRight
<1>1. IInv => EnrolledOnceSignsRight
  <2> SUFFICES ASSUME IInv, ~renewed, NEW t \in Ids
               PROVE  signed[t].dev = signed[t].key /\ local[t] # "error"
    BY DEF EnrolledOnceSignsRight
  <2>1. SignedByItsTerminal(t)
    BY DEF IInv, SentByItsTerminal
  <2> QED BY <2>1 DEF SignedByItsTerminal, NoSignature
<1> QED BY <1>1, IInvHolds, PTL

=============================================================================
