# Besewu: a TLA+ development

Besewu collects market taxes in the field. Agents collect tickets offline on
phones that sign them; the phones send them in batches to a NestJS backend over
PostgreSQL; supervisors cancel tickets and block terminals; receivers record
cash deposits. This directory holds TLA+ modules about that code, the TLC
configurations that check them, and proofs that TLAPS checks.
Paths are relative to the root of the repository, which is called `src/` here,
so the backend is under `src/src/` and the phone under `src/mobile/lib/`.

## 1. Inventory

| Component | State | Operations | Interacts with | Hard behaviour | What makes it correct |
|---|---|---|---|---|---|
| transactions (`src/src/transactions`) | table of tickets, with hash chain per agent | sync a batch, cancel, verify the chain, public lookup | devices (status, once per batch), audit, phones | requests interleave at every await; no database transaction or lock; retries overlap; crashes between a write and its audit entry; equal server dates in a batch | a stored ticket stays stored and, once no request may still save it, is changed by its cancellation only; an acknowledged ticket is stored; the chain rests on the tickets of its agent and verifies; nothing is flagged silently |
| devices (`src/src/devices`) | table of terminals: key, agent, status, lastSyncAt | enroll, block, revoke, touchLastSync | auth and sync read the status, audit | two administrators at once; stale save; enrollment races | a block can be undone, a revocation cannot; both take effect and are audited |
| audit (`src/src/audit`, the interceptor) | append-only log | record | called by every service | unawaited record in the interceptor; not atomic with what it records | what the log says happened, and what happened is in it |
| auth and users (`src/src/auth`, `src/src/users`) | failure counter, lock date; JWT | login, increment, reset, unlock | devices (agent's terminal must be active), audit | concurrent logins on one counter; lock at exactly five | too many failures lock, and only a supervisor lifts a hard lock; a token names an agent and its own terminal |
| reconciliation (`src/src/reconciliation`) | closures, deposits, disputes | createClosure, createDeposit, resolveDispute | reads transactions, audit | check-then-insert without constraint; total computed once | one closure a day, one deposit a closure, the total matches the tickets |
| phone: queue (`transaction_repository.dart`, `data/local`) | local tickets with a sync status, last sync date | collect, syncPending, markSynced | backend sync | lost answers, overlapping syncs, batches above the limit, re-enrollment | no ticket lost, none sent for ever, status agrees with the server |
| phone: key store and session (`core/crypto`, `core/storage`, enrollment and login screens) | key pair, cached key pair, terminal id, session | generate, persist, sign, enroll, log in and out | devices, auth | non-atomic writes, cache ahead of storage | the key that signs is the key of the stored terminal id |
| guards, JWT strategy, validation | none | filter requests | all handlers | none | - |
| health, configuration, migrations, seed, screens, platform folders | none | I/O, start-up, layout | - | - | - |

The hazards of this code, line by line, are in `PROJECT.json` under `hazards`,
each with the properties that would show it going wrong.

## 2. Plan

Built, in this order: `DeviceRegistry`, `TicketLedger`, `TransactionSync` and
their proofs; then `Persistence` (what all requests share), `CashReconciliation`,
`TerminalLife`, `Lockout`, `LoginSession`, `DeviceKeyStore` and `PhoneQueue`.

How they are put together:

    Persistence <- DeviceRegistry <- TransactionSync      (EXTENDS)
    Persistence <- LoginSession, CashReconciliation
    DeviceKeyStore <- PhoneQueue
    DeviceRegistry  implements  TerminalLife, used by LoginSession, DeviceKeyStore
    TransactionSync implements  TicketLedger, used by CashReconciliation, PhoneQueue
    LoginSession    implements  Lockout

The server's tickets and terminals are large state machines. The components that
only look at them compose with their abstract specification; a run shows that the
detailed module implements it and a theorem proves it, without any hypothesis on
the behaviour: requests may overlap and die as they like.

Proofs are in modules of their own, which extend the module they are about:

    DeviceRegistryProofs <- TransactionSyncProofs <- TransactionAuditProofs
                                                  <- TransactionLedgerProofs
                                                  <- TransactionChainProofs
    CashReconciliationProofs, LoginSessionProofs, PhoneQueueProofs

Every safety property and every refinement that a passing run checks is also a
theorem, but for `DeactivationIsAudited`. What is left for later: what can be
said of the chain of an agent whose syncs do not overlap, for any number of
tickets, and what of `MoneyIsTraced` can be said of a mortal request.

## 3. Modules

**How time is cut.** The backend is one Node.js process. Between two awaits a
request runs alone, and every await in the code modelled is one statement of
PostgreSQL at its default isolation (there is no transaction around several of
them; `save()` of TypeORM opens one only around its own INSERT or UPDATE). One
action is therefore one statement and the code that follows it up to the next
await. The rest of the request is in a record whose field `pc` names the await
it is at. `repository.save(entity)` of an entity with a primary key is two
statements, and both are modelled: a SELECT, then an INSERT if it found nothing,
or an UPDATE of the columns that differ between the entity and what it found
(`Column`, `Written`). An INSERT that meets the row of another request fails on
the primary key and the request ends with a 500 (`SyncConflict`).

**Persistence** has the audit log and the two shared writes: `Record` is
`AuditService.record`, `Column` one column of the UPDATE of a `save()`.

**DeviceRegistry.** `status[d]` is the table of terminals, `"absent"` when there
is no row. A terminal stands for its key pair, because `publicKey` is unique.
`EnrollFind`/`EnrollInsert`/`EnrollConflict` are `enroll`;
`AdminFind`/`AdminSelect`/`AdminUpdate`/`AdminAudit` are `block` and `revoke`,
which differ by the status they write and the action they audit. The columns
`blockedReason` and `lastSyncAt` are not modelled: nothing in the backend reads
them. **TerminalLife** is what the statements of all these requests come down to,
and what the others meet: a terminal is enrolled once, and once it exists it may be
blocked or revoked at any moment, whatever it was. It is not what the comments
announce: they call a block reversible and a revocation irreversible, and in the
code it is the other way round. `RevocationIsFinal` states the comment of revoke,
and a run refutes it. That a block can be undone is refuted by
`ImplementsTerminalLife` itself: it says that the requests there are, whatever their
interleaving, stale saves and deaths, do nothing to the table but enroll an absent
terminal and deactivate an existing one, so a block is never undone. Both
disagreements are in `findings`.

**TransactionSync** extends DeviceRegistry, so its steps interleave with those
of enroll, block and revoke.

| Code (`transactions.service.ts`) | Definition |
|---|---|
| findById, status check (47-50) | `SyncOpen`, `RejectDevice` for the 403 and its audit entry |
| `const now` (66) | `StartBatch` |
| findOne of an item (69-85) and what follows | `SkipDuplicate`, `DetectBadSignature` then `RejectSignature`, `AdmitItem` |
| getLastHashForAgent (103, 236-242), hash, create (99-129) | `ReadLastHash` with `LastHashes`, `NewRow` |
| save (131) | `SyncSelect`, then `SyncInsert`, `SyncConflict` or `SyncUpdate` |
| audit of the flag (133-141), push (143) | `AuditFlag`, `Settle` |
| touchLastSync, answer (146-148) | `SyncRespond` |
| cancel (175-196) | `CancelFind`, `CancelSelect`, `CancelWrite`, `CancelAudit` |
| findByAgent, verifyChainIntegrity (198-234) | `ChainOrders`, `ChainVerifies` |

Abstractions: a ticket stands for its id, since its content never changes after
`collect`; `Signer` and `LocalTime` give the parts the server looks at. SHA-256
is injective: a hash is the sequence of what was hashed into it. A batch is a
set, taken in any order. `Holds` says which tickets the phone of a terminal can
send; a phone that was enrolled again (`EnrolledAgain`) sends the tickets that
its old key signed under its new terminal. The agent of a request is the agent
of its terminal, which login ensures. Among rows of equal `serverTimestamp` any
may come first, in `LastHashes` and in `ChainOrders`: the code gives no second
sort key. The server's clock never goes back. Requests that change nothing
(404, "déjà annulée", an empty or oversized batch refused by validation) are
guards. The generic `HTTP_*` entries of the audit interceptor are not modelled.
`LoseSync`, `LoseCancel`, `LoseAdmin` and `LoseEnroll` are the end of a request
at any await, by the death of the process, an error of the database or, for the
last step of a sync, an answer that never arrives; what was written stays.

**TicketLedger** is the abstract specification. A ticket is unknown, counted,
flagged or cancelled. It is *unsettled* while some request may still save it
without having seen its row: from then on a save may give it any kind, also after it
was cancelled. Only an unknown ticket becomes unsettled (`Begin`); one that is
stored and settled is never unsettled again, and only its cancellation changes it.
A stored ticket stays stored, and an agent is told "safe" only of stored tickets.
`ImplementsLedger` states that TransactionSync implements it, overlapping syncs and
cancellations included, with the status column as the state of a ticket and the
answers accepted, duplicate and flagged as "safe". `Unsettled` has the ticket of
every sync between its findOne and its save, and that of every cancellation whose
copy a sync has overtaken (`CopyIsCurrent`): such a copy writes back the date, the
link and the hash it was made with.

**CashReconciliation** (`reconciliation.service.ts`). A closing is known by its
agent and date (`closure[k]`, unique index), and keeps the set of tickets it
summed, so that what it left out can be told; `Total` is the sum. `deposit` is
the table of deposits in the order of insertion, without any unique index.
`CloseFind`/`CloseInsert` are createClosure (32-43), `DepositFind`/`DepositCheck`/
`DepositInsert`/`DepositAudit` are createDeposit (49-84), `ResolveFind`/
`ResolveSelect`/`ResolveUpdate`/`ResolveAudit` are resolveDispute (90-112). The
ledger changes meanwhile by the actions of TicketLedger: a ticket is stored with
any date, because a sync takes the date before its loop and may store much later;
as long as it is unsettled a save moves it to another date (`TicketSaved`,
`TicketRedated`) or gives it another kind, and a cancellation may write back the
date of its copy.
`resolvedBy` stands for the notes and the date written with it. `Mortal` are the
slots whose requests may die at any await: the properties about the log are said
of the others, and liveness too.

**LoginSession** (`auth.service.ts`, `users.service.ts`). `account` has the two
columns a login changes. `LoginFind` reads the row once and is the only place
where the lock is looked at; an agent's terminal is checked by `CheckDevice`;
`VerifyPin` changes the copy of the row; `LoginSelect`/`LoginUpdate` are its
save; `FailLogin`, `RejectLogin` and `SignToken` write the audit entry, and the
last signs the token. Only active users are modelled. A user is an agent or not
and patient (waits for each answer) or not, chosen once in `Init`.
**Lockout** is the abstract lockout: a failure, possible only without a lock,
counts one more and locks at exactly `SoftLimit` and from `HardLimit` on; a
success, possible only without a lock too, clears. Its comment tells what it allows
between the two limits.
`ImplementsLockout` is about patient users. For the others the code does not
implement it: overlapping failures are counted once, and a success that had read
the row before a hard lock clears its columns one by one, possibly leaving a
count of 0 with an endless lock.

**DeviceKeyStore** (`ed25519_key_service.dart`, `secure_storage_service.dart`, the
enrollment, login and home screens). `cache` is the key in memory, `storedKey` and
`storedId` the two entries of the secure storage. `GenerateKeyPair`,
`EnrollOnServer`, `WriteKey`, `WriteId` are `_enroll`, one action per await, with
`EnrollFails` wherever one of them throws; `enrolling[k]` is how far the enrollment
that generated k has come. Several may be under way, since `_loading` belongs to one
instance of the screen. Enrolling takes a session of a supervisor, so none of an
agent (`session = None`). `AgentLogin` gives a session whose token names the stored
terminal; `SignOut` is the button of the home screen and the lock of the splash
screen. A key stands for the terminal enrolled with it, and is
numbered in the order of generation. `renewed` is a history
variable: a key was generated although the phone had its terminal, or was getting
it.

**PhoneQueue** (`transaction_repository.dart`, `data/local`) extends it.
`CollectStart`/`CollectSign`/`CollectInsert` are collect, of any number of tickets at
once; `SyncStart` and `MarkSynced`, one row at a time, are syncPending. Between them
the server works on the request at the awaits of the body of its loop, with tickets
seen through TicketLedger: `ServerCheckDevice`, `ServerKnows` (duplicate),
`ServerRejects`, `ServerAdmits` (the findOne that found nothing), `ServerSelects`
and `ServerSaves` (the two statements of save), `ServerAnswers`. Overlapping syncs
interleave between them, so a save may be an UPDATE of a ticket that another sync
stored, or that was cancelled since, and each sync answers what it saved.
`PhoneGivesUp` is the timeout: the server goes on and its answer is dropped.
`ServerFails` is a lost request, a failed statement, a conflict or the death of the
server. `Restart` kills the application: the storage and the server's requests
survive.

**MCTransactionSync**, **MCCashReconciliation** and **MCLoginSession** give TLC the
function-valued constants.

The definitions named as a variant, just before the definition they vary
(`NeverKnown`, `KeyNotUnique`, ...), are plausible bugs used to check that each
property can fail; nothing else uses them.

## 4. What the runs check

Runs that pass:

| Run | Instance | What it shows |
|---|---|---|
| `registry_faults` | two keys, two enrollments, two blocks or revocations at once, faults | what the log tells was done, wherever a request dies; no key is enrolled twice; TerminalLife is implemented |
| `sync_overlap` | one ticket, two overlapping syncs of it, by its phone and by the same phone enrolled again for another agent; a cancellation before, while and after; two dates, faults | acknowledged is stored; flags and rejections that were answered are audited; a row belongs to the signer and links to nothing foreign; a settled ticket is changed by its cancellation only; TicketLedger is implemented |
| `sync_answers` | two tickets, one of them flagged, one sync at a time, two blocks or revocations at once, no faults | every ticket of a batch gets an outcome in that sync, resent ones too; blocks and revocations take effect and are in the log, each under its own action, and so are flags; a terminal out of use is silent once its requests have ended |
| `cash` | a day of an agent with one ticket of 2 and a threshold of 1; a closing, two deposits (of 0, 1 or 2) and two resolutions at once; the closing, a receiver and a mayor are mortal; the ledger saves stale copies and revives a cancelled ticket | figures and status of a deposit agree; the log says nothing that did not happen, and names who the rows name; a ticket that was settled before the closing was read is in it; a closing with its deposit is settled; what is let through takes effect |
| `login` | one user of any role and habit, two logins at once or in turn, two terminals enrolled, blocked and revoked meanwhile, limits 2 and 4, faults | no token for a terminal out of service; Lockout is implemented |
| `phone` | one ticket, two keys, enrollments and two syncs at once, losses, kills | what the phone shows as sent is on the server; until a key is generated besides that of its terminal, the phone signs right and is never rejected, and what is pending is delivered: however the first enrollment was cut short and tried again, and though two syncs send a ticket at once and mark it by different answers |

Runs that find a disagreement between the code and what it says of itself (one
property each; `PROJECT.json` quotes the line):

| Run | Property | What happens |
|---|---|---|
| `registry_revoke` | `RevocationIsFinal` | a block undoes a revocation |
| `sync_fork` | `ChainVerifiesInSomeOrder` | three tickets in one batch share their server date, the third is linked to the first: the chain forks without any concurrency, and in no order of the rows does it verify |
| `sync_resurrect` | `CancelledIsFinal` | the save of an overlapping sync turns a cancelled ticket back to synced |
| `cash_twice` | `OneDepositPerClosure` | two receivers at once record two deposits for one closing |
| `login_unlock` | `HardLockIsFinal` | a login that read the account before the last failure succeeds and clears the hard lock |
| `phone_failed_enrollment` | `OneTerminalSignsRight` | after an enrollment that failed, a phone signs with the other key for its terminal |

Two more disagreements show in properties that hold. `ImplementsTerminalLife`
(`registry_faults`) leaves no step that undoes a block, which the comments call
reversible. `SettledTicketIsFinal` (`sync_overlap`) keeps the flag of a ticket that is
sent again, of which the comment of the entity says that a resend may update it.

What the models also show, as the edge of a property above:

- the chain of two tickets with one server date may be verified in the wrong
  order and reported broken (`ChainVerifiesInSomeOrder` asks for one order only),
  and two terminals of an agent that sync at once link to one previous ticket;
- a batch that passed the status check goes on storing after its terminal was
  blocked (`Drained` in `DrainedDeviceIsSilent`), and a login that passed its
  check still signs a token (`OutOfServiceIsFinal`);
- `MoneyIsTraced` excepts mortal requests: one that dies between its save and its
  audit entry leaves none. It is the same with `FlagIsNeverSilent` and
  `DeactivationIsAudited`, which are checked without faults: with `Faults = TRUE` a
  ticket is flagged, or a terminal blocked, without an entry, and no retry writes it;
- of two cancellations at once the second is not refused, and takes over the name
  and the reason of the first (`SettledTicketIsFinal` does not speak of the name);
- a ticket stored after the closing of its day, or moved to it by the late save of
  an overlapping sync, is in no closing (`CollectedIsClosed`), and a second closing
  is refused; one that was moved away after it was summed is in two;
- a ticket of which two syncs overlap may be answered twice, once as accepted and
  once as flagged, and shows on the server only the last (`SettledTicketIsFinal`
  speaks of it once both have saved);
- between the two limits, failures after the lock ran out lock nothing (`Lockout`);
- a phone enrolled again: its pending tickets were signed for the old terminal
  and are rejected for good; killed between the two writes, its key is not that
  of its terminal (`renewed` in `EnrolledOnceSignsRight`);
- a flagged ticket whose answer was lost is shown as synced (`SentIsStored` does
  not tell "synced" from "flagged" on the server);
- more than `BatchMax` pending tickets are never sent (`PendingIsDelivered`).

"One sync at a time" is a bound of `sync_answers` only, which keeps its liveness
check small, and the code does not ensure it: a client that times out after 15
seconds and retries, or a second tap on the sync button from another instance of
the screen, breaks it. Its `DrainedDeviceIsSilent` and `FlagIsNeverSilent` are proved
for any number of overlapping syncs.

**Bounds.** The two tickets of `sync_answers` give the orders within a batch; three
are needed only for the chain, where the first fork inside a batch takes three. One
ticket is enough in `sync_overlap` for the properties that speak of the writers of
one row. Of `ChainIsGrounded` it shows little, since a ticket alone can only be linked
to an earlier save of itself, by the right terminal or a wrong one; what tickets of
several agents do to each other's chains is in the theorem `ChainGrounded`, and what
a batch cut short between two of its tickets does is in `AcknowledgedIsStored` and
`LedgerImplemented`. With two tickets and a cancellation the instance is past what
can be checked each time. Two sync slots are the least in which two requests overlap; a supervisor cancels
copies of the ticket that are as old as they like, and the theorems have any number
of supervisors. `MaxClock` 1 with `MaxDrift` 1
gives tickets on time and, for the ticket dated two ahead, flagged or not
according to when it arrives. A slot is free again when its request ends, so the number of
requests is not bounded. `SlotSymmetry` exchanges the sync slots and
`LoginSymmetry` the login slots, which nothing orders; both are used where no
liveness is checked. CHECK_DEADLOCK is left on: a request can always be opened.

In `sync_answers` the clock stands still: liveness does not depend on it, and
with it at 0 one ticket is on time and one is flagged. In `cash` one ticket of 2
against a threshold of 1 and amounts of 0, 1 and 2 give a discrepancy of every
sign, beyond the threshold and just at it; two deposits are the least in which two
receivers race. With one date and one ticket, what a sync still unsettles is revived
or saved late, and never moved to another day: `CollectedGetsClosed` proves
`CollectedIsClosed` for any days, tickets and closings at once.
In `login` the two limits 2 and 4 have one failure between them and a clock of two
dates lets a lock run out; the count needs no bound, since a lock for good ends
the attempts. `phone` has one ticket, as tickets meet only in the size of the
batch, two keys for a second enrollment, and two slots for overlapping syncs.
`MaxDeposits` and `MaxClock` are the only bounds in guards.

**Fairness.** On the server, weak fairness is on the steps of a request that has
started: Node.js resumes it when the database answers, and without faults the
database does (`FairSpec` of TransactionSync for blocks, revocations and syncs,
of CashReconciliation for the slots that are not mortal). Nothing obliges a
person to send a request, and the clock may stop.
On the phone nothing happens by itself: sync is a button. `FairSpec` of PhoneQueue
therefore says what delivery needs of the world: the agent signs in and goes on
pressing the button, and at last the disturbances (`Disturbance`: kills, losses,
timeouts, logging out) stop for long enough; only the steps of the server and
the marking of an answer are the program's own.

## 5. What is proved

For any number of tickets, terminals, agents, users and concurrent requests,
with or without faults unless the table says otherwise:

| Module | Theorem | Statement |
|---|---|---|
| DeviceRegistryProofs | `RegistryTypeCorrect` | `RegistrySpec => []RegistryTypeOK` |
| | `TerminalLifeImplemented` | the registry implements TerminalLife |
| | `DeactivationLogTruthful` | a terminal that the log says was blocked or revoked is out of use |
| TransactionSyncProofs | `TypeCorrect` | `Spec => []TypeOK` |
| | `AcknowledgedIsStored` | a ticket acknowledged to a phone is in the table |
| | `StoredIsSigned` | a row belongs to the terminal that signed its ticket |
| | `DrainedIsSilent` | a terminal out of use whose requests have ended stores nothing again |
| TransactionAuditProofs | `OutcomesAudited` | an answer that flags or rejects has its entry in the log |
| | `FlagNeverSilent` | if `~Faults`, every flagged row has its entry, or a sync about to write it |
| TransactionLedgerProofs | `SettledIsFinal` | a ticket that is stored and settled is changed by its cancellation only |
| | `LedgerImplemented` | TransactionSync implements TicketLedger |
| TransactionChainProofs | `ChainGrounded` | the hashes of an agent's tickets were computed over stored tickets of that agent |
| CashReconciliationProofs | `CashTypeCorrect` | `Spec => []CashTypeOK` |
| | `FiguresAlwaysAgree` | discrepancy and status of a deposit follow from its amount, its closing and the threshold |
| | `LogStaysTruthful` | an entry of the log tells of a deposit or resolution that happened |
| | `MoneyStaysTraced` | the log names who the rows name, or a request is about to, mortal requests excepted |
| | `SettledStaysSettled` | a closing that has its deposit never gets another, once no request is past its search |
| | `CollectedGetsClosed` | a ticket stored and settled before its closing is read is in it, unless cancelled |
| LoginSessionProofs | `LoginTypeCorrect` | `Spec => []LoginTypeOK`: among others, a token names a terminal of its agent |
| | `OutOfServiceFinal` | a terminal out of service gets no token once the logins past its check have ended |
| | `LockoutImplemented` | for patient users, the login implements Lockout |
| PhoneQueueProofs | `PhoneTypeCorrect` | `Spec => []PhoneTypeOK` |
| | `SentStaysStored` | what the phone shows as sent is on the server, whichever overlapping sync marked it |
| | `EnrolledOnceIsRight` | a phone on which no key is generated besides that of its terminal signs right and has nothing rejected |

The assumptions on the constants are those their modules name:
`RegistryAssumption`, `SyncAssumption`, `RowAssumption`, `CashAssumption`,
`LoginAssumption`, `KeyStoreAssumption` and `QueueAssumption`. They are types,
the fresh value `None`, limits that are numbers, and, for the cash, a finite set
of tickets: a total over an infinite one means nothing.

**The hypothesis.** `~Faults`, of `FlagNeverSilent` alone, is there because the
property is false otherwise: a request that dies between the save and the entry
leaves a flag that nothing tells of. No other theorem assumes
anything of the behaviour: requests of one terminal, of one agent and of one phone
may overlap without limit.

**Syncs.** The inductive invariant `IInv` of TransactionSyncProofs is `TypeOK`,
`RequestsConsistent`, `Acknowledged` and `SignedByItsDevice` together. The last
two are not inductive alone: what an INSERT or UPDATE writes was decided several
awaits earlier, so one has to know what each request in flight carries, and that
rows found once are still there. `RequestsConsistent`, which is of the proof module,
says that. There is one lemma for each action; `SyncFrame` and
`CancelFrame` reduce a step to the request it is a step of. `DrainedIsSilent`
rests on the same invariant: a row appears only by the INSERT of a request past
the signature check (`RowsAreOnlyInserted`), that request is of the terminal that
signed (`SignedByItsDevice`), and no request of an inactive terminal gets there
(`DrainedStaysDrained`).

**Audit.** The log only grows, so an entry once written stays; what is left is
the step that creates the obligation. For flags, a cancellation that saves a copy
of the row writes the flag of that copy: the invariant adds that such a copy is
one the log explains (`CopiedFlagsAreKnown`).

**Ledger.** The invariant adds to `IInv` that what a sync saves is never cancelled
and what a cancellation saves always is (`SavedKinds`). A step is looked at one
ticket at a time: `Seen(id)` is what the refinement mapping shows of it and
`Open(id)` whether some request unsettles it. `NextMoves` says that a step shows
something of one ticket at most and does to it one of four things (`Moves`), which
`MovesRefine` turns into the actions of TicketLedger. Two facts carry it: a request
that reads a stored ticket never opens it, because the sync answers duplicate and the
copy of a cancellation is current when it is made (`CancelReadMoves`); and a copy
that is current at the time of its save changes nothing but the status
(`CurrentCopyIsSaved`). `SettledIsFinal` uses the same case split (`AtRestStep`).

**Chain.** `ChainInv` says that everything hashed into the two hashes of a row is a
stored ticket of its agent, named with the terminal that signed it, and the same of
the copies that syncs and cancellations are about to save; the hash of a sync may
also hold the ticket that this sync is about to store. Rows are never deleted, a
save takes each hash from the copy or leaves that of the row (`WrittenOver`), and
the last hash of an agent is that of a row of the agent (`LastHashIsOver`).

**Registry.** `TerminalLifeImplemented` needs, besides the types, that the row a
block or a revocation found is still there when it saves (`FoundRowsStay`):
otherwise its UPDATE would be an enrollment. `DeactivationLogTruthful` needs that a
request about to write its entry has put its terminal out of use, even when it
loaded an inactive row and its UPDATE wrote nothing (`LogInv`).

**Cash.** A deposit is written from what its request read two statements before,
a resolution from a copy that may be stale; `DeposingConsistent` and
`ResolvingConsistent` constrain them from the moment they read. Figures are never
rewritten (`SameFigures`) and a status goes one way, so a stale save does no harm.
`RoomIsKept` counts the requests that wait to insert against `MaxDeposits`. That
`Total` is a number, and adds up, is a fact about a sum over a finite set: it is
proved for the sums up to each size, with an induction over the naturals in the
form of a set (`InductiveSetIsNat`), because the induction theorems of the library
take an operator that the provers here cannot instantiate.

**Login.** The type of the tokens rests on what the login checked before it signs
(`LoginChecked`); the refinement of Lockout on the copy that a patient user's
login carries, which is that of the row, one failure or one success away from it
(`PatientLogin`).

**Phone.** What is shown as sent was answered before it was marked
(`AnsweredIsStored`), and the ledger never forgets a ticket; a sync that is about to
UPDATE has found its ticket stored (`FoundStored`). As long as `renewed` is FALSE,
`OneTerminal` and `SentByItsTerminal` say that the key in memory, the key in storage,
the terminal in storage, the session, the collections under way and every request in
flight are of one terminal.

The strengthened invariants were checked with TLC before they were proved.

**Only model-checked.** Liveness, since fairness is out of the reach of the prover:
`BatchIsAnswered`, `DeactivationCompletes`, `RequestsTakeEffect` and
`PendingIsDelivered`. And one safety
property, `DeactivationIsAudited`, which holds only if no request dies.

## 6. Not modelled

See `components` in `PROJECT.json`.

- Guards, roles, validation and the JWT strategy are filters without state.
- Health, configuration, seed, migrations and screens are I/O and start-up; the
  constraints of the schema are modelled where they bite.
- Reads change nothing: verifyPublicly, findOpenDisputes, the audit listing.
- `lastSyncAt` on the server is written and never read. The phone's own date of
  the last sync is read by the splash screen only, which logs out a phone that
  did not synchronise for `MAX_OFFLINE_HOURS`: `SignOut` stands for that lock, which
  the model does not bind to any date. The expiry of a token after eight hours is not
  modelled; it ends in a new login, which PhoneQueue has.
- The generic `HTTP_*` entries of the audit interceptor say nothing of what a
  request did. They are not awaited, and a failing one ends the process, which
  is among the faults of every module.
- `UsersService.create` and `unlockWithOtp` have no caller, so a hard lock is for
  good in the model as in the code.
- Clock adjustments that take the server back in time, and more than one server
  process, are outside the model; a second process would add nothing to the
  interleavings, which are already at the grain of one statement.
