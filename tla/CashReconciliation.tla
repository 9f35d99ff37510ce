------------------------- MODULE CashReconciliation -------------------------
(***************************************************************************)
(* The daily closing of an agent's cash, the deposit the receiver counts   *)
(* against it and the resolution of a disputed deposit                     *)
(* (src/src/reconciliation/reconciliation.service.ts), over a ledger of    *)
(* tickets that goes on changing.                                          *)
(*                                                                         *)
(* The ledger is the abstract TicketLedger, which TransactionSync          *)
(* implements, overlapping syncs and stale cancellations included: as long *)
(* as a ticket is unsettled a save may still move it to another date or    *)
(* give it another kind.  A closing is identified by its agent and date,   *)
(* which are unique, and its total is kept as the set of tickets it sums.  *)
(***************************************************************************)
EXTENDS Persistence, Integers, Sequences, FiniteSetsExt

CONSTANTS
    Ids,          \* the tickets
    Agents,       \* the collecting agents
    AgentOf,      \* the agent who collected a ticket
    Amount,       \* what a ticket is worth
    Days,         \* the dates
    Threshold,    \* RECONCILIATION_THRESHOLD_FCFA
    Counted,      \* the amounts a receiver may count
    MaxDeposits,  \* bound: deposits recorded in all
    Closers,      \* slots of concurrent POST /reconciliation/closures
    Receivers,    \* slots of concurrent POST /reconciliation/deposits
    Mayors,       \* slots of concurrent PATCH /reconciliation/disputes/:id/resolve
    Mortal,       \* the slots whose requests may die at any await
    None          \* no closing, no date, no person

Keys == Agents \X Days

ASSUME CashAssumption ==
    /\ IsFiniteSet(Ids)
    /\ AgentOf \in [Ids -> Agents]
    /\ Amount \in [Ids -> Nat]
    /\ Threshold \in Nat
    /\ Counted \subseteq Nat
    /\ MaxDeposits \in Nat
    /\ None \notin Keys \cup Receivers \cup Mayors
    /\ \A tickets \in SUBSET Ids : tickets # None

VARIABLES
    ticket,    \* what the ledger holds of each ticket
    unsettled, \* the tickets that some request may still save
    day,       \* the server date a stored ticket carries
    closure,   \* cash_closures: the tickets summed for a key, None with no row
    deposit,   \* deposits, in the order of their insertion
    closing,   \* the closure requests in flight
    deposing,  \* the deposit requests in flight
    resolving  \* the resolve requests in flight

ledgerVars == <<ticket, unsettled, day>>
cashVars == <<closure, deposit, closing, deposing, resolving>>
vars == <<audit, ledgerVars, cashVars>>

Ledger == INSTANCE TicketLedger WITH safe <- {}

-----------------------------------------------------------------------------
(* The tickets of a day: findByAgent between the day's first and last      *)
(* instant, both included, and the rows that count.                        *)

Key(id) == <<AgentOf[id], day[id]>>

\* Variants with a plausible bug stand before the definition they change, for the
\* mutation checks; nothing else uses them.
WindowOfAnotherDay(k) == {id \in Ids : ticket[id] # "unknown" /\ Key(id) # k}
FoundByAgent(k) == {id \in Ids : ticket[id] # "unknown" /\ Key(id) = k}

Summed(k) == {id \in FoundByAgent(k) : ticket[id] = "counted"}

Total(tickets) == MapThenSumSet(LAMBDA id : Amount[id], tickets)

-----------------------------------------------------------------------------
(* The ledger meanwhile.  A sync takes its date when its batch starts and  *)
(* saves its tickets much later, so the dates come in any order; an        *)
(* overlapping sync that saves a ticket again gives it its own date, and a *)
(* cancellation of a stale copy writes the date of the copy back.          *)

TicketAdmitted(id) ==
    /\ Ledger!Begin(id)
    /\ UNCHANGED <<audit, day, cashVars>>

TicketSaved(id, kind, d) ==
    /\ Ledger!Save(id, kind)
    /\ day' = [day EXCEPT ![id] = d]
    /\ UNCHANGED <<audit, cashVars>>

\* The save of a stale copy writes the date, and not the status.
TicketRedated(id, d) ==
    /\ id \in unsettled /\ ticket[id] # "unknown"
    /\ day' = [day EXCEPT ![id] = d]
    /\ Ledger!MaySettle(id)
    /\ UNCHANGED <<audit, ticket, cashVars>>

TicketSettled(id) ==
    /\ Ledger!Settle(id)
    /\ UNCHANGED <<audit, day, cashVars>>

TicketCancelled(id, d) ==
    /\ Ledger!Cancel(id)
    /\ id \in unsettled \/ d = day[id]
    /\ day' = [day EXCEPT ![id] = d]
    /\ UNCHANGED <<audit, cashVars>>

LedgerStep(id) ==
    \/ TicketAdmitted(id)
    \/ \E kind \in Ledger!Kinds, d \in Days : TicketSaved(id, kind, d)
    \/ \E d \in Days : TicketRedated(id, d)
    \/ TicketSettled(id)
    \/ \E d \in Days : TicketCancelled(id, d)

-----------------------------------------------------------------------------
(* createClosure: the sum, then an INSERT under the unique index on agent  *)
(* and date.  The date comes from the caller.                              *)

NoClosing == [pc |-> "idle", key |-> None, tickets |-> {}]
ClosingRequest == {NoClosing} \cup [pc : {"insert"}, key : Keys, tickets : SUBSET Ids]

KeyTaken(k) == closure[k] # None

CloseFind(c, k) ==
    /\ closing[c] = NoClosing
    /\ closing' = [closing EXCEPT ![c] =
                      [pc |-> "insert", key |-> k, tickets |-> Summed(k)]]
    /\ UNCHANGED <<audit, ledgerVars, closure, deposit, deposing, resolving>>

CloseInsert(c) ==
    LET r == closing[c] IN
    /\ r.pc = "insert"
    /\ closure' = IF KeyTaken(r.key) THEN closure
                  ELSE [closure EXCEPT ![r.key] = r.tickets]
    /\ closing' = [closing EXCEPT ![c] = NoClosing]
    /\ UNCHANGED <<audit, ledgerVars, deposit, deposing, resolving>>

-----------------------------------------------------------------------------
(* createDeposit: the closing, the deposits of it, an INSERT that no       *)
(* constraint refuses, and the audit entry.                                *)

DepositStatus == {"ok", "litige", "resolved"}
Deposit == [closure : Keys, receiver : Receivers, amount : Counted,
            discrepancy : Int, status : DepositStatus,
            resolvedBy : Mayors \cup {None}]
Slips == 1 .. MaxDeposits

NoDeposing == [pc |-> "idle", key |-> None, amount |-> 0, total |-> 0, slip |-> 0]
DeposingRequest ==
    {NoDeposing} \cup
    [pc : {"check", "insert", "audit"}, key : Keys, amount : Counted,
     total : Nat, slip : Slips \cup {0}]

DepositsOf(k) == {s \in DOMAIN deposit : deposit[s].closure = k}

SignedExcess(discrepancy) == discrepancy > Threshold
Disputed(discrepancy) == discrepancy > Threshold \/ -discrepancy > Threshold

StatusFor(discrepancy) == IF Disputed(discrepancy) THEN "litige" ELSE "ok"

\* The agent signs for the receiver.
NewDepositByAgent(r, d) ==
    [closure |-> r.key, receiver |-> r.key[1], amount |-> r.amount,
     discrepancy |-> r.total - r.amount, status |-> StatusFor(r.total - r.amount),
     resolvedBy |-> None]

NewDeposit(r, d) ==
    [closure |-> r.key, receiver |-> d, amount |-> r.amount,
     discrepancy |-> r.total - r.amount, status |-> StatusFor(r.total - r.amount),
     resolvedBy |-> None]

InFlight == {d \in Receivers : deposing[d] # NoDeposing}

DepositFind(d, k, amount) ==
    /\ deposing[d] = NoDeposing
    /\ Len(deposit) + Cardinality(InFlight) < MaxDeposits
    /\ closure[k] # None
    /\ deposing' = [deposing EXCEPT ![d] =
          [pc |-> "check", key |-> k, amount |-> amount,
           total |-> Total(closure[k]), slip |-> 0]]
    /\ UNCHANGED <<audit, ledgerVars, closure, deposit, closing, resolving>>

AlreadyDisputed(k) == \E s \in DepositsOf(k) : deposit[s].status = "litige"
AlreadyDeposited(k) == DepositsOf(k) # {}

DepositCheck(d) ==
    /\ deposing[d].pc = "check"
    /\ deposing' = [deposing EXCEPT ![d] =
          IF AlreadyDeposited(deposing[d].key) THEN NoDeposing
          ELSE [deposing[d] EXCEPT !.pc = "insert"]]
    /\ UNCHANGED <<audit, ledgerVars, closure, deposit, closing, resolving>>

DepositInsertNotAwaited(d) ==
    /\ deposing[d].pc = "insert"
    /\ deposit' = Append(deposit, NewDeposit(deposing[d], d)) \/ UNCHANGED deposit
    /\ deposing' = [deposing EXCEPT ![d].pc = "audit",
                                    ![d].slip = Len(deposit) + 1]
    /\ UNCHANGED <<audit, ledgerVars, closure, closing, resolving>>

DepositInsert(d) ==
    /\ deposing[d].pc = "insert"
    /\ deposit' = Append(deposit, NewDeposit(deposing[d], d))
    /\ deposing' = [deposing EXCEPT ![d].pc = "audit",
                                    ![d].slip = Len(deposit) + 1]
    /\ UNCHANGED <<audit, ledgerVars, closure, closing, resolving>>

DepositAudit(d) ==
    LET r == deposing[d] IN
    /\ r.pc = "audit"
    /\ Record(IF StatusFor(r.total - r.amount) = "litige"
              THEN "DEPOSIT_DISPUTE_OPENED" ELSE "DEPOSIT_RECORDED", r.slip, d)
    /\ deposing' = [deposing EXCEPT ![d] = NoDeposing]
    /\ UNCHANGED <<ledgerVars, closure, deposit, closing, resolving>>

-----------------------------------------------------------------------------
(* resolveDispute: findOne, save (SELECT and UPDATE), audit.  resolvedBy   *)
(* stands for the notes and the date too, which are written with it.       *)

NoResolving == [pc |-> "idle", slip |-> 0, ent |-> None, loaded |-> None]
ResolvingRequest ==
    {NoResolving} \cup
    [pc : {"select", "update", "audit"}, slip : Slips,
     ent : Deposit \cup {None}, loaded : Deposit \cup {None}]

Resolvable(s) == deposit[s].status = "litige"

ResolveFind(m, s) ==
    /\ resolving[m] = NoResolving
    /\ s \in DOMAIN deposit
    /\ Resolvable(s)
    /\ resolving' = [resolving EXCEPT ![m] =
          [pc |-> "select", slip |-> s, loaded |-> None,
           ent |-> [deposit[s] EXCEPT !.status = "resolved", !.resolvedBy = m]]]
    /\ UNCHANGED <<audit, ledgerVars, closure, deposit, closing, deposing>>

ResolveSelect(m) ==
    /\ resolving[m].pc = "select"
    /\ resolving' = [resolving EXCEPT ![m].pc = "update",
                                      ![m].loaded = deposit[resolving[m].slip]]
    /\ UNCHANGED <<audit, ledgerVars, closure, deposit, closing, deposing>>

\* Only the columns that differ are written.
Saved(ent, loaded, row) ==
    [c \in DOMAIN row |-> Column(ent[c], loaded[c], row[c])]

ResolveUpdate(m) ==
    LET r == resolving[m] IN
    /\ r.pc = "update"
    /\ deposit' = [deposit EXCEPT ![r.slip] = Saved(r.ent, r.loaded, @)]
    /\ resolving' = [resolving EXCEPT ![m].pc = "audit",
                                      ![m].ent = None, ![m].loaded = None]
    /\ UNCHANGED <<audit, ledgerVars, closure, closing, deposing>>

ResolveAudit(m) ==
    /\ resolving[m].pc = "audit"
    /\ Record("DEPOSIT_DISPUTE_RESOLVED", resolving[m].slip, m)
    /\ resolving' = [resolving EXCEPT ![m] = NoResolving]
    /\ UNCHANGED <<ledgerVars, closure, deposit, closing, deposing>>

-----------------------------------------------------------------------------
(* The process dies, or a statement fails: the request is gone, what it    *)
(* wrote stays.                                                            *)

LoseClosing(c) ==
    /\ c \in Mortal /\ closing[c] # NoClosing
    /\ closing' = [closing EXCEPT ![c] = NoClosing]
    /\ UNCHANGED <<audit, ledgerVars, closure, deposit, deposing, resolving>>

LoseDeposing(d) ==
    /\ d \in Mortal /\ deposing[d] # NoDeposing
    /\ deposing' = [deposing EXCEPT ![d] = NoDeposing]
    /\ UNCHANGED <<audit, ledgerVars, closure, deposit, closing, resolving>>

LoseResolving(m) ==
    /\ m \in Mortal /\ resolving[m] # NoResolving
    /\ resolving' = [resolving EXCEPT ![m] = NoResolving]
    /\ UNCHANGED <<audit, ledgerVars, closure, deposit, closing, deposing>>

-----------------------------------------------------------------------------

Init ==
    /\ audit = {}
    /\ ticket = [id \in Ids |-> "unknown"]
    /\ unsettled = {}
    /\ day = [id \in Ids |-> None]
    /\ closure = [k \in Keys |-> None]
    /\ deposit = <<>>
    /\ closing = [c \in Closers |-> NoClosing]
    /\ deposing = [d \in Receivers |-> NoDeposing]
    /\ resolving = [m \in Mayors |-> NoResolving]

DepositStep(d) == DepositCheck(d) \/ DepositInsert(d) \/ DepositAudit(d)
ResolveStep(m) == ResolveSelect(m) \/ ResolveUpdate(m) \/ ResolveAudit(m)

Next ==
    \/ \E id \in Ids : LedgerStep(id)
    \/ \E c \in Closers :
          \/ \E k \in Keys : CloseFind(c, k)
          \/ CloseInsert(c)
          \/ LoseClosing(c)
    \/ \E d \in Receivers :
          \/ \E k \in Keys, amount \in Counted : DepositFind(d, k, amount)
          \/ DepositCheck(d)
          \/ DepositInsert(d)
          \/ DepositAudit(d)
          \/ LoseDeposing(d)
    \/ \E m \in Mayors :
          \/ \E s \in Slips : ResolveFind(m, s)
          \/ ResolveSelect(m)
          \/ ResolveUpdate(m)
          \/ ResolveAudit(m)
          \/ LoseResolving(m)

Spec == Init /\ [][Next]_vars

\* The process resumes a request when the database answers, unless it dies;
\* nothing obliges anybody to send one.
FairSpec ==
    /\ Spec
    /\ \A d \in Receivers \ Mortal : WF_vars(DepositStep(d))
    /\ \A m \in Mayors \ Mortal : WF_vars(ResolveStep(m))

-----------------------------------------------------------------------------
(* Properties.                                                             *)

CashAudit ==
    [action : {"DEPOSIT_RECORDED", "DEPOSIT_DISPUTE_OPENED"},
     entity : Slips, actor : Receivers] \cup
    [action : {"DEPOSIT_DISPUTE_RESOLVED"}, entity : Slips, actor : Mayors]

\* The shape of the tables and of the requests in flight.
CashTypeOK ==
    /\ audit \subseteq CashAudit
    /\ ticket \in [Ids -> Ledger!Kinds \cup {"unknown", "cancelled"}]
    /\ unsettled \subseteq Ids
    /\ day \in [Ids -> Days \cup {None}]
    /\ closure \in [Keys -> (SUBSET Ids) \cup {None}]
    /\ deposit \in Seq(Deposit) /\ Len(deposit) <= MaxDeposits
    /\ closing \in [Closers -> ClosingRequest]
    /\ deposing \in [Receivers -> DeposingRequest]
    /\ resolving \in [Mayors -> ResolvingRequest]

\* A deposit request that found none for the closing and is about to insert.
Inserting(k) == \E d \in Receivers : deposing[d].pc = "insert" /\ deposing[d].key = k
SettledClosure(k) == AlreadyDeposited(k) /\ ~Inserting(k)

\* A closing that has its deposit never gets another one, however many receivers
\* try, except from requests that had looked for it before it was inserted: once
\* those have ended the closing is settled for good (createDeposit).
SettledClosureIsFinal ==
    [][\A k \in Keys : SettledClosure(k) =>
         SettledClosure(k)' /\ DepositsOf(k)' = DepositsOf(k)]_vars

\* A deposit is disputed, open or resolved, exactly when the amount counted is
\* further from the total of its closing than the threshold, on either side;
\* the total read two statements earlier, resolutions and the saves of stale
\* copies keep the figures and the status in agreement.
FiguresAgree ==
    \A s \in DOMAIN deposit :
        LET row == deposit[s]
            total == Total(closure[row.closure])
        IN  /\ row.discrepancy = total - row.amount
            /\ row.status = "ok" <=>
                  row.amount \in (total - Threshold) .. (total + Threshold)

\* The log never tells of a deposit or of a resolution that did not happen:
\* record is called after the save it reports, which may fail or die before.
LogIsTruthful ==
    \A entry \in audit :
        /\ entry.entity \in DOMAIN deposit
        /\ LET row == deposit[entry.entity] IN
           CASE entry.action = "DEPOSIT_RECORDED" ->
                  row.receiver = entry.actor /\ row.status = "ok"
             [] entry.action = "DEPOSIT_DISPUTE_OPENED" ->
                  row.receiver = entry.actor /\ row.status # "ok"
             [] OTHER -> row.status = "resolved"

\* Whom a row names as its receiver, and as the one who resolved it, the log
\* names too, or is about to, even when two mayors resolve one dispute and the
\* last one to save is the one the row keeps ("doit rester tracée", the comment
\* of resolveDispute).  Only a request that dies escapes the log.
MoneyIsTraced ==
    \A s \in DOMAIN deposit :
        LET d == deposit[s].receiver
            m == deposit[s].resolvedBy
        IN  /\ \/ d \in Mortal
               \/ \E action \in {"DEPOSIT_RECORDED", "DEPOSIT_DISPUTE_OPENED"} :
                     Entry(action, s, d) \in audit
               \/ deposing[d].pc = "audit" /\ deposing[d].slip = s
            /\ deposit[s].status = "resolved" =>
               \/ m \in Mortal
               \/ Entry("DEPOSIT_DISPUTE_RESOLVED", s, m) \in audit
               \/ resolving[m].pc = "audit" /\ resolving[m].slip = s

\* A ticket that the ledger holds, with no sync left that may still save it,
\* before the closing of its day is read.
InTime(id) ==
    /\ id \notin unsettled
    /\ \/ ticket[id] = "cancelled"
       \/ /\ ticket[id] = "counted"
          /\ closure[Key(id)] = None \/ id \in closure[Key(id)]
          /\ \A c \in Closers :
                closing[c].key = Key(id) => id \in closing[c].tickets

\* A ticket that is in the ledger for good before the closing of its day is read
\* is in the total whichever of the concurrent closings is inserted, unless it
\* is cancelled.  (A ticket that is stored, or moved to that day by a retry that
\* overlaps, after the closing is in no total: the closing is computed once and
\* the unique index refuses a second one.)
CollectedIsClosed ==
    [][\A id \in Ids : InTime(id) => InTime(id)']_vars

\* A deposit or a resolution that was let through takes effect, its own or that
\* of the request that came first, as long as it does not die.
RequestsTakeEffect ==
    /\ \A d \in Receivers \ Mortal, k \in Keys :
          (deposing[d].key = k) ~> AlreadyDeposited(k)
    /\ \A m \in Mayors \ Mortal, s \in Slips :
          (resolving[m].slip = s) ~>
              (s \in DOMAIN deposit /\ deposit[s].status = "resolved")

\* What createDeposit answers to a second deposit: one exists already.
OneDepositPerClosure == \A k \in Keys : Cardinality(DepositsOf(k)) <= 1

=============================================================================
