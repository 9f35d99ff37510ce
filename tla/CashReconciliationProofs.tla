---------------------- MODULE CashReconciliationProofs ----------------------
(***************************************************************************)
(* Proofs about CashReconciliation, for any tickets, amounts, threshold    *)
(* and dates, any number of concurrent requests and any of them mortal.    *)
(***************************************************************************)
EXTENDS CashReconciliation, FiniteSetTheorems, SequenceTheorems,
        WellFoundedInduction, TLAPS

(***************************************************************************)
(* The inductive invariant.  A deposit is written from what its request    *)
(* read two statements before, and a resolution from a copy that may be    *)
(* stale, so both are constrained from the moment they read.               *)
(***************************************************************************)

\* The bound on the deposits leaves room for those under way.
Waiting == {d \in Receivers : deposing[d].pc \in {"check", "insert"}}
RoomIsKept ==
    /\ IsFiniteSet(InFlight)
    /\ Len(deposit) + Cardinality(Waiting) <= MaxDeposits

KnownIsDated == \A id \in Ids : ticket[id] # "unknown" => day[id] \in Days

\* The closing a deposit is for is in the table, and its total is what it was.
DeposingConsistent(d) ==
    /\ deposing[d] # NoDeposing =>
          /\ closure[deposing[d].key] # None
          /\ deposing[d].total = Total(closure[deposing[d].key])
    /\ deposing[d].pc = "audit" =>
          /\ deposing[d].slip \in DOMAIN deposit
          /\ deposit[deposing[d].slip].receiver = d
          /\ deposit[deposing[d].slip].status = "ok"
                <=> StatusFor(deposing[d].total - deposing[d].amount) = "ok"

\* Only the status and the author of a resolution may differ between a row, the
\* copy a resolution found and the one its save loaded, and they go one way.
SameFigures(row, copy) ==
    /\ copy.closure = row.closure /\ copy.receiver = row.receiver
    /\ copy.amount = row.amount /\ copy.discrepancy = row.discrepancy

ResolvingConsistent(m) ==
    /\ resolving[m] # NoResolving =>
          /\ resolving[m].slip \in DOMAIN deposit
          /\ deposit[resolving[m].slip].status # "ok"
    /\ resolving[m].pc \in {"select", "update"} =>
          LET ent == resolving[m].ent
          IN  /\ ent \in Deposit
              /\ SameFigures(deposit[resolving[m].slip], ent)
              /\ ent.status = "resolved" /\ ent.resolvedBy = m
    /\ resolving[m].pc = "update" =>
          LET row == deposit[resolving[m].slip]
              loaded == resolving[m].loaded
          IN  /\ loaded \in Deposit
              /\ SameFigures(row, loaded)
              /\ loaded.status # "ok"
              /\ loaded.status = "resolved" => row.status = "resolved"
              /\ loaded.status = "litige" => loaded.resolvedBy = None
    /\ resolving[m].pc = "audit" => deposit[resolving[m].slip].status = "resolved"

RowConsistent(s) ==
    /\ closure[deposit[s].closure] # None
    /\ deposit[s].status = "resolved" <=> deposit[s].resolvedBy # None

IInv ==
    /\ CashTypeOK
    /\ RoomIsKept
    /\ KnownIsDated
    /\ \A d \in Receivers : DeposingConsistent(d)
    /\ \A m \in Mayors : ResolvingConsistent(m)
    /\ \A s \in DOMAIN deposit : RowConsistent(s)
    /\ FiguresAgree
    /\ LogIsTruthful
    /\ MoneyIsTraced

-----------------------------------------------------------------------------
(* The total of a closing.                                                 *)

\* Induction over the natural numbers for a property given as a set: the least
\* number outside the set has no predecessor.
LEMMA InductiveSetIsNat ==
    ASSUME NEW T \in SUBSET Nat, 0 \in T, \A n \in T : n + 1 \in T
    PROVE  T = Nat
<1> SUFFICES ASSUME Nat \ T # {}
             PROVE  FALSE
  OBVIOUS
<1>1. PICK least \in Nat \ T : \A n \in Nat \ T : ~(<<n, least>> \in OpToRel(<, Nat))
  BY NatLessThanWellFounded, WFMin
<1>2. \A n \in Nat \ T : ~(n < least)
  BY <1>1 DEF OpToRel
<1>3. least # 0 /\ least - 1 \in Nat /\ least - 1 < least
  OBVIOUS
<1>4. least - 1 \in T
  BY <1>2, <1>3
<1> QED BY <1>3, <1>4

\* The equation that defines the sum, on the sets that satisfy it.
Pick(s) == CHOOSE id \in s : TRUE
Adds(g, s) == g[s] = IF s = {} THEN 0 ELSE Amount[Pick(s)] + g[s \ {Pick(s)}]

UpTo(S, n) == {s \in SUBSET S : Cardinality(s) <= n}

LEMMA RestIsSmaller ==
    ASSUME NEW S, IsFiniteSet(S), NEW n \in Nat, NEW s \in UpTo(S, n + 1), s # {}
    PROVE  s \ {Pick(s)} \in UpTo(S, n) /\ Pick(s) \in s
<1>1. Pick(s) \in s
  BY DEF Pick
<1>2. IsFiniteSet(s) /\ Cardinality(s) <= n + 1
  BY FS_Subset DEF UpTo
<1>3. Cardinality(s \ {Pick(s)}) = Cardinality(s) - 1 /\ Cardinality(s) \in Nat
  BY <1>1, <1>2, FS_RemoveElement, FS_CardinalityType
<1> QED BY <1>1, <1>2, <1>3 DEF UpTo

\* The recursion is well founded, so a function satisfies the equation.
LEMMA SumExists ==
    ASSUME NEW S, IsFiniteSet(S)
    PROVE  \E g : \A s \in SUBSET S : Adds(g, s)
<1> DEFINE T == {n \in Nat : \E g : \A s \in UpTo(S, n) : Adds(g, s)}
<1>1. 0 \in T
  <2> DEFINE g == [s \in SUBSET S |-> 0]
  <2>1. \A s \in UpTo(S, 0) : s = {}
    <3> TAKE s \in UpTo(S, 0)
    <3>1. IsFiniteSet(s) /\ Cardinality(s) \in Nat /\ Cardinality(s) <= 0
      BY FS_Subset, FS_CardinalityType DEF UpTo
    <3>2. Cardinality(s) = 0
      BY <3>1
    <3> QED BY <3>1, <3>2, FS_EmptySet
  <2>2. \A s \in UpTo(S, 0) : Adds(g, s)
    BY <2>1 DEF Adds, UpTo
  <2> HIDE DEF g
  <2> QED BY <2>2
<1>2. ASSUME NEW n \in T
      PROVE  n + 1 \in T
  <2> PICK g : \A s \in UpTo(S, n) : Adds(g, s)
    BY <1>2
  <2> DEFINE h == [s \in SUBSET S |->
                     IF s = {} THEN 0 ELSE Amount[Pick(s)] + g[s \ {Pick(s)}]]
  <2>1. \A s \in UpTo(S, n) : h[s] = g[s]
    BY DEF Adds, UpTo
  <2>2. \A s \in UpTo(S, n + 1) : Adds(h, s)
    <3> TAKE s \in UpTo(S, n + 1)
    <3>1. s \in SUBSET S
      BY DEF UpTo
    <3>2. CASE s = {}
      BY <3>1, <3>2 DEF Adds
    <3>3. CASE s # {}
      <4>1. h[s] = Amount[Pick(s)] + g[s \ {Pick(s)}]
        BY <3>1, <3>3
      <4>2. h[s \ {Pick(s)}] = g[s \ {Pick(s)}]
        BY <2>1, <3>3, RestIsSmaller
      <4> HIDE DEF h
      <4> QED BY <3>3, <4>1, <4>2 DEF Adds
    <3> QED BY <3>2, <3>3
  <2> HIDE DEF h
  <2> QED BY <2>2
<1> HIDE DEF T
<1>3. T = Nat
  BY <1>1, <1>2, InductiveSetIsNat DEF T
<1>4. Cardinality(S) \in T
  BY <1>3, FS_CardinalityType
<1>5. \A s \in SUBSET S : s \in UpTo(S, Cardinality(S))
  BY FS_Subset DEF UpTo
<1> QED BY <1>4, <1>5 DEF T

\* Total is the value at the whole set of the function that satisfies it.
LEMMA TotalAdds ==
    ASSUME NEW S, IsFiniteSet(S)
    PROVE  \E g : Total(S) = g[S] /\ \A s \in SUBSET S : Adds(g, s)
<1> DEFINE Eq(g) == g = [s \in SUBSET S |->
                IF s = {} THEN 0
                ELSE Amount[CHOOSE id \in s : TRUE] + g[s \ {CHOOSE id \in s : TRUE}]]
           sum == CHOOSE g : Eq(g)
<1>1. \E g : Eq(g)
  <2> PICK f : \A s \in SUBSET S : Adds(f, s)
    BY SumExists
  <2> DEFINE g == [s \in SUBSET S |-> f[s]]
  <2>1. \A s \in SUBSET S : g[s] =
           IF s = {} THEN 0
           ELSE Amount[CHOOSE id \in s : TRUE] + g[s \ {CHOOSE id \in s : TRUE}]
    BY DEF Adds, Pick
  <2>2. g = [s \in SUBSET S |-> g[s]]
    OBVIOUS
  <2> HIDE DEF g
  <2>3. Eq(g)
    BY <2>1, <2>2
  <2> QED BY <2>3
<1>2. Eq(sum)
  BY <1>1
<1>3. Total(S) = sum[S]
  BY DEF Total, MapThenSumSet, MapThenFoldSet
<1>4. \A s \in SUBSET S : Adds(sum, s)
  BY <1>2 DEF Adds, Pick
<1> QED BY <1>3, <1>4

\* A total is an amount.
LEMMA TotalIsNat ==
    ASSUME NEW S \in SUBSET Ids
    PROVE  Total(S) \in Nat
<1>1. IsFiniteSet(S)
  BY CashAssumption, FS_Subset
<1> PICK g : Total(S) = g[S] /\ \A s \in SUBSET S : Adds(g, s)
  BY <1>1, TotalAdds
<1> DEFINE T == {n \in Nat : \A s \in UpTo(S, n) : g[s] \in Nat}
<1>2. 0 \in T
  <2> SUFFICES ASSUME NEW s \in UpTo(S, 0)
               PROVE  g[s] \in Nat
    OBVIOUS
  <2>1. IsFiniteSet(s) /\ Cardinality(s) \in Nat /\ Cardinality(s) <= 0 /\ s \in SUBSET S
    BY <1>1, FS_Subset, FS_CardinalityType DEF UpTo
  <2>2. s = {}
    BY <2>1, FS_EmptySet
  <2> QED BY <2>1, <2>2 DEF Adds
<1>3. ASSUME NEW n \in T
      PROVE  n + 1 \in T
  <2> SUFFICES ASSUME NEW s \in UpTo(S, n + 1)
               PROVE  g[s] \in Nat
    BY <1>3
  <2>1. Adds(g, s) /\ s \in SUBSET S
    BY DEF UpTo
  <2>2. CASE s = {}
    BY <2>1, <2>2 DEF Adds
  <2>3. CASE s # {}
    <3>1. s \ {Pick(s)} \in UpTo(S, n) /\ Pick(s) \in s
      BY <1>1, <1>3, <2>3, RestIsSmaller
    <3>2. g[s \ {Pick(s)}] \in Nat /\ Amount[Pick(s)] \in Nat
      BY <1>3, <2>1, <3>1, CashAssumption
    <3> QED BY <2>1, <2>3, <3>2 DEF Adds
  <2> QED BY <2>2, <2>3
<1> HIDE DEF T
<1>4. T = Nat
  BY <1>2, <1>3, InductiveSetIsNat DEF T
<1>5. Cardinality(S) \in T /\ S \in UpTo(S, Cardinality(S))
  BY <1>1, <1>4, FS_CardinalityType DEF UpTo
<1> QED BY <1>5 DEF T

-----------------------------------------------------------------------------
(* The shape of the requests.                                              *)

\* A deposit request and a resolution that are under way.
LiveDeposing ==
    [pc : {"check", "insert", "audit"}, key : Keys, amount : Counted,
     total : Nat, slip : Slips \cup {0}]
LiveResolving ==
    [pc : {"select", "update", "audit"}, slip : Slips,
     ent : Deposit \cup {None}, loaded : Deposit \cup {None}]

LEMMA DeposingUnderWay ==
    ASSUME CashTypeOK, NEW d \in Receivers
    PROVE  /\ deposing[d] # NoDeposing => deposing[d] \in LiveDeposing
           /\ deposing[d].pc # "idle" => deposing[d] # NoDeposing
           /\ deposing[d] # NoDeposing => deposing[d].pc \in {"check", "insert", "audit"}
BY DEF CashTypeOK, DeposingRequest, NoDeposing, LiveDeposing

LEMMA ResolvingUnderWay ==
    ASSUME CashTypeOK, NEW m \in Mayors
    PROVE  /\ resolving[m] # NoResolving => resolving[m] \in LiveResolving
           /\ resolving[m].pc # "idle" => resolving[m] # NoResolving
           /\ resolving[m] # NoResolving => resolving[m].pc \in {"select", "update", "audit"}
BY DEF CashTypeOK, ResolvingRequest, NoResolving, LiveResolving

\* One request takes a step, the others stay where they are.
OneDeposing(d, r) ==
    /\ r \in DeposingRequest
    /\ deposing' \in [Receivers -> DeposingRequest]
    /\ deposing'[d] = r
    /\ \A other \in Receivers \ {d} : deposing'[other] = deposing[other]

OneResolving(m, r) ==
    /\ r \in ResolvingRequest
    /\ resolving' \in [Mayors -> ResolvingRequest]
    /\ resolving'[m] = r
    /\ \A other \in Mayors \ {m} : resolving'[other] = resolving[other]

LEMMA OneDeposingMoves ==
    ASSUME CashTypeOK, NEW d \in Receivers, NEW r \in DeposingRequest,
           deposing' = [deposing EXCEPT ![d] = r]
    PROVE  OneDeposing(d, r)
BY DEF CashTypeOK, OneDeposing

LEMMA OneResolvingMoves ==
    ASSUME CashTypeOK, NEW m \in Mayors, NEW r \in ResolvingRequest,
           resolving' = [resolving EXCEPT ![m] = r]
    PROVE  OneResolving(m, r)
BY DEF CashTypeOK, OneResolving

(***************************************************************************)
(* What each action makes of the request it is a step of, and of the       *)
(* tables.                                                                 *)
(***************************************************************************)
LEMMA FindDepositStep ==
    ASSUME CashTypeOK, NEW d \in Receivers, NEW k \in Keys, NEW amount \in Counted,
           DepositFind(d, k, amount)
    PROVE  OneDeposing(d, [pc |-> "check", key |-> k, amount |-> amount,
                           total |-> Total(closure[k]), slip |-> 0])
<1>1. closure[k] \in SUBSET Ids
  BY DEF DepositFind, CashTypeOK
<1>2. Total(closure[k]) \in Nat
  BY <1>1, TotalIsNat
<1>3. [pc |-> "check", key |-> k, amount |-> amount,
       total |-> Total(closure[k]), slip |-> 0] \in DeposingRequest
  BY <1>2 DEF DeposingRequest
<1> QED BY <1>3, OneDeposingMoves DEF DepositFind

LEMMA CheckDepositStep ==
    ASSUME CashTypeOK, NEW d \in Receivers, DepositCheck(d)
    PROVE  /\ deposing[d] \in LiveDeposing
           /\ OneDeposing(d, IF AlreadyDeposited(deposing[d].key) THEN NoDeposing
                             ELSE [deposing[d] EXCEPT !.pc = "insert"])
<1>1. deposing[d] \in LiveDeposing
  BY DeposingUnderWay DEF DepositCheck
<1>2. (IF AlreadyDeposited(deposing[d].key) THEN NoDeposing
       ELSE [deposing[d] EXCEPT !.pc = "insert"]) \in DeposingRequest
  BY <1>1 DEF LiveDeposing, DeposingRequest
<1> QED BY <1>1, <1>2, OneDeposingMoves DEF DepositCheck

\* A new row.
LEMMA NewDepositIsDeposit ==
    ASSUME NEW d \in Receivers, NEW r \in LiveDeposing
    PROVE  NewDeposit(r, d) \in Deposit
<1>1. r.total - r.amount \in Int
  <2>1. r.total \in Nat /\ r.amount \in Counted
    BY DEF LiveDeposing
  <2>2. r.amount \in Nat
    BY <2>1, CashAssumption
  <2> QED BY <2>1, <2>2
<1>2. StatusFor(r.total - r.amount) \in DepositStatus
  BY DEF StatusFor, DepositStatus
<1> QED BY <1>1, <1>2 DEF NewDeposit, Deposit, LiveDeposing

LEMMA InsertDepositStep ==
    ASSUME CashTypeOK, RoomIsKept, NEW d \in Receivers, DepositInsert(d)
    PROVE  /\ deposing[d] \in LiveDeposing
           /\ deposit' \in Seq(Deposit) /\ Len(deposit') = Len(deposit) + 1
           /\ Len(deposit) + 1 \in Slips
           /\ DOMAIN deposit = 1 .. Len(deposit) /\ DOMAIN deposit' = 1 .. Len(deposit) + 1
           /\ \A s \in DOMAIN deposit : deposit'[s] = deposit[s]
           /\ deposit'[Len(deposit) + 1] = NewDeposit(deposing[d], d)
           /\ OneDeposing(d, [deposing[d] EXCEPT !.pc = "audit",
                                                 !.slip = Len(deposit) + 1])
<1>1. deposing[d] \in LiveDeposing
  BY DeposingUnderWay DEF DepositInsert
<1>2. deposit' = Append(deposit, NewDeposit(deposing[d], d))
  BY DEF DepositInsert
<1>3. NewDeposit(deposing[d], d) \in Deposit /\ deposit \in Seq(Deposit)
  BY <1>1, NewDepositIsDeposit DEF CashTypeOK
<1>4. Len(deposit) + 1 \in Slips
  <2>1. d \in Waiting /\ Waiting \subseteq InFlight
    BY DeposingUnderWay DEF DepositInsert, Waiting, InFlight
  <2>2. IsFiniteSet(Waiting) /\ Cardinality(Waiting) \in Nat
    BY <2>1, FS_Subset, FS_CardinalityType DEF RoomIsKept
  <2>3. Cardinality(Waiting) # 0
    BY <2>1, <2>2, FS_EmptySet
  <2> QED BY <1>3, <2>2, <2>3, LenProperties, CashAssumption DEF RoomIsKept, Slips
<1>5. deposing' = [deposing EXCEPT ![d] =
         [deposing[d] EXCEPT !.pc = "audit", !.slip = Len(deposit) + 1]]
  BY <1>1 DEF DepositInsert, CashTypeOK, LiveDeposing
<1>6. [deposing[d] EXCEPT !.pc = "audit", !.slip = Len(deposit) + 1] \in DeposingRequest
  BY <1>1, <1>4 DEF LiveDeposing, DeposingRequest
<1>7. OneDeposing(d, [deposing[d] EXCEPT !.pc = "audit", !.slip = Len(deposit) + 1])
  BY <1>5, <1>6, OneDeposingMoves
<1>8. /\ deposit' \in Seq(Deposit) /\ Len(deposit') = Len(deposit) + 1
      /\ DOMAIN deposit = 1 .. Len(deposit) /\ DOMAIN deposit' = 1 .. Len(deposit) + 1
      /\ \A s \in DOMAIN deposit : deposit'[s] = deposit[s]
      /\ deposit'[Len(deposit) + 1] = NewDeposit(deposing[d], d)
  <2> DEFINE row == NewDeposit(deposing[d], d)
  <2>1. row \in Deposit /\ deposit' = Append(deposit, row) /\ deposit \in Seq(Deposit)
    BY <1>2, <1>3
  <2> HIDE DEF row
  <2>2. /\ deposit' \in Seq(Deposit) /\ Len(deposit') = Len(deposit) + 1
        /\ DOMAIN deposit = 1 .. Len(deposit) /\ DOMAIN deposit' = 1 .. Len(deposit) + 1
        /\ \A s \in DOMAIN deposit : deposit'[s] = deposit[s]
        /\ deposit'[Len(deposit) + 1] = row
    BY <2>1
  <2> QED BY <2>2 DEF row
<1> QED BY <1>1, <1>4, <1>7, <1>8

\* A request that ends.
LEMMA DeposingEnds ==
    ASSUME CashTypeOK, NEW d \in Receivers, deposing' = [deposing EXCEPT ![d] = NoDeposing]
    PROVE  OneDeposing(d, NoDeposing)
<1>1. NoDeposing \in DeposingRequest
  BY DEF DeposingRequest
<1> QED BY <1>1, OneDeposingMoves

LEMMA ResolvingEnds ==
    ASSUME CashTypeOK, NEW m \in Mayors, resolving' = [resolving EXCEPT ![m] = NoResolving]
    PROVE  OneResolving(m, NoResolving)
<1>1. NoResolving \in ResolvingRequest
  BY DEF ResolvingRequest
<1> QED BY <1>1, OneResolvingMoves

LEMMA FindDisputeStep ==
    ASSUME CashTypeOK, NEW m \in Mayors, NEW s \in Slips, ResolveFind(m, s)
    PROVE  \E ent \in Deposit :
              /\ SameFigures(deposit[s], ent) /\ ent.status = "resolved" /\ ent.resolvedBy = m
              /\ OneResolving(m, [pc |-> "select", slip |-> s, loaded |-> None, ent |-> ent])
<1> DEFINE ent == [deposit[s] EXCEPT !.status = "resolved", !.resolvedBy = m]
<1>1. deposit[s] \in Deposit
  BY DEF CashTypeOK, ResolveFind
<1>2. /\ ent \in Deposit /\ SameFigures(deposit[s], ent)
      /\ ent.status = "resolved" /\ ent.resolvedBy = m
  BY <1>1 DEF Deposit, DepositStatus, SameFigures
<1>3. resolving' = [resolving EXCEPT ![m] =
         [pc |-> "select", slip |-> s, loaded |-> None, ent |-> ent]]
  BY DEF ResolveFind
<1> HIDE DEF ent
<1>4. [pc |-> "select", slip |-> s, loaded |-> None, ent |-> ent] \in ResolvingRequest
  BY <1>2 DEF ResolvingRequest
<1> QED BY <1>2, <1>3, <1>4, OneResolvingMoves

LEMMA SelectDisputeStep ==
    ASSUME CashTypeOK, NEW m \in Mayors, ResolvingConsistent(m), ResolveSelect(m)
    PROVE  /\ resolving[m] \in LiveResolving
           /\ resolving[m].slip \in DOMAIN deposit
           /\ deposit[resolving[m].slip] \in Deposit
           /\ OneResolving(m, [resolving[m] EXCEPT !.pc = "update",
                                  !.loaded = deposit[resolving[m].slip]])
<1>1. resolving[m] \in LiveResolving /\ resolving[m] # NoResolving
  BY ResolvingUnderWay DEF ResolveSelect
<1>2. resolving[m].slip \in DOMAIN deposit /\ deposit[resolving[m].slip] \in Deposit
  BY <1>1 DEF ResolvingConsistent, CashTypeOK
<1>3. [resolving[m] EXCEPT !.pc = "update", !.loaded = deposit[resolving[m].slip]]
        \in ResolvingRequest
  BY <1>1, <1>2 DEF LiveResolving, ResolvingRequest
<1>4. resolving' = [resolving EXCEPT ![m] = [resolving[m] EXCEPT
         !.pc = "update", !.loaded = deposit[resolving[m].slip]]]
  BY <1>1 DEF ResolveSelect, CashTypeOK, LiveResolving
<1> QED BY <1>1, <1>2, <1>3, <1>4, OneResolvingMoves

\* What the save of a resolution makes of the row.
LEMMA SavedRow ==
    ASSUME NEW m \in Mayors, NEW ent \in Deposit, NEW loaded \in Deposit, NEW row \in Deposit,
           SameFigures(row, ent), SameFigures(row, loaded),
           ent.status = "resolved", ent.resolvedBy = m,
           loaded.status = "resolved" => row.status = "resolved"
    PROVE  /\ Saved(ent, loaded, row) \in Deposit
           /\ SameFigures(row, Saved(ent, loaded, row))
           /\ Saved(ent, loaded, row).status = "resolved"
           /\ Saved(ent, loaded, row).resolvedBy =
                IF loaded.resolvedBy # m THEN m ELSE row.resolvedBy
<1> PICK saved : saved = Saved(ent, loaded, row)
  OBVIOUS
<1>1. saved = [c \in DOMAIN row |-> Column(ent[c], loaded[c], row[c])]
  BY DEF Saved
<1>2. saved = [closure |-> Column(ent.closure, loaded.closure, row.closure),
               receiver |-> Column(ent.receiver, loaded.receiver, row.receiver),
               amount |-> Column(ent.amount, loaded.amount, row.amount),
               discrepancy |-> Column(ent.discrepancy, loaded.discrepancy, row.discrepancy),
               status |-> Column(ent.status, loaded.status, row.status),
               resolvedBy |-> Column(ent.resolvedBy, loaded.resolvedBy, row.resolvedBy)]
  BY <1>1 DEF Deposit
<1>3. saved = [closure |-> row.closure, receiver |-> row.receiver, amount |-> row.amount,
               discrepancy |-> row.discrepancy, status |-> "resolved",
               resolvedBy |-> IF loaded.resolvedBy # m THEN m ELSE row.resolvedBy]
  BY <1>2 DEF Column, SameFigures
<1> QED BY <1>3 DEF Deposit, DepositStatus, SameFigures

LEMMA UpdateDisputeStep ==
    ASSUME CashTypeOK, NEW m \in Mayors, ResolvingConsistent(m), ResolveUpdate(m)
    PROVE  /\ resolving[m] \in LiveResolving
           /\ resolving[m].slip \in DOMAIN deposit
           /\ deposit' \in Seq(Deposit) /\ Len(deposit') = Len(deposit)
           /\ DOMAIN deposit' = DOMAIN deposit
           /\ \A s \in DOMAIN deposit \ {resolving[m].slip} : deposit'[s] = deposit[s]
           /\ SameFigures(deposit[resolving[m].slip], deposit'[resolving[m].slip])
           /\ deposit'[resolving[m].slip].status = "resolved"
           /\ deposit'[resolving[m].slip].resolvedBy =
                IF resolving[m].loaded.resolvedBy # m THEN m
                ELSE deposit[resolving[m].slip].resolvedBy
           /\ OneResolving(m, [resolving[m] EXCEPT !.pc = "audit",
                                  !.ent = None, !.loaded = None])
<1> PICK s, ent, loaded, row, saved :
        /\ s = resolving[m].slip /\ ent = resolving[m].ent /\ loaded = resolving[m].loaded
        /\ row = deposit[s] /\ saved = Saved(ent, loaded, row)
  OBVIOUS
<1>1. resolving[m] \in LiveResolving /\ resolving[m] # NoResolving
  BY ResolvingUnderWay DEF ResolveUpdate
<1>2. /\ s \in DOMAIN deposit /\ row \in Deposit
      /\ ent \in Deposit /\ SameFigures(row, ent)
      /\ ent.status = "resolved" /\ ent.resolvedBy = m
      /\ loaded \in Deposit /\ SameFigures(row, loaded)
      /\ loaded.status = "resolved" => row.status = "resolved"
  BY <1>1 DEF ResolveUpdate, ResolvingConsistent, CashTypeOK
<1>3. /\ saved \in Deposit /\ SameFigures(row, saved) /\ saved.status = "resolved"
      /\ saved.resolvedBy = IF loaded.resolvedBy # m THEN m ELSE row.resolvedBy
  BY <1>2, SavedRow
<1>4. deposit' = [deposit EXCEPT ![s] = saved]
  BY DEF ResolveUpdate
<1>5. /\ deposit' \in Seq(Deposit) /\ Len(deposit') = Len(deposit)
      /\ DOMAIN deposit' = DOMAIN deposit /\ deposit'[s] = saved
      /\ \A other \in DOMAIN deposit \ {s} : deposit'[other] = deposit[other]
  <2>1. deposit \in Seq(Deposit) /\ DOMAIN deposit = 1 .. Len(deposit)
    BY LenProperties DEF CashTypeOK
  <2> QED BY <1>2, <1>3, <1>4, <2>1, ExceptSeq
<1>6. resolving' = [resolving EXCEPT ![m] = [resolving[m] EXCEPT
         !.pc = "audit", !.ent = None, !.loaded = None]]
  BY <1>1 DEF ResolveUpdate, CashTypeOK, LiveResolving
<1>7. [resolving[m] EXCEPT !.pc = "audit", !.ent = None, !.loaded = None]
        \in ResolvingRequest
  BY <1>1 DEF LiveResolving, ResolvingRequest
<1>8. OneResolving(m, [resolving[m] EXCEPT !.pc = "audit", !.ent = None, !.loaded = None])
  BY <1>6, <1>7, OneResolvingMoves
<1> QED BY <1>1, <1>2, <1>3, <1>5, <1>8

-----------------------------------------------------------------------------
(* What no step does to the tables: a closing is never summed again, and   *)
(* of a deposit only the status moves, from disputed to resolved.          *)

TablesKeep ==
    /\ \A k \in Keys : closure[k] # None => closure'[k] = closure[k]
    /\ DOMAIN deposit \subseteq DOMAIN deposit'
    /\ \A s \in DOMAIN deposit :
          /\ SameFigures(deposit[s], deposit'[s])
          /\ deposit'[s].status = "ok" <=> deposit[s].status = "ok"
          /\ deposit[s].status = "resolved" => deposit'[s].status = "resolved"

(***************************************************************************)
(* A step of the ledger leaves the closings, the deposits and the log      *)
(* alone; it touches one ticket, and a stored one that is settled only to  *)
(* cancel it.                                                              *)
(***************************************************************************)
LEMMA LedgerLeavesCash ==
    ASSUME NEW t \in Ids, LedgerStep(t)
    PROVE  UNCHANGED <<audit, closure, deposit, closing, deposing, resolving>>
BY DEF LedgerStep, TicketAdmitted, TicketSaved, TicketRedated, TicketSettled,
       TicketCancelled, cashVars

LEMMA LedgerMoves ==
    ASSUME CashTypeOK, NEW t \in Ids, LedgerStep(t)
    PROVE  /\ ticket' \in [Ids -> Ledger!Kinds \cup {"unknown", "cancelled"}]
           /\ unsettled' \subseteq Ids
           /\ day' \in [Ids -> Days \cup {None}]
           /\ \A id \in Ids : id # t =>
                 /\ ticket'[id] = ticket[id] /\ day'[id] = day[id]
                 /\ id \in unsettled' <=> id \in unsettled
           /\ ticket[t] # "unknown" /\ t \notin unsettled =>
                 /\ ticket'[t] = "cancelled" /\ day'[t] = day[t]
                 /\ t \notin unsettled'
           /\ ticket'[t] # "unknown" => day'[t] \in Days \/ day'[t] = day[t]
           /\ ticket'[t] # "unknown" /\ ticket[t] = "unknown" => day'[t] \in Days
<1> USE DEF CashTypeOK, Ledger!Kinds
<1>1. CASE TicketAdmitted(t)
  BY <1>1 DEF TicketAdmitted, Ledger!Begin
<1>2. CASE \E kind \in Ledger!Kinds, d \in Days : TicketSaved(t, kind, d)
  BY <1>2 DEF TicketSaved, Ledger!Save, Ledger!MaySettle
<1>3. CASE \E d \in Days : TicketRedated(t, d)
  BY <1>3 DEF TicketRedated, Ledger!MaySettle
<1>4. CASE TicketSettled(t)
  BY <1>4 DEF TicketSettled, Ledger!Settle
<1>5. CASE \E d \in Days : TicketCancelled(t, d)
  BY <1>5 DEF TicketCancelled, Ledger!Cancel, Ledger!MaySettle
<1> QED BY <1>1, <1>2, <1>3, <1>4, <1>5 DEF LedgerStep

LEMMA TablesAreKept ==
    ASSUME IInv, Next
    PROVE  TablesKeep
<1> USE DEF IInv
<1>1. CASE UNCHANGED <<closure, deposit>>
  BY <1>1 DEF TablesKeep, SameFigures
<1>2. CASE \E c \in Closers : CloseInsert(c)
  <2> PICK c \in Closers : CloseInsert(c)
    BY <1>2
  <2>1. \A k \in Keys : closure[k] # None => closure'[k] = closure[k]
    BY DEF CloseInsert, KeyTaken, CashTypeOK
  <2> QED BY <2>1 DEF CloseInsert, TablesKeep, SameFigures
<1>3. CASE \E d \in Receivers : DepositInsert(d)
  <2> PICK d \in Receivers : DepositInsert(d)
    BY <1>3
  <2>1. Len(deposit) \in Nat
    BY LenProperties DEF CashTypeOK
  <2>2. /\ DOMAIN deposit = 1 .. Len(deposit) /\ DOMAIN deposit' = 1 .. Len(deposit) + 1
        /\ \A s \in DOMAIN deposit : deposit'[s] = deposit[s]
    BY InsertDepositStep
  <2>3. DOMAIN deposit \subseteq DOMAIN deposit'
    BY <2>1, <2>2
  <2> QED BY <2>2, <2>3 DEF DepositInsert, TablesKeep, SameFigures
<1>4. CASE \E m \in Mayors : ResolveUpdate(m)
  <2> PICK m \in Mayors : ResolveUpdate(m)
    BY <1>4
  <2>1. deposit[resolving[m].slip].status # "ok"
    BY ResolvingUnderWay DEF ResolveUpdate, ResolvingConsistent
  <2> QED BY <2>1, UpdateDisputeStep DEF ResolveUpdate, TablesKeep, SameFigures
<1> QED
  BY <1>1, <1>2, <1>3, <1>4
     DEF Next, LedgerStep, TicketAdmitted, TicketSaved, TicketRedated,
         TicketSettled, TicketCancelled, CloseFind, LoseClosing, DepositFind,
         DepositCheck, DepositAudit, LoseDeposing, ResolveFind, ResolveSelect,
         ResolveAudit, LoseResolving, ledgerVars, cashVars

-----------------------------------------------------------------------------
(* The ledger and the shape of the tables.                                 *)

LEMMA DatedStep ==
    ASSUME CashTypeOK, KnownIsDated, Next
    PROVE  KnownIsDated'
<1>1. CASE \E t \in Ids : LedgerStep(t)
  BY <1>1, LedgerMoves DEF KnownIsDated
<1>2. CASE UNCHANGED <<ticket, day>>
  BY <1>2 DEF KnownIsDated
<1> QED
  BY <1>1, <1>2
     DEF Next, CloseFind, CloseInsert, LoseClosing, DepositFind, DepositCheck,
         DepositInsert, DepositAudit, LoseDeposing, ResolveFind, ResolveSelect,
         ResolveUpdate, ResolveAudit, LoseResolving, ledgerVars

LEMMA AuditStep ==
    ASSUME IInv, Next
    PROVE  /\ audit \subseteq audit' /\ audit' \subseteq CashAudit
           /\ \A entry \in audit' \ audit :
                \/ \E d \in Receivers :
                     /\ DepositAudit(d)
                     /\ entry = Entry(IF StatusFor(deposing[d].total - deposing[d].amount) = "litige"
                                      THEN "DEPOSIT_DISPUTE_OPENED" ELSE "DEPOSIT_RECORDED",
                                      deposing[d].slip, d)
                \/ \E m \in Mayors :
                     /\ ResolveAudit(m)
                     /\ entry = Entry("DEPOSIT_DISPUTE_RESOLVED", resolving[m].slip, m)
<1>1. CASE \E d \in Receivers : DepositAudit(d)
  <2> PICK d \in Receivers : DepositAudit(d)
    BY <1>1
  <2> PICK action \in {"DEPOSIT_DISPUTE_OPENED", "DEPOSIT_RECORDED"} :
         action = IF StatusFor(deposing[d].total - deposing[d].amount) = "litige"
                  THEN "DEPOSIT_DISPUTE_OPENED" ELSE "DEPOSIT_RECORDED"
    OBVIOUS
  <2>1. deposing[d].slip \in Slips
    <3>1. Len(deposit) \in Nat /\ DOMAIN deposit = 1 .. Len(deposit) /\ Len(deposit) <= MaxDeposits
      BY LenProperties DEF IInv, CashTypeOK
    <3>2. deposing[d].slip \in DOMAIN deposit
      BY DEF IInv, DepositAudit, DeposingConsistent
    <3> QED BY <3>1, <3>2, CashAssumption DEF Slips
  <2>2. audit' = audit \cup {Entry(action, deposing[d].slip, d)}
    BY DEF DepositAudit, Record
  <2>3. Entry(action, deposing[d].slip, d) \in CashAudit
    BY <2>1 DEF Entry, CashAudit
  <2> QED BY <2>2, <2>3 DEF IInv, CashTypeOK
<1>2. CASE \E m \in Mayors : ResolveAudit(m)
  <2> PICK m \in Mayors : ResolveAudit(m)
    BY <1>2
  <2>1. resolving[m].slip \in Slips
    BY ResolvingUnderWay DEF IInv, ResolveAudit, LiveResolving
  <2>2. audit' = audit \cup {Entry("DEPOSIT_DISPUTE_RESOLVED", resolving[m].slip, m)}
    BY DEF ResolveAudit, Record
  <2>3. Entry("DEPOSIT_DISPUTE_RESOLVED", resolving[m].slip, m) \in CashAudit
    BY <2>1 DEF Entry, CashAudit
  <2> QED BY <2>2, <2>3 DEF IInv, CashTypeOK
<1>3. CASE UNCHANGED audit
  BY <1>3 DEF IInv, CashTypeOK
<1> QED
  BY <1>1, <1>2, <1>3
     DEF Next, LedgerStep, TicketAdmitted, TicketSaved, TicketRedated,
         TicketSettled, TicketCancelled, CloseFind, CloseInsert, LoseClosing,
         DepositFind, DepositCheck, DepositInsert, LoseDeposing, ResolveFind,
         ResolveSelect, ResolveUpdate, LoseResolving

LEMMA TypeStep ==
    ASSUME IInv, Next
    PROVE  CashTypeOK'
<1>1. audit' \subseteq CashAudit
  BY AuditStep
<1>2. ASSUME UNCHANGED <<ticket, unsettled, day, closure, closing, deposit>>,
             deposing' \in [Receivers -> DeposingRequest],
             resolving' \in [Mayors -> ResolvingRequest]
      PROVE  CashTypeOK'
  BY <1>1, <1>2 DEF IInv, CashTypeOK
<1>3. CASE \E t \in Ids : LedgerStep(t)
  BY <1>1, <1>3, LedgerLeavesCash, LedgerMoves DEF IInv, CashTypeOK
<1>4. CASE \E c \in Closers : (\E k \in Keys : CloseFind(c, k)) \/ CloseInsert(c) \/ LoseClosing(c)
  <2> PICK c \in Closers : (\E k \in Keys : CloseFind(c, k)) \/ CloseInsert(c) \/ LoseClosing(c)
    BY <1>4
  <2>1. NoClosing \in ClosingRequest
    BY DEF ClosingRequest
  <2>2. CASE \E k \in Keys : CloseFind(c, k)
    <3> PICK k \in Keys : CloseFind(c, k)
      BY <2>2
    <3>1. [pc |-> "insert", key |-> k, tickets |-> Summed(k)] \in ClosingRequest
      BY DEF ClosingRequest, Summed, FoundByAgent
    <3> QED BY <1>1, <3>1 DEF IInv, CashTypeOK, CloseFind, ledgerVars
  <2>3. CASE CloseInsert(c)
    <3>1. closing[c].key \in Keys /\ closing[c].tickets \in SUBSET Ids
      BY <2>3 DEF IInv, CashTypeOK, ClosingRequest, NoClosing, CloseInsert
    <3>2. closure' \in [Keys -> (SUBSET Ids) \cup {None}]
      BY <2>3, <3>1 DEF IInv, CashTypeOK, CloseInsert
    <3> QED BY <1>1, <2>1, <2>3, <3>2 DEF IInv, CashTypeOK, CloseInsert, ledgerVars
  <2>4. CASE LoseClosing(c)
    BY <1>1, <2>1, <2>4 DEF IInv, CashTypeOK, LoseClosing, ledgerVars
  <2> QED BY <2>2, <2>3, <2>4
<1>5. CASE \E d \in Receivers : \E k \in Keys, amount \in Counted : DepositFind(d, k, amount)
  BY <1>2, <1>5, FindDepositStep
     DEF IInv, CashTypeOK, DepositFind, OneDeposing, ledgerVars
<1>6. CASE \E d \in Receivers : DepositCheck(d) \/ DepositAudit(d) \/ LoseDeposing(d)
  BY <1>2, <1>6, CheckDepositStep, DeposingEnds
     DEF IInv, CashTypeOK, DepositCheck, DepositAudit, LoseDeposing, OneDeposing, ledgerVars
<1>7. CASE \E d \in Receivers : DepositInsert(d)
  <2> PICK d \in Receivers : DepositInsert(d)
    BY <1>7
  <2>1. /\ deposit' \in Seq(Deposit) /\ Len(deposit') \in Slips
        /\ deposing' \in [Receivers -> DeposingRequest]
    BY InsertDepositStep DEF IInv, OneDeposing
  <2>2. Len(deposit') <= MaxDeposits
    BY <2>1, CashAssumption DEF Slips
  <2> QED BY <1>1, <2>1, <2>2 DEF IInv, CashTypeOK, DepositInsert, ledgerVars
<1>8. CASE \E m \in Mayors : \E s \in Slips : ResolveFind(m, s)
  <2> PICK m \in Mayors, s \in Slips : ResolveFind(m, s)
    BY <1>8
  <2>1. resolving' \in [Mayors -> ResolvingRequest]
    BY FindDisputeStep DEF IInv, OneResolving
  <2> QED BY <1>2, <2>1 DEF IInv, CashTypeOK, ResolveFind, ledgerVars
<1>9. CASE \E m \in Mayors : ResolveSelect(m) \/ ResolveAudit(m) \/ LoseResolving(m)
  <2> PICK m \in Mayors : ResolveSelect(m) \/ ResolveAudit(m) \/ LoseResolving(m)
    BY <1>9
  <2>1. resolving' \in [Mayors -> ResolvingRequest]
    BY SelectDisputeStep, ResolvingEnds
       DEF IInv, OneResolving, ResolveAudit, LoseResolving
  <2> QED BY <1>2, <2>1
          DEF IInv, CashTypeOK, ResolveSelect, ResolveAudit, LoseResolving, ledgerVars
<1>10. CASE \E m \in Mayors : ResolveUpdate(m)
  <2> PICK m \in Mayors : ResolveUpdate(m)
    BY <1>10
  <2>1. /\ deposit' \in Seq(Deposit) /\ Len(deposit') = Len(deposit)
        /\ resolving' \in [Mayors -> ResolvingRequest]
    BY UpdateDisputeStep DEF IInv, OneResolving
  <2> QED BY <1>1, <2>1 DEF IInv, CashTypeOK, ResolveUpdate, ledgerVars
<1> QED
  BY <1>3, <1>4, <1>5, <1>6, <1>7, <1>8, <1>9, <1>10 DEF Next

(***************************************************************************)
(* The room left.  A request counts from its first statement until its     *)
(* insert; the bound on its first statement counts a few more.             *)
(***************************************************************************)
LEMMA RoomIsLeft ==
    ASSUME IInv, IsFiniteSet(InFlight'), Waiting' \subseteq Waiting, Len(deposit') = Len(deposit)
    PROVE  RoomIsKept'
<1>1. IsFiniteSet(Waiting) /\ Cardinality(Waiting) \in Nat
  <2>1. Waiting \subseteq InFlight
    BY DeposingUnderWay DEF IInv, Waiting, InFlight
  <2> QED BY <2>1, FS_Subset, FS_CardinalityType DEF IInv, RoomIsKept
<1>2. Cardinality(Waiting') <= Cardinality(Waiting) /\ Cardinality(Waiting') \in Nat
  BY <1>1, FS_Subset, FS_CardinalityType
<1>3. Len(deposit) \in Nat
  BY LenProperties DEF IInv, CashTypeOK
<1> QED BY <1>1, <1>2, <1>3, CashAssumption DEF IInv, RoomIsKept

LEMMA RoomStep ==
    ASSUME IInv, Next
    PROVE  RoomIsKept'
<1>1. /\ IsFiniteSet(InFlight) /\ Len(deposit) + Cardinality(Waiting) <= MaxDeposits
      /\ Waiting \subseteq InFlight /\ Len(deposit) \in Nat /\ MaxDeposits \in Nat
  BY DeposingUnderWay, LenProperties, CashAssumption
     DEF IInv, CashTypeOK, RoomIsKept, Waiting, InFlight
<1>2. /\ IsFiniteSet(Waiting) /\ Cardinality(Waiting) \in Nat
      /\ Cardinality(InFlight) \in Nat /\ Cardinality(Waiting) <= Cardinality(InFlight)
  BY <1>1, FS_Subset, FS_CardinalityType
<1>3. CASE UNCHANGED deposing /\ Len(deposit') = Len(deposit)
  BY <1>1, <1>3 DEF RoomIsKept, Waiting, InFlight
<1>4. CASE \E d \in Receivers : \E k \in Keys, amount \in Counted : DepositFind(d, k, amount)
  <2> PICK d \in Receivers, k \in Keys, amount \in Counted : DepositFind(d, k, amount)
    BY <1>4
  <2> PICK r : r = [pc |-> "check", key |-> k, amount |-> amount,
                    total |-> Total(closure[k]), slip |-> 0]
    OBVIOUS
  <2>1. OneDeposing(d, r) /\ r.pc = "check"
    BY FindDepositStep DEF IInv
  <2>2. InFlight' = InFlight \cup {d} /\ Waiting' = Waiting \cup {d} /\ d \notin InFlight
    BY <2>1 DEF OneDeposing, InFlight, Waiting, DepositFind, NoDeposing
  <2>3. IsFiniteSet(InFlight') /\ Cardinality(Waiting') = Cardinality(Waiting) + 1
    BY <1>1, <1>2, <2>2, FS_AddElement
  <2>4. Len(deposit) + Cardinality(InFlight) < MaxDeposits /\ UNCHANGED deposit
    BY DEF DepositFind
  <2> QED BY <1>1, <1>2, <2>3, <2>4 DEF RoomIsKept
<1>5. CASE \E d \in Receivers : DepositCheck(d)
  <2> PICK d \in Receivers : DepositCheck(d)
    BY <1>5
  <2>1. OneDeposing(d, deposing'[d]) /\ deposing[d].pc = "check" /\ UNCHANGED deposit
    BY CheckDepositStep DEF IInv, OneDeposing, DepositCheck
  <2>2. Waiting' \subseteq Waiting
    BY <2>1 DEF OneDeposing, Waiting
  <2>3. InFlight' \subseteq InFlight
    BY <2>1, DeposingUnderWay DEF OneDeposing, InFlight, IInv
  <2> QED BY <1>1, <2>1, <2>2, <2>3, FS_Subset, RoomIsLeft
<1>6. CASE \E d \in Receivers : DepositInsert(d)
  <2> PICK d \in Receivers : DepositInsert(d)
    BY <1>6
  <2>1. /\ OneDeposing(d, deposing'[d]) /\ deposing'[d].pc = "audit"
        /\ deposing[d].pc = "insert" /\ Len(deposit') = Len(deposit) + 1
    BY InsertDepositStep DEF IInv, OneDeposing, DepositInsert, LiveDeposing
  <2>2. Waiting' = Waiting \ {d} /\ d \in Waiting
    BY <2>1 DEF OneDeposing, Waiting
  <2>3. InFlight' \subseteq InFlight
    BY <2>1, DeposingUnderWay DEF OneDeposing, InFlight, IInv
  <2>4. IsFiniteSet(InFlight') /\ Cardinality(Waiting') = Cardinality(Waiting) - 1
    BY <1>1, <1>2, <2>2, <2>3, FS_Subset, FS_RemoveElement
  <2> QED BY <1>1, <1>2, <2>1, <2>4 DEF RoomIsKept
<1>7. CASE \E d \in Receivers : DepositAudit(d) \/ LoseDeposing(d)
  <2> PICK d \in Receivers : DepositAudit(d) \/ LoseDeposing(d)
    BY <1>7
  <2>1. OneDeposing(d, NoDeposing) /\ UNCHANGED deposit
    BY DeposingEnds DEF DepositAudit, LoseDeposing, IInv
  <2>2. Waiting' \subseteq Waiting /\ InFlight' \subseteq InFlight
    BY <2>1 DEF OneDeposing, Waiting, InFlight, NoDeposing
  <2> QED BY <1>1, <2>1, <2>2, FS_Subset, RoomIsLeft
<1>8. CASE \E m \in Mayors : ResolveUpdate(m)
  <2>1. UNCHANGED deposing /\ Len(deposit') = Len(deposit)
    BY <1>8, UpdateDisputeStep DEF ResolveUpdate, IInv
  <2> QED BY <1>3, <2>1
<1> QED
  BY <1>3, <1>4, <1>5, <1>6, <1>7, <1>8
     DEF Next, LedgerStep, TicketAdmitted, TicketSaved, TicketRedated,
         TicketSettled, TicketCancelled, CloseFind, CloseInsert, LoseClosing,
         ResolveFind, ResolveSelect, ResolveAudit, LoseResolving, cashVars

-----------------------------------------------------------------------------
(* The requests in flight.                                                 *)

\* A deposit request that takes no step stays what it is to the tables.
LEMMA DeposingFrame ==
    ASSUME IInv, TablesKeep, NEW d \in Receivers, deposing'[d] = deposing[d]
    PROVE  DeposingConsistent(d)'
<1>1. CASE deposing[d] = NoDeposing
  BY <1>1 DEF DeposingConsistent, NoDeposing
<1>2. CASE deposing[d] # NoDeposing
  <2> PICK k \in Keys : k = deposing[d].key
    BY <1>2, DeposingUnderWay DEF IInv, LiveDeposing
  <2>1. DeposingConsistent(d)
    BY DEF IInv
  <2>2. closure[k] # None /\ closure'[k] = closure[k] /\ deposing[d].total = Total(closure[k])
    BY <1>2, <2>1 DEF DeposingConsistent, TablesKeep
  <2>3. deposing[d].pc = "audit" =>
           /\ deposing[d].slip \in DOMAIN deposit'
           /\ deposit'[deposing[d].slip].receiver = d
           /\ deposit'[deposing[d].slip].status = "ok"
                 <=> StatusFor(deposing[d].total - deposing[d].amount) = "ok"
    BY <2>1 DEF DeposingConsistent, TablesKeep, SameFigures
  <2> QED BY <2>2, <2>3 DEF DeposingConsistent
<1> QED BY <1>1, <1>2

LEMMA DeposingStep ==
    ASSUME IInv, Next
    PROVE  \A d \in Receivers : DeposingConsistent(d)'
<1>1. TablesKeep
  BY TablesAreKept
<1>2. ASSUME NEW d \in Receivers, NEW r, OneDeposing(d, r), DeposingConsistent(d)'
      PROVE  \A other \in Receivers : DeposingConsistent(other)'
  BY <1>1, <1>2, DeposingFrame DEF OneDeposing
<1>3. CASE UNCHANGED deposing
  BY <1>1, <1>3, DeposingFrame
<1>4. CASE \E d \in Receivers : \E k \in Keys, amount \in Counted : DepositFind(d, k, amount)
  <2> PICK d \in Receivers, k \in Keys, amount \in Counted : DepositFind(d, k, amount)
    BY <1>4
  <2> PICK r : r = [pc |-> "check", key |-> k, amount |-> amount,
                    total |-> Total(closure[k]), slip |-> 0]
    OBVIOUS
  <2>1. OneDeposing(d, r) /\ r.pc = "check" /\ r.key = k /\ r.total = Total(closure[k])
    BY FindDepositStep DEF IInv
  <2>2. closure[k] # None /\ closure' = closure
    BY DEF DepositFind
  <2>3. DeposingConsistent(d)'
    BY <2>1, <2>2 DEF OneDeposing, DeposingConsistent
  <2> QED BY <1>2, <2>1, <2>3
<1>5. CASE \E d \in Receivers : DepositCheck(d)
  <2> PICK d \in Receivers : DepositCheck(d)
    BY <1>5
  <2> PICK r : r = IF AlreadyDeposited(deposing[d].key) THEN NoDeposing
                   ELSE [deposing[d] EXCEPT !.pc = "insert"]
    OBVIOUS
  <2>1. OneDeposing(d, r) /\ deposing[d] \in LiveDeposing /\ deposing[d] # NoDeposing
    BY CheckDepositStep, DeposingUnderWay DEF IInv, DepositCheck
  <2>2. \/ r = NoDeposing
        \/ r.pc = "insert" /\ r.key = deposing[d].key /\ r.total = deposing[d].total
    BY <2>1 DEF LiveDeposing
  <2>3. DeposingConsistent(d) /\ UNCHANGED closure
    BY DEF IInv, DepositCheck
  <2>4. r.pc # "audit"
    BY <2>2 DEF NoDeposing
  <2>5. DeposingConsistent(d)'
    BY <2>1, <2>2, <2>3, <2>4 DEF OneDeposing, DeposingConsistent
  <2> QED BY <1>2, <2>1, <2>5
<1>6. CASE \E d \in Receivers : DepositInsert(d)
  <2> PICK d \in Receivers : DepositInsert(d)
    BY <1>6
  <2> PICK r, row : /\ r = [deposing[d] EXCEPT !.pc = "audit", !.slip = Len(deposit) + 1]
                    /\ row = NewDeposit(deposing[d], d)
    OBVIOUS
  <2>1. /\ OneDeposing(d, r) /\ deposing[d] \in LiveDeposing /\ deposing[d] # NoDeposing
        /\ Len(deposit) + 1 \in DOMAIN deposit'
        /\ deposit'[Len(deposit) + 1] = row
    <3>1. Len(deposit) \in Nat
      BY LenProperties DEF IInv, CashTypeOK
    <3>2. /\ DOMAIN deposit' = 1 .. Len(deposit) + 1
          /\ deposit'[Len(deposit) + 1] = row
          /\ OneDeposing(d, r) /\ deposing[d] \in LiveDeposing
      BY InsertDepositStep DEF IInv
    <3>3. deposing[d] # NoDeposing
      BY DeposingUnderWay DEF IInv, DepositInsert
    <3> QED BY <3>1, <3>2, <3>3
  <2>2. /\ r.pc = "audit" /\ r.slip = Len(deposit) + 1 /\ r.key = deposing[d].key
        /\ r.total = deposing[d].total /\ r.amount = deposing[d].amount
    BY <2>1 DEF LiveDeposing
  <2>3. row.receiver = d /\ row.status = StatusFor(r.total - r.amount)
    BY <2>2 DEF NewDeposit
  <2>4. DeposingConsistent(d) /\ UNCHANGED closure
    BY DEF IInv, DepositInsert
  <2>5. DeposingConsistent(d)'
    BY <2>1, <2>2, <2>3, <2>4 DEF OneDeposing, DeposingConsistent
  <2> QED BY <1>2, <2>1, <2>5
<1>7. CASE \E d \in Receivers : DepositAudit(d) \/ LoseDeposing(d)
  <2> PICK d \in Receivers : DepositAudit(d) \/ LoseDeposing(d)
    BY <1>7
  <2>1. OneDeposing(d, NoDeposing)
    BY DeposingEnds DEF DepositAudit, LoseDeposing, IInv
  <2>2. DeposingConsistent(d)'
    BY <2>1 DEF OneDeposing, DeposingConsistent, NoDeposing
  <2> QED BY <1>2, <2>1, <2>2
<1> QED
  BY <1>3, <1>4, <1>5, <1>6, <1>7
     DEF Next, LedgerStep, TicketAdmitted, TicketSaved, TicketRedated,
         TicketSettled, TicketCancelled, CloseFind, CloseInsert, LoseClosing,
         ResolveFind, ResolveSelect, ResolveUpdate, ResolveAudit, LoseResolving, cashVars

LEMMA ResolvingFrame ==
    ASSUME IInv, TablesKeep, NEW m \in Mayors, resolving'[m] = resolving[m]
    PROVE  ResolvingConsistent(m)'
<1>1. ResolvingConsistent(m)
  BY DEF IInv
<1>2. CASE resolving[m] = NoResolving
  BY <1>2 DEF ResolvingConsistent, NoResolving
<1>3. CASE resolving[m] # NoResolving
  BY <1>1, <1>3 DEF ResolvingConsistent, TablesKeep, SameFigures
<1> QED BY <1>2, <1>3

LEMMA ResolvingStep ==
    ASSUME IInv, Next
    PROVE  \A m \in Mayors : ResolvingConsistent(m)'
<1>1. TablesKeep
  BY TablesAreKept
<1>2. ASSUME NEW m \in Mayors, NEW r, OneResolving(m, r), ResolvingConsistent(m)'
      PROVE  \A other \in Mayors : ResolvingConsistent(other)'
  BY <1>1, <1>2, ResolvingFrame DEF OneResolving
<1>3. CASE UNCHANGED resolving
  BY <1>1, <1>3, ResolvingFrame
<1>4. CASE \E m \in Mayors : \E s \in Slips : ResolveFind(m, s)
  <2> PICK m \in Mayors, s \in Slips : ResolveFind(m, s)
    BY <1>4
  <2> PICK ent \in Deposit :
         /\ SameFigures(deposit[s], ent) /\ ent.status = "resolved" /\ ent.resolvedBy = m
         /\ OneResolving(m, [pc |-> "select", slip |-> s, loaded |-> None, ent |-> ent])
    BY FindDisputeStep DEF IInv
  <2>1. /\ resolving'[m] = [pc |-> "select", slip |-> s, loaded |-> None, ent |-> ent]
        /\ s \in DOMAIN deposit /\ deposit[s].status # "ok" /\ UNCHANGED deposit
    BY DEF OneResolving, ResolveFind, Resolvable
  <2>2. ResolvingConsistent(m)'
    BY <2>1 DEF ResolvingConsistent
  <2> QED BY <1>2, <2>2
<1>5. CASE \E m \in Mayors : ResolveSelect(m)
  <2> PICK m \in Mayors : ResolveSelect(m)
    BY <1>5
  <2>1. ResolvingConsistent(m)
    BY DEF IInv
  <2> PICK r, row : /\ row = deposit[resolving[m].slip]
                    /\ r = [resolving[m] EXCEPT !.pc = "update", !.loaded = row]
    OBVIOUS
  <2>2. /\ resolving[m] \in LiveResolving /\ resolving[m].pc = "select"
        /\ OneResolving(m, r) /\ row \in Deposit /\ UNCHANGED deposit
        /\ resolving[m].slip \in DOMAIN deposit
    BY <2>1, SelectDisputeStep DEF IInv, ResolveSelect
  <2>3. /\ r.pc = "update" /\ r.slip = resolving[m].slip /\ r.ent = resolving[m].ent
        /\ r.loaded = row
    BY <2>2 DEF LiveResolving
  <2>4. row.status = "litige" => row.resolvedBy = None
    BY <2>2 DEF IInv, RowConsistent, Deposit
  <2>5. row.status # "ok" /\ SameFigures(row, row)
    BY <2>1, <2>2, ResolvingUnderWay DEF ResolvingConsistent, SameFigures, IInv
  <2>6. resolving'[m] = r /\ deposit'[r.slip] = row
    BY <2>2, <2>3 DEF OneResolving
  <2>7. ResolvingConsistent(m)'
    BY <2>1, <2>2, <2>3, <2>4, <2>5, <2>6 DEF ResolvingConsistent
  <2> QED BY <1>2, <2>2, <2>7
<1>6. CASE \E m \in Mayors : ResolveUpdate(m)
  <2> PICK m \in Mayors : ResolveUpdate(m)
    BY <1>6
  <2>1. ResolvingConsistent(m)
    BY DEF IInv
  <2> PICK r : r = [resolving[m] EXCEPT !.pc = "audit", !.ent = None, !.loaded = None]
    OBVIOUS
  <2>2. /\ resolving[m] \in LiveResolving /\ OneResolving(m, r)
        /\ resolving[m].slip \in DOMAIN deposit'
        /\ deposit'[resolving[m].slip].status = "resolved"
    BY <2>1, UpdateDisputeStep DEF IInv
  <2>3. r.pc = "audit" /\ r.slip = resolving[m].slip
    BY <2>2 DEF LiveResolving
  <2>4. ResolvingConsistent(m)'
    BY <2>2, <2>3 DEF OneResolving, ResolvingConsistent
  <2> QED BY <1>2, <2>2, <2>4
<1>7. CASE \E m \in Mayors : ResolveAudit(m) \/ LoseResolving(m)
  <2> PICK m \in Mayors : ResolveAudit(m) \/ LoseResolving(m)
    BY <1>7
  <2>1. OneResolving(m, NoResolving)
    BY ResolvingEnds DEF ResolveAudit, LoseResolving, IInv
  <2>2. ResolvingConsistent(m)'
    BY <2>1 DEF OneResolving, ResolvingConsistent, NoResolving
  <2> QED BY <1>2, <2>1, <2>2
<1> QED
  BY <1>3, <1>4, <1>5, <1>6, <1>7
     DEF Next, LedgerStep, TicketAdmitted, TicketSaved, TicketRedated,
         TicketSettled, TicketCancelled, CloseFind, CloseInsert, LoseClosing,
         DepositFind, DepositCheck, DepositInsert, DepositAudit, LoseDeposing, cashVars

-----------------------------------------------------------------------------
(* The rows.                                                               *)

\* The closing of a row is in the table.
LEMMA RowIsOfAClosing ==
    ASSUME IInv, NEW s \in DOMAIN deposit
    PROVE  deposit[s].closure \in Keys /\ closure[deposit[s].closure] # None
<1>1. deposit[s] \in Deposit
  BY LenProperties DEF IInv, CashTypeOK
<1>2. RowConsistent(s)
  BY DEF IInv
<1> QED BY <1>1, <1>2 DEF Deposit, RowConsistent

\* A row of the next state is a row of this one, resolved or not, or new.
LEMMA RowsAreKnown ==
    ASSUME IInv, Next, NEW s \in DOMAIN deposit'
    PROVE  \/ s \in DOMAIN deposit /\ deposit'[s] = deposit[s]
           \/ \E m \in Mayors :
                 /\ ResolveUpdate(m) /\ s = resolving[m].slip /\ s \in DOMAIN deposit
                 /\ SameFigures(deposit[s], deposit'[s])
                 /\ deposit'[s].status = "resolved"
                 /\ deposit'[s].resolvedBy =
                      IF resolving[m].loaded.resolvedBy # m THEN m ELSE deposit[s].resolvedBy
           \/ \E d \in Receivers :
                 /\ DepositInsert(d) /\ s = Len(deposit) + 1
                 /\ deposing[d] \in LiveDeposing
                 /\ deposit'[s] = NewDeposit(deposing[d], d)
                 /\ deposing'[d].pc = "audit" /\ deposing'[d].slip = s
<1>1. CASE UNCHANGED deposit
  BY <1>1
<1>2. CASE \E m \in Mayors : ResolveUpdate(m)
  <2> PICK m \in Mayors : ResolveUpdate(m)
    BY <1>2
  <2>1. ResolvingConsistent(m) /\ CashTypeOK
    BY DEF IInv
  <2> QED BY <2>1, UpdateDisputeStep
<1>3. CASE \E d \in Receivers : DepositInsert(d)
  <2> PICK d \in Receivers : DepositInsert(d)
    BY <1>3
  <2> PICK r : r = [deposing[d] EXCEPT !.pc = "audit", !.slip = Len(deposit) + 1]
    OBVIOUS
  <2>1. /\ deposing[d] \in LiveDeposing /\ OneDeposing(d, r)
        /\ DOMAIN deposit = 1 .. Len(deposit) /\ DOMAIN deposit' = 1 .. Len(deposit) + 1
        /\ \A t \in DOMAIN deposit : deposit'[t] = deposit[t]
        /\ deposit'[Len(deposit) + 1] = NewDeposit(deposing[d], d)
    BY InsertDepositStep DEF IInv
  <2>2. r.pc = "audit" /\ r.slip = Len(deposit) + 1
    BY <2>1 DEF LiveDeposing
  <2>3. Len(deposit) \in Nat
    BY LenProperties DEF IInv, CashTypeOK
  <2>4. s \in DOMAIN deposit \/ s = Len(deposit) + 1
    BY <2>1, <2>3
  <2> QED BY <2>1, <2>2, <2>4 DEF OneDeposing
<1> QED
  BY <1>1, <1>2, <1>3
     DEF Next, LedgerStep, TicketAdmitted, TicketSaved, TicketRedated,
         TicketSettled, TicketCancelled, CloseFind, CloseInsert, LoseClosing,
         DepositFind, DepositCheck, DepositAudit, LoseDeposing, ResolveFind,
         ResolveSelect, ResolveAudit, LoseResolving, cashVars

\* The row of a new deposit agrees with the closing its request read.
LEMMA NewRowIsConsistent ==
    ASSUME IInv, Next, NEW d \in Receivers, DepositInsert(d), NEW row,
           row = NewDeposit(deposing[d], d)
    PROVE  /\ row.closure \in Keys
           /\ closure'[row.closure] = closure[row.closure]
           /\ closure[row.closure] # None
           /\ row.receiver = d /\ row.resolvedBy = None
           /\ row.discrepancy = Total(closure[row.closure]) - row.amount
           /\ row.status = StatusFor(row.discrepancy)
           /\ row.amount \in Nat /\ Total(closure[row.closure]) \in Nat
<1>1. deposing[d] \in LiveDeposing /\ deposing[d] # NoDeposing /\ DeposingConsistent(d)
  BY DeposingUnderWay DEF DepositInsert, IInv
<1>2. /\ row.closure = deposing[d].key /\ row.receiver = d
      /\ row.amount = deposing[d].amount
      /\ row.discrepancy = deposing[d].total - deposing[d].amount
      /\ row.status = StatusFor(deposing[d].total - deposing[d].amount)
      /\ row.resolvedBy = None
  BY DEF NewDeposit
<1>3. /\ deposing[d].key \in Keys /\ deposing[d].amount \in Counted /\ deposing[d].total \in Nat
      /\ closure[deposing[d].key] # None
      /\ deposing[d].total = Total(closure[deposing[d].key])
  BY <1>1 DEF LiveDeposing, DeposingConsistent
<1>4. deposing[d].amount \in Nat
  BY <1>3, CashAssumption
<1>5. closure' = closure
  BY DEF DepositInsert
<1> QED BY <1>2, <1>3, <1>4, <1>5

LEMMA RowStep ==
    ASSUME IInv, Next
    PROVE  \A s \in DOMAIN deposit' : RowConsistent(s)'
<1> TAKE s \in DOMAIN deposit'
<1>1. TablesKeep
  BY TablesAreKept
<1>2. ASSUME s \in DOMAIN deposit, deposit'[s].closure = deposit[s].closure
      PROVE  closure'[deposit'[s].closure] # None
  <2>1. deposit[s].closure \in Keys /\ closure[deposit[s].closure] # None
    BY <1>2, RowIsOfAClosing
  <2> QED BY <1>1, <1>2, <2>1 DEF TablesKeep
<1>3. CASE s \in DOMAIN deposit /\ deposit'[s] = deposit[s]
  BY <1>2, <1>3 DEF IInv, RowConsistent
<1>4. CASE \E m \in Mayors :
             /\ ResolveUpdate(m) /\ s = resolving[m].slip /\ s \in DOMAIN deposit
             /\ SameFigures(deposit[s], deposit'[s])
             /\ deposit'[s].status = "resolved"
             /\ deposit'[s].resolvedBy =
                  IF resolving[m].loaded.resolvedBy # m THEN m ELSE deposit[s].resolvedBy
  <2> PICK m \in Mayors :
         /\ ResolveUpdate(m) /\ s = resolving[m].slip /\ s \in DOMAIN deposit
         /\ SameFigures(deposit[s], deposit'[s])
         /\ deposit'[s].status = "resolved"
         /\ deposit'[s].resolvedBy =
              IF resolving[m].loaded.resolvedBy # m THEN m ELSE deposit[s].resolvedBy
    BY <1>4
  <2>1. m # None
    BY CashAssumption
  <2>2. resolving[m].loaded.resolvedBy = m => deposit[s].resolvedBy # None
    BY <2>1 DEF ResolveUpdate, IInv, ResolvingConsistent, RowConsistent, Deposit, DepositStatus
  <2> QED BY <1>2, <2>1, <2>2 DEF RowConsistent, SameFigures
<1>5. CASE \E d \in Receivers : DepositInsert(d) /\ deposit'[s] = NewDeposit(deposing[d], d)
  <2> PICK d \in Receivers : DepositInsert(d) /\ deposit'[s] = NewDeposit(deposing[d], d)
    BY <1>5
  <2>1. deposit'[s].status # "resolved" /\ deposit'[s].resolvedBy = None
    BY NewRowIsConsistent DEF StatusFor
  <2>2. closure'[deposit'[s].closure] # None
    BY NewRowIsConsistent
  <2> QED BY <2>1, <2>2 DEF RowConsistent
<1> QED BY <1>3, <1>4, <1>5, RowsAreKnown

\* The status says on which side of the threshold the discrepancy is.
LEMMA StatusIsTheSide ==
    ASSUME NEW total \in Nat, NEW amount \in Nat
    PROVE  StatusFor(total - amount) = "ok"
              <=> amount \in (total - Threshold) .. (total + Threshold)
BY CashAssumption DEF StatusFor, Disputed

LEMMA FiguresStep ==
    ASSUME IInv, Next
    PROVE  FiguresAgree'
<1> SUFFICES ASSUME NEW s \in DOMAIN deposit'
             PROVE  /\ deposit'[s].discrepancy =
                         Total(closure'[deposit'[s].closure]) - deposit'[s].amount
                    /\ deposit'[s].status = "ok" <=>
                         deposit'[s].amount \in
                           (Total(closure'[deposit'[s].closure]) - Threshold) ..
                           (Total(closure'[deposit'[s].closure]) + Threshold)
  BY DEF FiguresAgree
<1>1. TablesKeep
  BY TablesAreKept
<1>2. CASE s \in DOMAIN deposit
  <2>1. /\ deposit[s].closure \in Keys /\ closure[deposit[s].closure] # None
        /\ deposit[s].discrepancy = Total(closure[deposit[s].closure]) - deposit[s].amount
        /\ deposit[s].status = "ok" <=>
             deposit[s].amount \in (Total(closure[deposit[s].closure]) - Threshold) ..
                                   (Total(closure[deposit[s].closure]) + Threshold)
    BY <1>2, RowIsOfAClosing DEF IInv, FiguresAgree
  <2>2. closure'[deposit'[s].closure] = closure[deposit[s].closure]
    BY <1>1, <1>2, <2>1 DEF TablesKeep, SameFigures
  <2> QED BY <1>1, <1>2, <2>1, <2>2 DEF TablesKeep, SameFigures
<1>3. CASE \E d \in Receivers : DepositInsert(d) /\ deposit'[s] = NewDeposit(deposing[d], d)
  <2> PICK d \in Receivers : DepositInsert(d) /\ deposit'[s] = NewDeposit(deposing[d], d)
    BY <1>3
  <2> PICK row, total : row = deposit'[s] /\ total = Total(closure[row.closure])
    OBVIOUS
  <2>1. /\ closure'[row.closure] = closure[row.closure]
        /\ row.discrepancy = total - row.amount
        /\ row.status = StatusFor(row.discrepancy)
        /\ row.amount \in Nat /\ total \in Nat
    BY NewRowIsConsistent
  <2>2. row.status = "ok" <=> row.amount \in (total - Threshold) .. (total + Threshold)
    BY <2>1, StatusIsTheSide
  <2> QED BY <2>1, <2>2
<1> QED BY <1>2, <1>3, RowsAreKnown

-----------------------------------------------------------------------------
(* The log.                                                                *)

\* What an entry claims of a row, as LogIsTruthful says it.
Claims(entry, row) ==
    CASE entry.action = "DEPOSIT_RECORDED" ->
           row.receiver = entry.actor /\ row.status = "ok"
      [] entry.action = "DEPOSIT_DISPUTE_OPENED" ->
           row.receiver = entry.actor /\ row.status # "ok"
      [] OTHER -> row.status = "resolved"

LEMMA ClaimsByAction ==
    ASSUME NEW entry \in CashAudit, NEW row
    PROVE  Claims(entry, row) <=>
              /\ entry.action = "DEPOSIT_RECORDED" =>
                    row.receiver = entry.actor /\ row.status = "ok"
              /\ entry.action = "DEPOSIT_DISPUTE_OPENED" =>
                    row.receiver = entry.actor /\ row.status # "ok"
              /\ entry.action = "DEPOSIT_DISPUTE_RESOLVED" => row.status = "resolved"
BY DEF CashAudit, Claims

LEMMA LogStep ==
    ASSUME IInv, Next
    PROVE  LogIsTruthful'
<1> SUFFICES ASSUME NEW entry \in audit'
             PROVE  entry.entity \in DOMAIN deposit' /\ Claims(entry, deposit'[entry.entity])
  BY DEF LogIsTruthful, Claims
<1>1. TablesKeep /\ entry \in CashAudit
  BY TablesAreKept, AuditStep
<1>2. CASE entry \in audit
  <2>1. entry.entity \in DOMAIN deposit /\ Claims(entry, deposit[entry.entity])
    BY <1>2 DEF IInv, LogIsTruthful, Claims
  <2> QED BY <1>1, <2>1, ClaimsByAction DEF TablesKeep, SameFigures
<1>3. CASE \E d \in Receivers :
             /\ DepositAudit(d)
             /\ entry = Entry(IF StatusFor(deposing[d].total - deposing[d].amount) = "litige"
                              THEN "DEPOSIT_DISPUTE_OPENED" ELSE "DEPOSIT_RECORDED",
                              deposing[d].slip, d)
  <2> PICK d \in Receivers :
         /\ DepositAudit(d)
         /\ entry = Entry(IF StatusFor(deposing[d].total - deposing[d].amount) = "litige"
                          THEN "DEPOSIT_DISPUTE_OPENED" ELSE "DEPOSIT_RECORDED",
                          deposing[d].slip, d)
    BY <1>3
  <2> PICK status : status = StatusFor(deposing[d].total - deposing[d].amount)
    OBVIOUS
  <2>1. /\ entry.entity = deposing[d].slip /\ entry.actor = d
        /\ entry.action = IF status = "litige" THEN "DEPOSIT_DISPUTE_OPENED"
                          ELSE "DEPOSIT_RECORDED"
        /\ status \in {"ok", "litige"}
    BY DEF Entry, StatusFor
  <2>2. /\ deposing[d].slip \in DOMAIN deposit
        /\ deposit[deposing[d].slip].receiver = d
        /\ deposit[deposing[d].slip].status = "ok" <=> status = "ok"
        /\ UNCHANGED deposit
    BY DEF IInv, DeposingConsistent, DepositAudit
  <2> QED BY <1>1, <2>1, <2>2, ClaimsByAction
<1>4. CASE \E m \in Mayors :
             /\ ResolveAudit(m)
             /\ entry = Entry("DEPOSIT_DISPUTE_RESOLVED", resolving[m].slip, m)
  <2> PICK m \in Mayors :
         /\ ResolveAudit(m)
         /\ entry = Entry("DEPOSIT_DISPUTE_RESOLVED", resolving[m].slip, m)
    BY <1>4
  <2>1. entry.entity = resolving[m].slip /\ entry.action = "DEPOSIT_DISPUTE_RESOLVED"
    BY DEF Entry
  <2>2. /\ resolving[m].slip \in DOMAIN deposit
        /\ deposit[resolving[m].slip].status = "resolved"
        /\ UNCHANGED deposit
    BY ResolvingUnderWay DEF IInv, ResolvingConsistent, ResolveAudit
  <2> QED BY <1>1, <2>1, <2>2, ClaimsByAction
<1> QED BY <1>2, <1>3, <1>4, AuditStep

\* The two halves of MoneyIsTraced, of one row.
ReceiptTraced(s) ==
    LET d == deposit[s].receiver
    IN  \/ d \in Mortal
        \/ \E action \in {"DEPOSIT_RECORDED", "DEPOSIT_DISPUTE_OPENED"} :
              Entry(action, s, d) \in audit
        \/ deposing[d].pc = "audit" /\ deposing[d].slip = s

ResolutionTraced(s, m) ==
    \/ m \in Mortal
    \/ Entry("DEPOSIT_DISPUTE_RESOLVED", s, m) \in audit
    \/ resolving[m].pc = "audit" /\ resolving[m].slip = s

LEMMA TracedInHalves ==
    MoneyIsTraced <=>
        \A s \in DOMAIN deposit :
            /\ ReceiptTraced(s)
            /\ deposit[s].status = "resolved" => ResolutionTraced(s, deposit[s].resolvedBy)
BY DEF MoneyIsTraced, ReceiptTraced, ResolutionTraced

\* A request leaves its audit by writing the entry or by dying.
LEMMA ReceiptStaysTraced ==
    ASSUME IInv, Next, NEW s, ReceiptTraced(s), deposit[s].receiver \in Receivers,
           deposit'[s].receiver = deposit[s].receiver
    PROVE  ReceiptTraced(s)'
<1> PICK d \in Receivers : d = deposit[s].receiver
  OBVIOUS
<1>1. audit \subseteq audit'
  BY AuditStep
<1>2. CASE d \in Mortal \/ \E action \in {"DEPOSIT_RECORDED", "DEPOSIT_DISPUTE_OPENED"} :
              Entry(action, s, d) \in audit
  BY <1>1, <1>2 DEF ReceiptTraced
<1>3. CASE deposing[d].pc = "audit" /\ deposing[d].slip = s
  <2>1. CASE deposing'[d] = deposing[d]
    BY <1>3, <2>1 DEF ReceiptTraced
  <2>2. CASE DepositAudit(d)
    <3> PICK action \in {"DEPOSIT_DISPUTE_OPENED", "DEPOSIT_RECORDED"} :
           action = IF StatusFor(deposing[d].total - deposing[d].amount) = "litige"
                    THEN "DEPOSIT_DISPUTE_OPENED" ELSE "DEPOSIT_RECORDED"
      OBVIOUS
    <3>1. Entry(action, s, d) \in audit'
      BY <1>3, <2>2 DEF DepositAudit, Record
    <3> QED BY <3>1 DEF ReceiptTraced
  <2>3. CASE LoseDeposing(d)
    BY <2>3 DEF LoseDeposing, ReceiptTraced
  <2>4. ASSUME NEW other \in Receivers, NEW r, OneDeposing(other, r),
               deposing[other].pc # "audit"
        PROVE  deposing'[d] = deposing[d]
    BY <1>3, <2>4 DEF OneDeposing
  <2>5. ASSUME NEW other \in Receivers, other # d, DepositAudit(other) \/ LoseDeposing(other)
        PROVE  deposing'[d] = deposing[d]
    BY <2>5, DeposingEnds DEF DepositAudit, LoseDeposing, OneDeposing, IInv
  <2>6. CASE \E other \in Receivers : \E k \in Keys, amount \in Counted :
               DepositFind(other, k, amount)
    <3> PICK other \in Receivers, k \in Keys, amount \in Counted :
           DepositFind(other, k, amount)
      BY <2>6
    <3>1. \E r : OneDeposing(other, r)
      BY FindDepositStep DEF IInv
    <3>2. deposing'[d] = deposing[d]
      BY <2>4, <3>1 DEF DepositFind, NoDeposing
    <3> QED BY <2>1, <3>2
  <2>7. CASE \E other \in Receivers : DepositCheck(other)
    BY <2>1, <2>4, <2>7, CheckDepositStep DEF DepositCheck, IInv
  <2>8. CASE \E other \in Receivers : DepositInsert(other)
    BY <2>1, <2>4, <2>8, InsertDepositStep DEF DepositInsert, IInv
  <2> QED
    BY <2>1, <2>2, <2>3, <2>5, <2>6, <2>7, <2>8
       DEF Next, LedgerStep, TicketAdmitted, TicketSaved, TicketRedated,
         TicketSettled, TicketCancelled, CloseFind, CloseInsert, LoseClosing,
           ResolveFind, ResolveSelect, ResolveUpdate, ResolveAudit, LoseResolving, cashVars
<1> QED BY <1>2, <1>3 DEF ReceiptTraced

LEMMA ResolutionStaysTraced ==
    ASSUME IInv, Next, NEW s, NEW m \in Mayors, ResolutionTraced(s, m)
    PROVE  ResolutionTraced(s, m)'
<1>1. audit \subseteq audit'
  BY AuditStep
<1>2. CASE m \in Mortal \/ Entry("DEPOSIT_DISPUTE_RESOLVED", s, m) \in audit
  BY <1>1, <1>2 DEF ResolutionTraced
<1>3. CASE resolving[m].pc = "audit" /\ resolving[m].slip = s
  <2>1. CASE resolving'[m] = resolving[m]
    BY <1>3, <2>1 DEF ResolutionTraced
  <2>2. CASE ResolveAudit(m)
    BY <1>3, <2>2 DEF ResolveAudit, Record, ResolutionTraced
  <2>3. CASE LoseResolving(m)
    BY <2>3 DEF LoseResolving, ResolutionTraced
  <2>4. ASSUME NEW other \in Mayors, NEW r, OneResolving(other, r),
               resolving[other].pc # "audit"
        PROVE  resolving'[m] = resolving[m]
    BY <1>3, <2>4 DEF OneResolving
  <2>5. ASSUME NEW other \in Mayors, other # m, ResolveAudit(other) \/ LoseResolving(other)
        PROVE  resolving'[m] = resolving[m]
    BY <2>5, ResolvingEnds DEF ResolveAudit, LoseResolving, OneResolving, IInv
  <2>6. CASE \E other \in Mayors : \E t \in Slips : ResolveFind(other, t)
    <3> PICK other \in Mayors, t \in Slips : ResolveFind(other, t)
      BY <2>6
    <3>1. \E r : OneResolving(other, r)
      BY FindDisputeStep DEF IInv
    <3> QED BY <2>1, <2>4, <3>1 DEF ResolveFind, NoResolving
  <2>7. CASE \E other \in Mayors : ResolveSelect(other)
    BY <2>1, <2>4, <2>7, SelectDisputeStep DEF ResolveSelect, IInv
  <2>8. CASE \E other \in Mayors : ResolveUpdate(other)
    BY <2>1, <2>4, <2>8, UpdateDisputeStep DEF ResolveUpdate, IInv
  <2> QED
    BY <2>1, <2>2, <2>3, <2>5, <2>6, <2>7, <2>8
       DEF Next, LedgerStep, TicketAdmitted, TicketSaved, TicketRedated,
         TicketSettled, TicketCancelled, CloseFind, CloseInsert, LoseClosing,
           DepositFind, DepositCheck, DepositInsert, DepositAudit, LoseDeposing, cashVars
<1> QED BY <1>2, <1>3 DEF ResolutionTraced

LEMMA TracedStep ==
    ASSUME IInv, Next
    PROVE  MoneyIsTraced'
<1> SUFFICES ASSUME NEW s \in DOMAIN deposit'
             PROVE  /\ ReceiptTraced(s)'
                    /\ deposit'[s].status = "resolved" =>
                          \A m : m = deposit'[s].resolvedBy => ResolutionTraced(s, m)'
  BY DEF MoneyIsTraced, ReceiptTraced, ResolutionTraced
<1>1. ASSUME s \in DOMAIN deposit
      PROVE  /\ deposit[s].receiver \in Receivers /\ ReceiptTraced(s)
             /\ deposit[s].status = "resolved" =>
                   /\ deposit[s].resolvedBy \in Mayors
                   /\ ResolutionTraced(s, deposit[s].resolvedBy)
  <2>1. deposit[s] \in Deposit
    BY <1>1, LenProperties DEF IInv, CashTypeOK
  <2>2. deposit[s].status = "resolved" => deposit[s].resolvedBy # None
    BY <1>1 DEF IInv, RowConsistent
  <2> QED BY <1>1, <2>1, <2>2, TracedInHalves DEF IInv, Deposit
<1>2. CASE s \in DOMAIN deposit /\ deposit'[s] = deposit[s]
  <2>1. ReceiptTraced(s)'
    BY <1>1, <1>2, ReceiptStaysTraced
  <2>2. ASSUME NEW m, m = deposit'[s].resolvedBy, deposit'[s].status = "resolved"
        PROVE  ResolutionTraced(s, m)'
    <3>1. m \in Mayors /\ ResolutionTraced(s, m)
      BY <1>1, <1>2, <2>2
    <3> QED BY <3>1, ResolutionStaysTraced
  <2> QED BY <2>1, <2>2
<1>3. CASE \E m \in Mayors :
             /\ ResolveUpdate(m) /\ s = resolving[m].slip /\ s \in DOMAIN deposit
             /\ SameFigures(deposit[s], deposit'[s])
             /\ deposit'[s].status = "resolved"
             /\ deposit'[s].resolvedBy =
                  IF resolving[m].loaded.resolvedBy # m THEN m ELSE deposit[s].resolvedBy
  <2> PICK m \in Mayors :
         /\ ResolveUpdate(m) /\ s = resolving[m].slip /\ s \in DOMAIN deposit
         /\ SameFigures(deposit[s], deposit'[s])
         /\ deposit'[s].status = "resolved"
         /\ deposit'[s].resolvedBy =
              IF resolving[m].loaded.resolvedBy # m THEN m ELSE deposit[s].resolvedBy
    BY <1>3
  <2>1. ReceiptTraced(s)'
    BY <1>1, ReceiptStaysTraced DEF SameFigures
  <2>2. CASE resolving[m].loaded.resolvedBy # m
    <3> PICK r : r = [resolving[m] EXCEPT !.pc = "audit", !.ent = None, !.loaded = None]
      OBVIOUS
    <3>1. resolving[m] \in LiveResolving /\ OneResolving(m, r)
      BY UpdateDisputeStep DEF IInv
    <3>2. r.pc = "audit" /\ r.slip = s
      BY <3>1 DEF LiveResolving
    <3>3. ResolutionTraced(s, m)'
      BY <3>1, <3>2 DEF OneResolving, ResolutionTraced
    <3> QED BY <2>1, <2>2, <3>3
  <2>3. CASE resolving[m].loaded.resolvedBy = m
    <3>1. m # None /\ ResolvingConsistent(m) /\ resolving[m].pc = "update"
      BY CashAssumption DEF IInv, ResolveUpdate
    <3>2. deposit[s].status = "resolved"
      BY <2>3, <3>1 DEF ResolvingConsistent, Deposit, DepositStatus
    <3>3. ASSUME NEW who, who = deposit'[s].resolvedBy
          PROVE  ResolutionTraced(s, who)'
      <4>1. who \in Mayors /\ ResolutionTraced(s, who)
        BY <1>1, <2>3, <3>2, <3>3
      <4> QED BY <4>1, ResolutionStaysTraced
    <3> QED BY <2>1, <3>3
  <2> QED BY <2>2, <2>3
<1>4. CASE \E d \in Receivers :
             /\ DepositInsert(d) /\ deposit'[s] = NewDeposit(deposing[d], d)
             /\ deposing'[d].pc = "audit" /\ deposing'[d].slip = s
  <2> PICK d \in Receivers :
         /\ DepositInsert(d) /\ deposit'[s] = NewDeposit(deposing[d], d)
         /\ deposing'[d].pc = "audit" /\ deposing'[d].slip = s
    BY <1>4
  <2>1. deposit'[s].receiver = d /\ deposit'[s].status # "resolved"
    BY NewRowIsConsistent DEF StatusFor
  <2> QED BY <2>1 DEF ReceiptTraced
<1> QED BY <1>2, <1>3, <1>4, RowsAreKnown

-----------------------------------------------------------------------------
(* The theorems.                                                           *)

LEMMA IInvStarts ==
    ASSUME Init
    PROVE  IInv
<1>1. /\ deposit = <<>> /\ deposit \in Seq(Deposit) /\ Len(deposit) = 0 /\ DOMAIN deposit = {}
      /\ Len(deposit) <= MaxDeposits
  BY EmptySeq, CashAssumption DEF Init
<1>2. NoClosing \in ClosingRequest /\ NoDeposing \in DeposingRequest
      /\ NoResolving \in ResolvingRequest
  BY DEF ClosingRequest, DeposingRequest, ResolvingRequest
<1>3. CashTypeOK
  BY <1>1, <1>2 DEF Init, CashTypeOK
<1>4. InFlight = {} /\ Waiting = {}
  BY DEF Init, InFlight, Waiting, NoDeposing
<1>5. RoomIsKept
  BY <1>1, <1>4, FS_EmptySet, CashAssumption DEF RoomIsKept
<1>6. KnownIsDated
  BY DEF Init, KnownIsDated
<1>7. \A d \in Receivers : DeposingConsistent(d)
  BY DEF Init, DeposingConsistent, NoDeposing
<1>8. \A m \in Mayors : ResolvingConsistent(m)
  BY DEF Init, ResolvingConsistent, NoResolving
<1>9. /\ \A s \in DOMAIN deposit : RowConsistent(s)
      /\ FiguresAgree /\ LogIsTruthful /\ MoneyIsTraced
  BY <1>1 DEF Init, FiguresAgree, LogIsTruthful, MoneyIsTraced
<1> QED BY <1>3, <1>5, <1>6, <1>7, <1>8, <1>9 DEF IInv

LEMMA IInvHolds == Spec => []IInv
<1>1. Init => IInv
  BY IInvStarts
<1>2. IInv /\ [Next]_vars => IInv'
  <2> SUFFICES ASSUME IInv, [Next]_vars PROVE IInv'
    OBVIOUS
  <2>1. CASE Next
    <3>1. CashTypeOK /\ KnownIsDated
      BY DEF IInv
    <3> QED BY <2>1, <3>1, TypeStep, RoomStep, DatedStep, DeposingStep, ResolvingStep,
               RowStep, FiguresStep, LogStep, TracedStep DEF IInv
  <2>2. CASE UNCHANGED vars
    <3> USE <2>2 DEF vars, ledgerVars, cashVars
    <3>1. CashTypeOK'
      BY DEF IInv, CashTypeOK
    <3>2. RoomIsKept' /\ KnownIsDated'
      BY DEF IInv, RoomIsKept, InFlight, Waiting, KnownIsDated
    <3>3. \A d \in Receivers : DeposingConsistent(d)'
      BY DEF IInv, DeposingConsistent
    <3>4. \A m \in Mayors : ResolvingConsistent(m)'
      BY DEF IInv, ResolvingConsistent
    <3>5. \A s \in DOMAIN deposit' : RowConsistent(s)'
      BY DEF IInv, RowConsistent
    <3>6. FiguresAgree' /\ LogIsTruthful'
      BY DEF IInv, FiguresAgree, LogIsTruthful
    <3>7. MoneyIsTraced'
      BY DEF IInv, MoneyIsTraced
    <3> QED BY <3>1, <3>2, <3>3, <3>4, <3>5, <3>6, <3>7 DEF IInv
  <2> QED BY <2>1, <2>2
<1> QED BY <1>1, <1>2, PTL DEF Spec

(***************************************************************************)
(* The tables and the requests keep their shape; in particular the total a *)
(* deposit request carries, and so the discrepancy it stores, is a number, *)
(* whatever the set of tickets the closing sums.                           *)
(***************************************************************************)
THEOREM CashTypeCorrect == Spec => []CashTypeOK
<1>1. IInv => CashTypeOK
  BY DEF IInv
<1> QED BY <1>1, IInvHolds, PTL

(***************************************************************************)
(* A deposit is disputed exactly when the amount counted is further from   *)
(* the total of its closing than the threshold: a closing is never summed  *)
(* again, so the total read two statements before the insert is the total  *)
(* for good, and a resolution moves no figure.                             *)
(***************************************************************************)
THEOREM FiguresAlwaysAgree == Spec => []FiguresAgree
<1>1. IInv => FiguresAgree
  BY DEF IInv
<1> QED BY <1>1, IInvHolds, PTL

(***************************************************************************)
(* Every entry of the log tells of a row that is what it says.             *)
(***************************************************************************)
THEOREM LogStaysTruthful == Spec => []LogIsTruthful
<1>1. IInv => LogIsTruthful
  BY DEF IInv
<1> QED BY <1>1, IInvHolds, PTL

(***************************************************************************)
(* Whom a row names, the log names or is about to, unless that request may *)
(* die, even when several mayors resolve one dispute from stale copies:    *)
(* the save of a mayor leaves the row to somebody else only when it loaded *)
(* itself, which takes a save of its own before.                           *)
(***************************************************************************)
THEOREM MoneyStaysTraced == Spec => []MoneyIsTraced
<1>1. IInv => MoneyIsTraced
  BY DEF IInv
<1> QED BY <1>1, IInvHolds, PTL

\* Only an insert adds to the deposits of a closing, and only a request that
\* found none gets to an insert.
LEMMA SettledStep ==
    ASSUME IInv, Next, NEW k \in Keys, SettledClosure(k)
    PROVE  SettledClosure(k)' /\ DepositsOf(k)' = DepositsOf(k)
<1>1. TablesKeep
  BY TablesAreKept
<1>2. ASSUME NEW s \in DOMAIN deposit' \ DOMAIN deposit
      PROVE  deposit'[s].closure # k
  <2>1. PICK d \in Receivers : DepositInsert(d) /\ deposit'[s] = NewDeposit(deposing[d], d)
    BY <1>2, RowsAreKnown
  <2>2. deposit'[s].closure = deposing[d].key
    BY <2>1 DEF NewDeposit
  <2> QED BY <2>1, <2>2 DEF SettledClosure, Inserting, DepositInsert
<1>3. DepositsOf(k)' = DepositsOf(k)
  BY <1>1, <1>2 DEF TablesKeep, SameFigures, DepositsOf
<1>4. ~Inserting(k)'
  <2>1. CASE UNCHANGED deposing
    BY <2>1 DEF SettledClosure, Inserting
  <2>2. ASSUME NEW d \in Receivers, NEW r, OneDeposing(d, r), r.pc = "insert" => r.key # k
        PROVE  ~Inserting(k)'
    BY <2>2 DEF OneDeposing, SettledClosure, Inserting
  <2>3. CASE \E d \in Receivers : \E q \in Keys, amount \in Counted : DepositFind(d, q, amount)
    <3> PICK d \in Receivers, q \in Keys, amount \in Counted : DepositFind(d, q, amount)
      BY <2>3
    <3> PICK r : r = [pc |-> "check", key |-> q, amount |-> amount,
                      total |-> Total(closure[q]), slip |-> 0]
      OBVIOUS
    <3>1. OneDeposing(d, r) /\ r.pc = "check"
      BY FindDepositStep DEF IInv
    <3> QED BY <2>2, <3>1
  <2>4. CASE \E d \in Receivers : DepositCheck(d)
    <3> PICK d \in Receivers : DepositCheck(d)
      BY <2>4
    <3>1. CASE AlreadyDeposited(deposing[d].key)
      <4>1. OneDeposing(d, NoDeposing)
        BY <3>1, CheckDepositStep DEF IInv
      <4>2. NoDeposing.pc # "insert"
        BY DEF NoDeposing
      <4> QED BY <2>2, <4>1, <4>2
    <3>2. CASE ~AlreadyDeposited(deposing[d].key)
      <4> PICK r : r = [deposing[d] EXCEPT !.pc = "insert"]
        OBVIOUS
      <4>1. OneDeposing(d, r) /\ deposing[d] \in LiveDeposing
        BY <3>2, CheckDepositStep DEF IInv
      <4>2. r.key = deposing[d].key
        BY <4>1 DEF LiveDeposing
      <4>3. deposing[d].key # k
        BY <3>2 DEF SettledClosure
      <4> QED BY <2>2, <4>1, <4>2, <4>3
    <3> QED BY <3>1, <3>2
  <2>5. CASE \E d \in Receivers : DepositInsert(d)
    <3> PICK d \in Receivers : DepositInsert(d)
      BY <2>5
    <3> PICK r : r = [deposing[d] EXCEPT !.pc = "audit", !.slip = Len(deposit) + 1]
      OBVIOUS
    <3>1. OneDeposing(d, r) /\ deposing[d] \in LiveDeposing
      BY InsertDepositStep DEF IInv
    <3>2. r.pc = "audit"
      BY <3>1 DEF LiveDeposing
    <3> QED BY <2>2, <3>1, <3>2
  <2>6. CASE \E d \in Receivers : DepositAudit(d) \/ LoseDeposing(d)
    <3> PICK d \in Receivers : DepositAudit(d) \/ LoseDeposing(d)
      BY <2>6
    <3>1. OneDeposing(d, NoDeposing) /\ NoDeposing.pc # "insert"
      BY DeposingEnds DEF DepositAudit, LoseDeposing, IInv, NoDeposing
    <3> QED BY <2>2, <3>1
  <2> QED
    BY <2>1, <2>3, <2>4, <2>5, <2>6
       DEF Next, LedgerStep, TicketAdmitted, TicketSaved, TicketRedated,
         TicketSettled, TicketCancelled, CloseFind, CloseInsert, LoseClosing,
           ResolveFind, ResolveSelect, ResolveUpdate, ResolveAudit, LoseResolving, cashVars
<1> QED BY <1>3, <1>4 DEF SettledClosure, AlreadyDeposited

(***************************************************************************)
(* A closing that has its deposit, and no request past its search for one, *)
(* never gets another, however many receivers try.                         *)
(***************************************************************************)
THEOREM SettledStaysSettled == Spec => SettledClosureIsFinal
<1>1. IInv /\ [Next]_vars =>
        [\A k \in Keys : SettledClosure(k) =>
           SettledClosure(k)' /\ DepositsOf(k)' = DepositsOf(k)]_vars
  BY SettledStep
<1> QED BY <1>1, IInvHolds, PTL DEF Spec, SettledClosureIsFinal

\* A settled ticket that counts keeps its key, so a closing read for it sums it.
LEMMA InTimeStep ==
    ASSUME IInv, Next, NEW id \in Ids, InTime(id)
    PROVE  InTime(id)'
<1>1. CASE \E t \in Ids : LedgerStep(t)
  <2> PICK t \in Ids : LedgerStep(t)
    BY <1>1
  <2>1. UNCHANGED <<closure, closing>>
    BY LedgerLeavesCash
  <2>2. CASE t = id
    BY <2>2, LedgerMoves DEF InTime, IInv
  <2>3. CASE t # id
    BY <2>1, <2>3, LedgerMoves DEF InTime, Key, IInv
  <2> QED BY <2>2, <2>3
<1>2. CASE ticket[id] = "cancelled" /\ UNCHANGED ledgerVars
  BY <1>2 DEF InTime, ledgerVars
<1>3. CASE ticket[id] # "cancelled" /\ UNCHANGED ledgerVars
  <2> PICK k \in Keys : k = Key(id)
    BY <1>3, CashAssumption DEF InTime, IInv, KnownIsDated, Key, Keys
  <2>1. /\ id \notin unsettled /\ ticket[id] = "counted"
        /\ closure[k] = None \/ id \in closure[k]
        /\ \A c \in Closers : closing[c].key = k => id \in closing[c].tickets
    BY <1>3 DEF InTime
  <2>2. None # k
    BY CashAssumption
  <2>3. ASSUME closure'[k] = None \/ id \in closure'[k],
               \A c \in Closers : closing'[c].key = k => id \in closing'[c].tickets
        PROVE  InTime(id)'
    BY <1>3, <2>1, <2>3 DEF InTime, Key, ledgerVars
  <2>4. CASE UNCHANGED <<closure, closing>>
    BY <2>1, <2>3, <2>4
  <2>5. CASE \E c \in Closers : \E q \in Keys : CloseFind(c, q)
    <3> PICK c \in Closers, q \in Keys : CloseFind(c, q)
      BY <2>5
    <3>1. q = k => id \in Summed(q)
      BY <2>1 DEF Summed, FoundByAgent
    <3>2. /\ closing' = [closing EXCEPT ![c] =
                           [pc |-> "insert", key |-> q, tickets |-> Summed(q)]]
          /\ UNCHANGED closure
      BY DEF CloseFind
    <3>3. \A e \in Closers : closing'[e].key = k => id \in closing'[e].tickets
      BY <2>1, <3>1, <3>2 DEF IInv, CashTypeOK
    <3> QED BY <2>1, <2>3, <3>2, <3>3
  <2>6. CASE \E c \in Closers : CloseInsert(c) \/ LoseClosing(c)
    <3> PICK c \in Closers : CloseInsert(c) \/ LoseClosing(c)
      BY <2>6
    <3>1. closing' = [closing EXCEPT ![c] = NoClosing] /\ NoClosing.key # k
      BY <2>2 DEF CloseInsert, LoseClosing, NoClosing
    <3>2. \A e \in Closers : closing'[e].key = k => id \in closing'[e].tickets
      BY <2>1, <3>1 DEF IInv, CashTypeOK
    <3>3. \/ closure'[k] = closure[k]
          \/ closing[c].key = k /\ closure'[k] = closing[c].tickets
      <4>1. closure \in [Keys -> (SUBSET Ids) \cup {None}]
        BY DEF IInv, CashTypeOK
      <4>2. \/ closure' = closure
            \/ closure' = [closure EXCEPT ![closing[c].key] = closing[c].tickets]
        BY DEF CloseInsert, LoseClosing
      <4> QED BY <4>1, <4>2
    <3> QED BY <2>1, <2>3, <3>2, <3>3
  <2> QED
    BY <1>3, <2>4, <2>5, <2>6, LedgerLeavesCash
       DEF Next, DepositFind, DepositCheck, DepositInsert, DepositAudit,
           LoseDeposing, ResolveFind, ResolveSelect, ResolveUpdate, ResolveAudit,
           LoseResolving
<1> QED
  BY <1>1, <1>2, <1>3
     DEF Next, CloseFind, CloseInsert, LoseClosing, DepositFind, DepositCheck,
         DepositInsert, DepositAudit, LoseDeposing, ResolveFind, ResolveSelect,
         ResolveUpdate, ResolveAudit, LoseResolving

(***************************************************************************)
(* A ticket that is in the ledger, with no sync left that may save it      *)
(* again, before the closing of its day is read is in the total whichever  *)
(* closing is inserted, unless it is cancelled.                            *)
(***************************************************************************)
THEOREM CollectedGetsClosed == Spec => CollectedIsClosed
<1>1. IInv /\ [Next]_vars => [\A id \in Ids : InTime(id) => InTime(id)']_vars
  BY InTimeStep
<1> QED BY <1>1, IInvHolds, PTL DEF Spec, CollectedIsClosed

=============================================================================
