------------------------ MODULE ReservationStockProofs ------------------------
(***************************************************************************)
(* Proofs about the units themselves: what leaves the shelf is what the    *)
(* order items say was sold, and what is reserved is what the live holds   *)
(* ask for, up to what a rejected order has released twice.                *)
(***************************************************************************)
EXTENDS ReservationOutcomeProofs

-----------------------------------------------------------------------------
(* Counting units.                                                         *)

\* The units that some lines ask of a row, as a set.
Demand(L, s) == {u \in Unit : u[1] \in L /\ SkuOf(u[1]) = s}

LEMMA DemandFinite ==
    ASSUME NEW L, NEW s
    PROVE  IsFiniteSet(Demand(L, s)) /\ Units(L, s) = Cardinality(Demand(L, s))
<1>1. IsFiniteSet(Demand(L, s))
  BY UnitAssumption, FS_Subset DEF Demand
<1>2. QED
  BY <1>1 DEF Demand, Units

LEMMA UnitLine ==
    ASSUME NEW u \in Unit
    PROVE  u[1] \in Line
BY DEF Unit

\* Lines that no two sets share are counted once.
LEMMA UnitsDisjoint ==
    ASSUME NEW L, NEW M, NEW s, L \cap M = {}
    PROVE  Units(L \cup M, s) = Units(L, s) + Units(M, s)
<1>1. Demand(L \cup M, s) = Demand(L, s) \cup Demand(M, s)
  BY DEF Demand
<1>2. Demand(L, s) \cap Demand(M, s) = {}
  BY DEF Demand
<1>3. Cardinality(Demand(L, s) \cup Demand(M, s))
        = Cardinality(Demand(L, s)) + Cardinality(Demand(M, s))
            - Cardinality(Demand(L, s) \cap Demand(M, s))
  BY DemandFinite, FS_Union
<1>4. Cardinality(Demand(L, s) \cap Demand(M, s)) = 0
  BY <1>2, FS_EmptySet
<1>5. Units(L, s) \in Nat /\ Units(M, s) \in Nat
  BY UnitsType
<1>6. /\ Units(L, s) = Cardinality(Demand(L, s))
      /\ Units(M, s) = Cardinality(Demand(M, s))
      /\ Units(L \cup M, s) = Cardinality(Demand(L \cup M, s))
  BY DemandFinite
<1>7. Units(L \cup M, s) = Units(L, s) + Units(M, s) - 0
  BY <1>1, <1>3, <1>4, <1>6, Zenon
<1>8. QED
  BY <1>5, <1>7

\* Only the lines on the row count.
LEMMA UnitsAlike ==
    ASSUME NEW L, NEW M, NEW s,
           \A l \in Line : SkuOf(l) = s => (l \in L <=> l \in M)
    PROVE  Units(L, s) = Units(M, s)
<1>1. Demand(L, s) = Demand(M, s)
  BY UnitLine DEF Demand
<1>2. QED
  BY <1>1 DEF Demand, Units

-----------------------------------------------------------------------------
(* What is sold.                                                           *)

LEMMA SoldOnceInit == Init => SoldOnce
<1> SUFFICES ASSUME Init, NEW s \in Sku
             PROVE  inv[s].onHand + Units(sold, s) = OnHand[s]
  BY DEF SoldOnce
<1>1. Demand({}, s) = {}
  BY DEF Demand
<1>2. Units(sold, s) = 0
  BY <1>1, DemandFinite, FS_EmptySet DEF Init
<1>3. inv[s].onHand = OnHand[s] /\ OnHand[s] \in Nat
  BY OnHandAssumption DEF Init
<1>4. QED
  BY <1>2, <1>3

\* Reserving and releasing leave qty_on_hand alone.
LEMMA ShelfUntouched ==
    ASSUME NEW rows, NEW L, NEW s \in Sku, rows \in [Sku -> Row]
    PROVE  /\ Reserved(rows, L)[s].onHand = rows[s].onHand
           /\ Released(rows, L)[s].onHand = rows[s].onHand
<1>1. rows[s] \in Row
  OBVIOUS
<1>2. QED
  BY <1>1 DEF Reserved, Released, Row

\* So a step that only reserves or releases, and sells nothing, keeps the balance.
LEMMA NothingSold ==
    ASSUME TypeOK, SoldOnce, UNCHANGED sold,
           \A s \in Sku : inv'[s].onHand = inv[s].onHand
    PROVE  SoldOnce'
<1>1. \A s \in Sku : Units(sold', s) = Units(sold, s)
  OBVIOUS
<1>2. QED
  BY <1>1 DEF SoldOnce, Units

\* Window 2: what consume() takes from the rows is what the internal order items
\* say, and none of those lines was sold before.
LEMMA ConfirmCommitSells ==
    ASSUME TypeOK, Protocol, SoldOnce, NEW r \in Resv, ConfirmCommit(r)
    PROVE  SoldOnce'
<1>1. resv[r] = "CONFIRMING"
  BY DEF ConfirmCommit, Protocol, Owned
<1>2. PICK took \in SUBSET {l \in Lines(r) : Internal(l)} :
         /\ \/ inv' = Consumed(inv, took)
            \/ \E G \in SUBSET took : inv' = Released(Consumed(inv, took), G)
         /\ sold' = sold \cup took \cup Answered(r, "ok")
         /\ Granted(inv, took, {l \in Lines(r) : Internal(l)})
  BY DEF ConfirmCommit
<1> SUFFICES ASSUME NEW s \in Sku, Kind[s] = "internal"
             PROVE  inv'[s].onHand + Units(sold', s) = OnHand[s]
  BY DEF SoldOnce, Units
<1>3. sold \cap took = {}
  BY <1>1, <1>2 DEF Protocol, SoldLast, Lines
<1>4. Units(sold', s) = Units(sold \cup took, s)
  <2>1. \A l \in Answered(r, "ok") : SkuOf(l) # s
    BY DEF Answered, OtherLines, Internal
  <2>2. QED
    BY <1>2, <2>1, UnitsAlike
<1>5. Units(sold', s) = Units(sold, s) + Units(took, s)
  BY <1>3, <1>4, UnitsDisjoint
<1>6. inv'[s].onHand = inv[s].onHand - Units(took, s)
  <2>1. Consumed(inv, took)[s].onHand = inv[s].onHand - Units(took, s)
    BY DEF Consumed
  <2>2. ASSUME NEW G PROVE Released(Consumed(inv, took), G)[s].onHand
                             = Consumed(inv, took)[s].onHand
    BY DEF Consumed, Released
  <2>3. QED
    BY <1>2, <2>1, <2>2
<1>7. inv[s].onHand \in Nat /\ Units(sold, s) \in Nat /\ Units(took, s) \in Nat
  BY UnitsType DEF TypeOK, Row
<1>8. inv[s].onHand + Units(sold, s) = OnHand[s]
  BY DEF SoldOnce
<1>9. QED
  BY <1>5, <1>6, <1>7, <1>8

LEMMA SoldOnceNext ==
    ASSUME TypeOK, Protocol, SoldOnce, [Next]_vars
    PROVE  SoldOnce'
<1>1. CASE \E r \in Resv : ConfirmCommit(r)
  BY <1>1, ConfirmCommitSells
<1>2. CASE UNCHANGED <<inv, sold>>
  BY <1>2, NothingSold
<1>3. ASSUME NEW r \in Resv, Tx1Commit(r) \/ FinalizeFail(r) \/ Cancel(r) \/ Sweep
      PROVE  SoldOnce'
  <2>1. inv \in [Sku -> Row]
    BY DEF TypeOK
  <2>2. PICK L : inv' = Reserved(inv, L) \/ inv' = Released(inv, L)
    BY <1>3 DEF Tx1Commit, FinalizeFail, Cancel, Sweep, GiveUp
  <2>3. UNCHANGED sold
    BY <1>3 DEF Tx1Commit, FinalizeFail, Cancel, Sweep, GiveUp
  <2>4. QED
    BY <2>1, <2>2, <2>3, ShelfUntouched, NothingSold
<1>4. CASE Next
  <2>1. ASSUME NEW r \in Resv, Client(r)
        PROVE  UNCHANGED <<inv, sold>> \/ Cancel(r)
    BY <2>1 DEF Client, Lookup, ConfirmClaim, ConfirmRefuse
  <2>2. ASSUME NEW r \in Resv, Create(r)
        PROVE  UNCHANGED <<inv, sold>> \/ Tx1Commit(r) \/ FinalizeFail(r)
    BY <2>2 DEF Create, Tx1Rollback, CallReserve, SaveItem, FinalizeOk, FinalizeAbort
  <2>3. ASSUME NEW r \in Resv, Confirm(r)
        PROVE  UNCHANGED <<inv, sold>> \/ ConfirmCommit(r)
    BY <2>3 DEF Confirm, CallConfirm, ConfirmAbort
  <2>4. ASSUME NEW r \in Resv, Elapse(r) \/ Crash(r)
        PROVE  UNCHANGED <<inv, sold>>
    BY <2>4 DEF Elapse, Crash
  <2>5. Sweep => \E r \in Resv : TRUE
    BY DEF Sweep, Due, TypeOK
  <2>6. ASSUME NEW l \in Line, LateArrival(l)
        PROVE  UNCHANGED <<inv, sold>>
    BY <2>6 DEF LateArrival
  <2>7. ASSUME NEW t \in Task, Worker(t)
        PROVE  UNCHANGED <<inv, sold>>
    BY <2>7 DEF Worker, DrainDone, DrainFail, Reopen
  <2>8. QED
    BY <1>1, <1>2, <1>3, <1>4, <2>1, <2>2, <2>3, <2>4, <2>5, <2>6, <2>7 DEF Next, Serve
<1>5. CASE UNCHANGED vars
  BY <1>2, <1>5 DEF vars
<1>6. QED
  BY <1>4, <1>5

\* A unit leaves qty_on_hand exactly once for each unit that an order item records,
\* whatever was released, compensated or retried around it.
THEOREM UnitsAreSoldOnce == Spec => []SoldOnce
<1>1. TypeOK /\ Protocol /\ SoldOnce /\ [Next]_vars => SoldOnce'
  BY SoldOnceNext
<1>2. QED
  BY SoldOnceInit, <1>1, TypeCorrect, ProtocolAlways, PTL DEF Spec

-----------------------------------------------------------------------------
(* More about units and guards.                                            *)

\* A subset asks for no more than the whole.
LEMMA UnitsMonotonic ==
    ASSUME NEW L, NEW M, L \subseteq M, NEW s
    PROVE  /\ Units(L, s) <= Units(M, s)
           /\ Units(M \ L, s) = Units(M, s) - Units(L, s)
<1>1. Units(L \cup (M \ L), s) = Units(L, s) + Units(M \ L, s)
  <2>1. L \cap (M \ L) = {}
    OBVIOUS
  <2>2. QED
    BY <2>1, UnitsDisjoint
<1>2. L \cup (M \ L) = M
  OBVIOUS
<1>3. Units(L, s) \in Nat /\ Units(M \ L, s) \in Nat /\ Units(M, s) \in Nat
  BY UnitsType
<1>4. Units(M, s) = Units(L, s) + Units(M \ L, s)
  BY <1>1, <1>2
<1>5. QED
  BY <1>3, <1>4

LEMMA UnitsNone ==
    ASSUME NEW L, NEW s, \A l \in L : SkuOf(l) # s
    PROVE  Units(L, s) = 0
<1>1. Demand(L, s) = {}
  BY DEF Demand
<1>2. QED
  BY <1>1, DemandFinite, FS_EmptySet

\* One line asks its own row for its quantity.
LEMMA UnitsOfLine ==
    ASSUME NEW l \in Line
    PROVE  Units({l}, SkuOf(l)) = Qty(l)
<1>1. Demand({l}, SkuOf(l)) = {l} \X (1 .. Qty(l))
  BY DEF Demand, Unit
<1>2. Qty(l) \in Nat
  BY LineFacts
<1>3. IsFiniteSet(1 .. Qty(l)) /\ Cardinality(1 .. Qty(l)) = Qty(l)
  BY <1>2, FS_Interval
<1>4. IsFiniteSet({l}) /\ Cardinality({l}) = 1
  BY FS_Singleton
<1>5. Cardinality({l} \X (1 .. Qty(l))) = Cardinality({l}) * Cardinality(1 .. Qty(l))
  BY <1>3, <1>4, FS_Product
<1>6. Cardinality(Demand({l}, SkuOf(l))) = 1 * Qty(l)
  BY <1>1, <1>3, <1>4, <1>5
<1>7. QED
  BY <1>2, <1>6, DemandFinite

\* Where a row holds all that the lines ask of it, no guard of the repository
\* fails.
LEMMA GrantedOnRow ==
    ASSUME NEW rows, NEW L \in SUBSET Line, NEW G, Granted(rows, G, L), NEW s \in Sku,
           rows[s].reserved \in Nat, Units(L, s) <= rows[s].reserved
    PROVE  /\ \A l \in L : SkuOf(l) = s => l \in G
           /\ Units(G, s) = Units(L, s)
<1>1. G \subseteq L
  BY DEF Granted
<1>2. ASSUME NEW l \in L \ G, SkuOf(l) = s
      PROVE  FALSE
  <2>1. Qty(l) \in Nat /\ Units({l}, s) = Qty(l)
    BY <1>2, LineFacts, UnitsOfLine
  <2>2. Units(G \cup {l}, s) = Units(G, s) + Units({l}, s)
    <3>1. G \cap {l} = {}
      OBVIOUS
    <3>2. QED
      BY <3>1, UnitsDisjoint
  <2>3. Units(G \cup {l}, s) <= Units(L, s)
    BY <1>1, UnitsMonotonic
  <2>4. Qty(l) > rows[s].reserved - Units(G, s)
    BY <1>2 DEF Granted
  <2>5. Units(G, s) \in Nat /\ Units(L, s) \in Nat
    BY UnitsType
  <2>6. QED
    BY <2>1, <2>2, <2>3, <2>4, <2>5
<1>3. \A l \in L : SkuOf(l) = s => l \in G
  BY <1>2
<1>4. Units(G, s) = Units(L, s)
  BY <1>1, <1>3, UnitsAlike
<1>5. QED
  BY <1>3, <1>4

-----------------------------------------------------------------------------
(* The invariant.                                                          *)

\* A local line is held as long as its reservation is anything but failed, in
\* the database.
LocalHeld ==
    \A l \in Line : Local(l) =>
        hold[l] = CASE resv[Owner(l)] = "NONE"   -> "NONE"
                    [] resv[Owner(l)] = "FAILED" -> "RELEASED"
                    [] OTHER                     -> "HELD"

\* A mirrored row sells nothing.
MirrorsUnsold ==
    /\ \A l \in sold : Local(l) => Internal(l)
    /\ \A s \in Sku : Kind[s] = "soft" => inv[s].onHand = OnHand[s]

\* A row against the holds on it.
Accounted(s) ==
    /\ Units(Holding, s) <= inv[s].reserved + Units(Disputed, s)
    /\ (\A l \in Disputed : SkuOf(l) # s) => inv[s].reserved = Units(Holding, s)

Books  == \A s \in Sku : Accounted(s)
Ledger == LocalHeld /\ MirrorsUnsold /\ Books

LEMMA LedgerInit == Init => Ledger
<1> SUFFICES ASSUME Init PROVE Ledger
  OBVIOUS
<1>1. LocalHeld /\ MirrorsUnsold
  BY LineFacts DEF Init, LocalHeld, MirrorsUnsold
<1>2. ASSUME NEW s \in Sku
      PROVE  Accounted(s)
  <2>1. Holding = {}
    BY DEF Init, Holding, Claiming
  <2>2. inv[s].reserved = 0 /\ Units(Holding, s) = 0 /\ Units(Disputed, s) \in Nat
    BY <2>1, UnitsNone, UnitsType DEF Init
  <2>3. QED
    BY <2>2 DEF Accounted
<1>3. QED
  BY <1>1, <1>2 DEF Ledger, Books

\* The lines with a claim on the stock, once holds of local lines are known.
LEMMA WhoClaims ==
    ASSUME TypeOK, LocalHeld, NEW l \in Line
    PROVE  Claiming(l) <=>
              /\ Local(l)
              /\ \/ resv[Owner(l)] \in {"INITIALIZING", "PENDING", "CONFIRMING"}
                 \/ resv[Owner(l)] = "CONFIRMED" /\ ~Internal(l)
BY LineFacts DEF LocalHeld, Claiming, TypeOK, Status

-----------------------------------------------------------------------------
(* What the steps do to the books.                                         *)

\* A step that leaves the rows and the claims alone keeps them, also when it sends
\* an order to resolution.
LEMMA BooksUntouched ==
    ASSUME TypeOK, Books, UNCHANGED <<inv, Holding>>, Disputed \subseteq Disputed'
    PROVE  Books'
<1> SUFFICES ASSUME NEW s \in Sku PROVE Accounted(s)'
  BY DEF Books
<1>1. Accounted(s) /\ Holding' = Holding /\ inv' = inv
  BY DEF Books
<1>2. /\ Units(Disputed, s) \in Nat /\ Units(Disputed', s) \in Nat
      /\ Units(Holding, s) \in Nat /\ inv[s].reserved \in Nat
  BY UnitsType DEF TypeOK, Row
<1>3. Units(Disputed, s) <= Units(Disputed', s)
  BY UnitsMonotonic
<1>4. Units(Holding, s)' = Units(Holding, s) /\ Units(Disputed, s)' = Units(Disputed', s)
  BY <1>1 DEF Units
<1>5. QED
  BY <1>1, <1>2, <1>3, <1>4 DEF Accounted

\* Releasing claims that end, each where its guard lets it: a guard can only fail
\* on a row that is disputed already.
LEMMA BooksGivenBack ==
    ASSUME TypeOK, Books, NEW L \in SUBSET Holding, NEW G, Granted(inv, G, L),
           inv' = Released(inv, G), Holding' = Holding \ L, Disputed' = Disputed
    PROVE  Books'
<1> SUFFICES ASSUME NEW s \in Sku PROVE Accounted(s)'
  BY DEF Books
<1>1. Accounted(s) /\ G \subseteq L /\ L \in SUBSET Line
  BY DEF Books, Granted, Holding
<1>2. /\ Units(Disputed, s) \in Nat /\ Units(Holding, s) \in Nat /\ inv[s].reserved \in Nat
      /\ Units(G, s) \in Nat /\ Units(L, s) \in Nat
  BY UnitsType DEF TypeOK, Row
<1>3. Units(G, s) <= Units(L, s) /\ Units(L, s) <= Units(Holding, s)
  BY <1>1, UnitsMonotonic
<1>4. inv'[s].reserved = inv[s].reserved - Units(G, s)
  BY DEF TypeOK, Released, Row
<1>5. Units(Holding', s) = Units(Holding, s) - Units(L, s)
  BY UnitsMonotonic
<1>6. /\ Units(Holding, s)' = Units(Holding', s)
      /\ Units(Disputed, s)' = Units(Disputed, s)
  BY DEF Units
<1>7. ASSUME \A l \in Disputed : SkuOf(l) # s
      PROVE  Units(G, s) = Units(L, s)
  <2>1. Units(L, s) <= inv[s].reserved
    BY <1>1, <1>3, <1>7 DEF Accounted
  <2>2. QED
    BY <1>1, <1>2, <2>1, GrantedOnRow
<1>8. QED
  BY <1>1, <1>2, <1>3, <1>4, <1>5, <1>6, <1>7 DEF Accounted

\* Steps that reach neither the rows nor the sales, and move no reservation into or
\* out of the statuses that have a claim.
LEMMA LedgerUntouched ==
    ASSUME TypeOK, Ledger, LocalHeld', UNCHANGED <<inv, sold>>,
           \A l \in Line : Claiming(l)' <=> Claiming(l),
           \A r \in Resv : order[r] = "NEEDS_RESOLUTION" => order'[r] = "NEEDS_RESOLUTION"
    PROVE  Ledger'
<1>1. Holding' = Holding
  BY DEF Holding
<1>2. Disputed \subseteq Disputed'
  BY LineFacts DEF Disputed, TypeOK
<1>3. Books'
  BY <1>1, <1>2, BooksUntouched DEF Ledger
<1>4. MirrorsUnsold'
  BY DEF Ledger, MirrorsUnsold, Local, Internal
<1>5. QED
  BY <1>3, <1>4 DEF Ledger

\* The steps of handlers, providers and workers in between.
LEMMA LedgerQuiet ==
    ASSUME TypeOK, Ledger, UNCHANGED <<resv, inv, sold>>,
           \A l \in Line : Local(l) => hold'[l] = hold[l],
           \A r \in Resv : order[r] = "NEEDS_RESOLUTION" => order'[r] = "NEEDS_RESOLUTION"
    PROVE  Ledger'
<1>1. LocalHeld'
  BY DEF Ledger, LocalHeld, Local
<1>2. \A l \in Line : Claiming(l)' <=> Claiming(l)
  BY DEF Claiming, Local, Internal
<1>3. QED
  BY <1>1, <1>2, LedgerUntouched

\* A status changes within those that have a claim.
LEMMA LedgerAdvances ==
    ASSUME TypeOK, Ledger, NEW r \in Resv, NEW status \in {"PENDING", "CONFIRMING"},
           resv[r] \in {"INITIALIZING", "PENDING"},
           resv' = [resv EXCEPT ![r] = status], UNCHANGED <<hold, inv, sold, order>>
    PROVE  Ledger'
<1>1. LocalHeld'
  BY LineFacts DEF Ledger, LocalHeld, Local, TypeOK
<1>2. \A l \in Line : Claiming(l)' <=> Claiming(l)
  BY LineFacts DEF Claiming, Local, Internal, TypeOK
<1>3. QED
  BY <1>1, <1>2, LedgerUntouched

\* TX1 takes the units of lines that had no claim.
LEMMA Tx1CommitLedger ==
    ASSUME TypeOK, Ledger, NEW r \in Resv, Tx1Commit(r)
    PROVE  Ledger'
<1>1. resv[r] = "NONE"
  BY DEF Tx1Commit, KeyTaken
<1>2. /\ inv' = Reserved(inv, LocalLines(r))
      /\ resv' = [resv EXCEPT ![r] = "INITIALIZING"]
      /\ hold' = [l \in Line |-> IF Owner(l) # r THEN hold[l]
                                 ELSE IF Local(l) THEN "HELD" ELSE "RESERVING"]
      /\ UNCHANGED <<sold, order>>
  BY DEF Tx1Commit
<1>3. LocalHeld'
  BY <1>1, <1>2, LineFacts DEF Ledger, LocalHeld, Local, TypeOK
<1>4. inv \in [Sku -> Row]
  BY DEF TypeOK
<1>5. MirrorsUnsold'
  BY <1>2, <1>4, ShelfUntouched DEF Ledger, MirrorsUnsold, Local, Internal
<1>6. Holding' = Holding \cup LocalLines(r) /\ Holding \cap LocalLines(r) = {}
  <2>1. ASSUME NEW l \in Line
        PROVE  /\ Claiming(l)' <=> Claiming(l) \/ l \in LocalLines(r)
               /\ ~(Claiming(l) /\ l \in LocalLines(r))
    BY <1>1, <1>2, LineFacts DEF Claiming, Local, Internal, LocalLines, Lines, TypeOK
  <2>2. QED
    BY <2>1 DEF Holding, LocalLines, Lines
<1>7. ASSUME NEW s \in Sku
      PROVE  Accounted(s)'
  <2>1. Units(Holding', s) = Units(Holding, s) + Units(LocalLines(r), s)
    BY <1>6, UnitsDisjoint
  <2>2. inv'[s].reserved = inv[s].reserved + Units(LocalLines(r), s)
    BY <1>2, <1>4 DEF Reserved, Row
  <2>3. Disputed' = Disputed
    BY <1>2 DEF Disputed
  <2>4. Accounted(s)
    BY DEF Ledger, Books
  <2>5. /\ Units(Disputed, s) \in Nat /\ Units(Holding, s) \in Nat
        /\ Units(LocalLines(r), s) \in Nat /\ inv[s].reserved \in Nat
    BY <1>4, UnitsType DEF Row
  <2>6. Units(Holding, s)' = Units(Holding', s) /\ Units(Disputed, s)' = Units(Disputed, s)
    BY <2>3 DEF Units
  <2>7. QED
    BY <2>1, <2>2, <2>3, <2>4, <2>5, <2>6 DEF Accounted
<1>8. QED
  BY <1>3, <1>5, <1>7 DEF Ledger, Books

\* TX_final after a failure gives back what TX1 took.
LEMMA FinalizeFailLedger ==
    ASSUME TypeOK, Protocol, Ledger, NEW r \in Resv, FinalizeFail(r)
    PROVE  Ledger'
<1> DEFINE back == {l \in HeldLines(r) : Local(l)}
<1>1. resv[r] = "INITIALIZING"
  BY DEF FinalizeFail, Protocol, Owned
<1>2. PICK G : Granted(inv, G, back) /\ inv' = Released(inv, G)
  BY DEF FinalizeFail
<1>3. /\ resv' = [resv EXCEPT ![r] = "FAILED"]
      /\ hold' = [l \in Line |-> IF Owner(l) # r           THEN hold[l]
                                 ELSE IF hold[l] = "RESERVING" THEN "FAILED"
                                 ELSE IF hold[l] = "HELD"      THEN "RELEASED"
                                 ELSE hold[l]]
      /\ UNCHANGED <<sold, order>>
  BY DEF FinalizeFail
<1>4. LocalHeld'
  BY <1>1, <1>3, LineFacts DEF Ledger, LocalHeld, Local, TypeOK
<1>5. MirrorsUnsold'
  BY <1>2, <1>3, ShelfUntouched DEF Ledger, MirrorsUnsold, Local, Internal, TypeOK
<1>6. back \in SUBSET Holding
  BY <1>1 DEF Holding, Claiming, HeldLines, Lines
<1>7. Holding' = Holding \ back
  BY <1>1, <1>3, LineFacts DEF Holding, Claiming, Local, Internal, HeldLines, Lines, TypeOK
<1>8. Disputed' = Disputed
  BY <1>3 DEF Disputed
<1>9. Books'
  BY <1>2, <1>6, <1>7, <1>8, BooksGivenBack DEF Ledger
<1>10. QED
  BY <1>4, <1>5, <1>9 DEF Ledger

\* So do cancel and the sweeper.
LEMMA GiveUpLedger ==
    ASSUME TypeOK, Ledger, NEW R \in SUBSET Resv, NEW status, NEW why,
           status \in {"CANCELLED", "EXPIRED"}, \A r \in R : resv[r] = "PENDING",
           GiveUp(R, status, why)
    PROVE  Ledger'
<1> DEFINE back == {l \in UNION {HeldLines(r) : r \in R} : Local(l)}
<1>1. PICK G : Granted(inv, G, back) /\ inv' = Released(inv, G)
  BY DEF GiveUp
<1>2. /\ resv' = [r \in Resv |-> IF r \in R THEN status ELSE resv[r]]
      /\ UNCHANGED <<hold, sold, order>>
  BY DEF GiveUp
<1>3. LocalHeld'
  BY <1>2, LineFacts DEF Ledger, LocalHeld, Local, TypeOK
<1>4. MirrorsUnsold'
  BY <1>1, <1>2, ShelfUntouched DEF Ledger, MirrorsUnsold, Local, Internal, TypeOK
<1>5. \A l : l \in back <=> l \in Line /\ Owner(l) \in R /\ hold[l] = "HELD" /\ Local(l)
  BY DEF HeldLines, Lines
<1>6. back \in SUBSET Holding
  BY <1>5 DEF Holding, Claiming
<1>7. Holding' = Holding \ back
  <2>1. ASSUME NEW l \in Line
        PROVE  Claiming(l)' <=> Claiming(l) /\ l \notin back
    BY <1>2, <1>5, LineFacts DEF Claiming, Local, Internal, TypeOK
  <2>2. QED
    BY <2>1 DEF Holding
<1>8. Disputed' = Disputed
  BY <1>2 DEF Disputed
<1>9. Books'
  BY <1>1, <1>6, <1>7, <1>8, BooksGivenBack DEF Ledger
<1>10. QED
  BY <1>3, <1>4, <1>9 DEF Ledger

\* Window 2 ends the claims of the internal lines.  What it releases beyond that, it
\* has sold on an order that goes to resolution.
LEMMA ConfirmCommitLedger ==
    ASSUME TypeOK, Protocol, Outcome, Ledger, NEW r \in Resv, ConfirmCommit(r)
    PROVE  Ledger'
<1> DEFINE own == {l \in Lines(r) : Internal(l)}
<1>1. /\ resv[r] = "CONFIRMING" /\ pc[r] = "confirm"
      /\ resv' = [resv EXCEPT ![r] = "CONFIRMED"]
      /\ UNCHANGED hold
  BY DEF ConfirmCommit, Protocol, Owned
<1>2. PICK took \in SUBSET own, G \in SUBSET own, needsResolution \in BOOLEAN :
         /\ G \subseteq took /\ Granted(inv, took, own)
         /\ needsResolution <=> took # own \/ Answered(r, "rejected") # {}
         /\ IF needsResolution THEN inv' = Released(Consumed(inv, took), G)
                               ELSE G = {} /\ inv' = Consumed(inv, took)
         /\ sold' = sold \cup took \cup Answered(r, "ok")
         /\ order' = [order EXCEPT ![r] = OrderAfter(r, needsResolution)]
  BY DEF ConfirmCommit
<1>3. \A l \in Answered(r, "ok") : ~Local(l) /\ l \in Lines(r)
  <2>1. ASSUME NEW l \in Answered(r, "ok")
        PROVE  ~Local(l) /\ l \in Lines(r)
    <3>1. l \in Line /\ Owner(l) = r /\ ans[l] = "ok" /\ l \in Lines(r)
      BY DEF Answered, OtherLines, Lines
    <3>2. Known(l)
      BY <3>1 DEF Outcome, Fate
    <3>3. QED
      BY <1>1, <3>1, <3>2 DEF Known, Remembered, Asked
  <2>2. QED
    BY <2>1
<1>4. own \in SUBSET Line /\ \A l \in own : Owner(l) = r /\ Local(l) /\ Internal(l)
  BY DEF Lines, Local, Internal
<1>5. own \subseteq Holding
  BY <1>1, <1>4, WhoClaims DEF Holding, Ledger
<1>6. Holding' = Holding \ own
  <2>1. ASSUME NEW l \in Line
        PROVE  Claiming(l)' <=> Claiming(l) /\ l \notin own
    BY <1>1, LineFacts DEF Claiming, Local, Internal, Lines, TypeOK
  <2>2. QED
    BY <2>1 DEF Holding
<1>7. LocalHeld'
  BY <1>1, LineFacts DEF Ledger, LocalHeld, Local, TypeOK
<1>8. ASSUME NEW s \in Sku
      PROVE  /\ inv'[s].reserved = inv[s].reserved - Units(took, s) - Units(G, s)
             /\ inv'[s].onHand = inv[s].onHand - Units(took, s)
  <2>1. /\ Consumed(inv, took)[s].reserved = inv[s].reserved - Units(took, s)
        /\ Consumed(inv, took)[s].onHand = inv[s].onHand - Units(took, s)
    BY DEF Consumed
  <2>2. /\ Released(Consumed(inv, took), G)[s].reserved
             = Consumed(inv, took)[s].reserved - Units(G, s)
        /\ Released(Consumed(inv, took), G)[s].onHand = Consumed(inv, took)[s].onHand
    BY DEF Consumed, Released
  <2>3. ~needsResolution => Units(G, s) = 0
    BY <1>2, UnitsNone
  <2>4. inv[s].reserved \in Nat /\ Units(took, s) \in Nat
    BY UnitsType DEF TypeOK, Row
  <2>5. QED
    BY <1>2, <2>1, <2>2, <2>3, <2>4
<1>9. MirrorsUnsold'
  <2>1. \A l \in sold' : Local(l) => Internal(l)
    BY <1>2, <1>3, <1>4 DEF Ledger, MirrorsUnsold
  <2>2. ASSUME NEW s \in Sku, Kind[s] = "soft"
        PROVE  inv'[s].onHand = OnHand[s]
    <3>1. Units(took, s) = 0
      BY <1>4, <2>2, UnitsNone DEF Internal
    <3>2. inv[s].onHand = OnHand[s] /\ OnHand[s] \in Nat
      BY <2>2, OnHandAssumption DEF Ledger, MirrorsUnsold
    <3>3. QED
      BY <1>8, <3>1, <3>2
  <2>3. QED
    BY <2>1, <2>2 DEF MirrorsUnsold, Local, Internal
<1>10. /\ Disputed \subseteq Disputed'
       /\ needsResolution => took \subseteq Disputed'
       /\ Disputed \cap took = {}
  <2>1. order'[r] = OrderAfter(r, needsResolution)
        /\ \A q \in Resv \ {r} : order'[q] = order[q]
    BY <1>2 DEF TypeOK
  <2>2. \A l \in sold : Owner(l) # r /\ l \in Line
    BY <1>1 DEF Protocol, SoldLast, TypeOK
  <2>3. \A l \in Disputed : l \in sold' /\ order'[Owner(l)] = order[Owner(l)]
    BY <1>2, <2>1, <2>2, LineFacts DEF Disputed
  <2>4. needsResolution => \A l \in took : l \in sold' /\ order'[Owner(l)] = "NEEDS_RESOLUTION"
    BY <1>2, <1>4, <2>1 DEF OrderAfter
  <2>5. QED
    BY <1>2, <1>4, <2>2, <2>3, <2>4 DEF Disputed
<1>11. ASSUME NEW s \in Sku
       PROVE  Accounted(s)'
  <2>1. Accounted(s)
    BY DEF Ledger, Books
  <2>2. /\ inv[s].reserved \in Nat /\ Units(Holding, s) \in Nat /\ Units(own, s) \in Nat
        /\ Units(took, s) \in Nat /\ Units(G, s) \in Nat
        /\ Units(Disputed, s) \in Nat /\ Units(Disputed', s) \in Nat
    BY UnitsType DEF TypeOK, Row
  <2>3. /\ Units(G, s) <= Units(took, s) /\ Units(took, s) <= Units(own, s)
        /\ Units(own, s) <= Units(Holding, s)
        /\ Units(Holding', s) = Units(Holding, s) - Units(own, s)
    <3>1. Units(G, s) <= Units(took, s)
      BY <1>2, UnitsMonotonic
    <3>2. Units(took, s) <= Units(own, s)
      BY <1>2, UnitsMonotonic
    <3>3. /\ Units(own, s) <= Units(Holding, s)
          /\ Units(Holding \ own, s) = Units(Holding, s) - Units(own, s)
      BY <1>5, UnitsMonotonic
    <3>4. QED
      BY <1>6, <3>1, <3>2, <3>3
  <2>4. /\ Units(Disputed, s) <= Units(Disputed', s)
        /\ needsResolution => Units(Disputed, s) + Units(took, s) <= Units(Disputed', s)
    <3>1. Units(Disputed, s) <= Units(Disputed', s)
      BY <1>10, UnitsMonotonic
    <3>2. Units(Disputed \cup took, s) = Units(Disputed, s) + Units(took, s)
      BY <1>10, UnitsDisjoint
    <3>3. needsResolution => Units(Disputed \cup took, s) <= Units(Disputed', s)
      <4>1. needsResolution => Disputed \cup took \subseteq Disputed'
        BY <1>10
      <4>2. QED
        BY <4>1, UnitsMonotonic
    <3>4. QED
      BY <3>1, <3>2, <3>3
  <2>5. /\ Units(Holding, s)' = Units(Holding', s)
        /\ Units(Disputed, s)' = Units(Disputed', s)
    BY DEF Units
  <2>6. ~needsResolution => took = own /\ Units(G, s) = 0
    BY <1>2, UnitsNone
  <2>7. Units(Holding', s) <= inv'[s].reserved + Units(Disputed', s)
    <3>1. CASE needsResolution
      BY <1>8, <2>1, <2>2, <2>3, <2>4, <3>1 DEF Accounted
    <3>2. CASE ~needsResolution
      BY <1>8, <2>1, <2>2, <2>3, <2>4, <2>6, <3>2 DEF Accounted
    <3>3. QED
      BY <3>1, <3>2
  <2>8. ASSUME \A l \in Disputed' : SkuOf(l) # s
        PROVE  inv'[s].reserved = Units(Holding', s)
    <3>1. inv[s].reserved = Units(Holding, s)
      BY <1>10, <2>1, <2>8 DEF Accounted
    <3>2. Units(own, s) <= inv[s].reserved
      BY <2>3, <3>1
    <3>3. Units(took, s) = Units(own, s)
      BY <1>2, <1>4, <2>2, <3>2, GrantedOnRow
    <3>4. needsResolution => Units(took, s) = 0
      BY <1>10, <2>8, UnitsNone
    <3>5. QED
      BY <1>8, <2>2, <2>3, <2>6, <3>1, <3>3, <3>4
  <2>9. QED
    BY <2>5, <2>7, <2>8 DEF Accounted
<1>12. QED
  BY <1>7, <1>9, <1>11 DEF Ledger, Books

LEMMA LedgerNext ==
    ASSUME TypeOK, Protocol, Outcome, Ledger, [Next]_vars
    PROVE  Ledger'
<1>1. ASSUME NEW r \in Resv, Client(r)
      PROVE  Ledger'
  <2>1. CASE Lookup(r) \/ ConfirmRefuse(r)
    BY <2>1, LedgerQuiet DEF Lookup, ConfirmRefuse
  <2>2. CASE ConfirmClaim(r)
    BY <2>2, LedgerAdvances DEF ConfirmClaim
  <2>3. CASE Cancel(r)
    BY <2>3, GiveUpLedger DEF Cancel
  <2>4. QED
    BY <1>1, <2>1, <2>2, <2>3 DEF Client
<1>2. ASSUME NEW r \in Resv, Create(r)
      PROVE  Ledger'
  <2>1. CASE Tx1Rollback(r) \/ FinalizeAbort(r)
    BY <2>1, LedgerQuiet DEF Tx1Rollback, FinalizeAbort
  <2>2. ASSUME NEW l \in Lines(r), CallReserve(l)
        PROVE  Ledger'
    BY <2>2, LedgerQuiet DEF CallReserve
  <2>3. ASSUME NEW l \in Lines(r), SaveItem(l)
        PROVE  Ledger'
    <3>1. hold[l] = "RESERVING" /\ l \in Line
      BY <2>3 DEF SaveItem, Lines
    <3>2. ~Local(l)
      BY <3>1 DEF Ledger, LocalHeld
    <3>3. \A m \in Line : Local(m) => hold'[m] = hold[m]
      BY <2>3, <3>1, <3>2 DEF SaveItem, TypeOK
    <3>4. QED
      BY <2>3, <3>3, LedgerQuiet DEF SaveItem
  <2>4. CASE FinalizeOk(r)
    <3>1. resv[r] = "INITIALIZING"
      BY <2>4 DEF FinalizeOk, Protocol, Owned
    <3>2. QED
      BY <2>4, <3>1, LedgerAdvances DEF FinalizeOk
  <2>5. QED
    BY <1>2, <2>1, <2>2, <2>3, <2>4, Tx1CommitLedger, FinalizeFailLedger DEF Create
<1>3. ASSUME NEW r \in Resv, Confirm(r)
      PROVE  Ledger'
  <2>1. ASSUME NEW l \in Lines(r), CallConfirm(l)
        PROVE  Ledger'
    BY <2>1, LedgerQuiet DEF CallConfirm
  <2>2. CASE ConfirmAbort(r)
    BY <2>2, LedgerQuiet DEF ConfirmAbort
  <2>3. QED
    BY <1>3, <2>1, <2>2, ConfirmCommitLedger DEF Confirm
<1>4. ASSUME NEW r \in Resv, Elapse(r) \/ Crash(r)
      PROVE  Ledger'
  BY <1>4, LedgerQuiet DEF Elapse, Crash
<1>5. CASE Sweep
  <2>1. Due \in SUBSET Resv /\ \A r \in Due : resv[r] = "PENDING"
    BY DEF Due, TypeOK
  <2>2. QED
    BY <1>5, <2>1, GiveUpLedger DEF Sweep
<1>6. ASSUME NEW l \in Line, LateArrival(l)
      PROVE  Ledger'
  BY <1>6, LedgerQuiet DEF LateArrival
<1>7. ASSUME NEW t \in Task, Worker(t)
      PROVE  Ledger'
  <2>1. \A r \in Resv : order[r] = "NEEDS_RESOLUTION" => order'[r] = "NEEDS_RESOLUTION"
    BY <1>7 DEF Worker, DrainDone, DrainFail, Reopen, TypeOK
  <2>2. UNCHANGED <<resv, hold, inv, sold>>
    BY <1>7 DEF Worker, DrainDone, DrainFail, Reopen
  <2>3. QED
    BY <2>1, <2>2, LedgerQuiet
<1>8. CASE UNCHANGED vars
  BY <1>8, LedgerQuiet DEF vars
<1>9. QED
  BY <1>1, <1>2, <1>3, <1>4, <1>5, <1>6, <1>7, <1>8 DEF Next, Serve

\* The books hold whatever the providers answer: the invariant behind the theorems
\* on the stock.
THEOREM LedgerAlways == Spec => []Ledger
<1>1. TypeOK /\ Protocol /\ Outcome /\ Ledger /\ [Next]_vars => Ledger'
  BY LedgerNext
<1>2. QED
  BY LedgerInit, <1>1, TypeCorrect, ProtocolAlways, OutcomeAlways, PTL DEF Spec

\* In any shop, a row on which no disputed line was sold is exact, though other
\* lines of the same carts were rejected, lost or compensated.
THEOREM StockBackedUnlessDisputed == Spec => []BackedUnlessDisputed
<1>1. Ledger => BackedUnlessDisputed
  BY DEF Ledger, Books, Accounted, BackedUnlessDisputed
<1>2. QED
  BY <1>1, LedgerAlways, PTL

\* And no row is ever oversold by more than its disputed lines.
THEOREM NeverOversoldByMore == Spec => []OversellBounded
<1>1. ASSUME TypeOK, Ledger, SoldOnce, StockBounds
      PROVE  OversellBounded
  <2> SUFFICES ASSUME NEW s \in Sku, Kind[s] # "external"
               PROVE  Units(sold, s) + Units(Holding, s) <= OnHand[s] + Units(Disputed, s)
    BY DEF OversellBounded
  <2>1. /\ Units(Holding, s) <= inv[s].reserved + Units(Disputed, s)
        /\ inv[s].reserved <= inv[s].onHand
    BY <1>1 DEF Ledger, Books, Accounted, StockBounds
  <2>2. /\ Units(sold, s) \in Nat /\ Units(Holding, s) \in Nat /\ Units(Disputed, s) \in Nat
        /\ inv[s].reserved \in Nat /\ inv[s].onHand \in Nat /\ OnHand[s] \in Nat
    BY <1>1, UnitsType, OnHandAssumption DEF TypeOK, Row
  <2>3. inv[s].onHand + Units(sold, s) = OnHand[s]
    <3>1. CASE Kind[s] = "internal"
      BY <1>1, <3>1 DEF SoldOnce
    <3>2. CASE Kind[s] = "soft"
      <4>1. \A l \in sold : SkuOf(l) # s
        BY <1>1, <3>2 DEF Ledger, MirrorsUnsold, Local, Internal
      <4>2. QED
        BY <1>1, <2>2, <3>2, <4>1, UnitsNone DEF Ledger, MirrorsUnsold
    <3>3. QED
      BY <3>1, <3>2, KindAssumption
  <2>4. QED
    BY <2>1, <2>2, <2>3
<1>2. QED
  BY <1>1, TypeCorrect, LedgerAlways, UnitsAreSoldOnce, StockAlwaysBounded, PTL

-----------------------------------------------------------------------------
(* No guarded update keeps a transaction waiting.                          *)

LEMMA LinesFinite == IsFiniteSet(Line)
<1> DEFINE lineOf == [u \in Unit |-> u[1]]
<1>1. \A u \in Unit : u[1] \in Line
  BY UnitLine
<1>2. ASSUME NEW l \in Line
      PROVE  \E u \in Unit : u[1] = l
  <2>1. <<l, 1>> \in Unit
    BY LineFacts DEF Unit
  <2>2. QED
    BY <2>1
<1>3. lineOf \in Surjection(Unit, Line)
  BY <1>1, <1>2 DEF Surjection
<1>4. QED
  BY <1>3, UnitAssumption, FS_Surjection

\* The loop over the lines, as the repository runs it: `taken` is what the guarded
\* updates have taken after each turn, and a turn adds its line if the row still has
\* what the line asks for.
GuardedLoop(rows, n, visit, taken) ==
    /\ n \in Nat
    /\ visit \in [1 .. n -> Line]
    /\ \A i, j \in 1 .. n : visit[i] = visit[j] => i = j
    /\ taken \in [0 .. n -> SUBSET Line]
    /\ taken[0] = {}
    /\ \A i \in 1 .. n :
          LET l    == visit[i]
              left == rows[SkuOf(l)].reserved - Units(taken[i - 1], SkuOf(l))
          IN  taken[i] = IF Qty(l) <= left THEN taken[i - 1] \cup {l} ELSE taken[i - 1]

\* What is so after some turns of the loop.
LoopInv(rows, visit, taken, i) ==
    /\ taken[i] \subseteq {visit[j] : j \in 1 .. i}
    /\ \A s \in Sku : Units(taken[i], s) <= rows[s].reserved
    /\ \A j \in 1 .. i : visit[j] \notin taken[i] =>
          Qty(visit[j]) > rows[SkuOf(visit[j])].reserved - Units(taken[i], SkuOf(visit[j]))

LEMMA LoopTurn ==
    ASSUME NEW rows, SoundRows(rows), NEW n, NEW visit, NEW taken,
           GuardedLoop(rows, n, visit, taken),
           NEW i \in 1 .. n, LoopInv(rows, visit, taken, i - 1)
    PROVE  LoopInv(rows, visit, taken, i)
<1> DEFINE l == visit[i]
           k == SkuOf(l)
           before == taken[i - 1]
           after  == taken[i]
<1>1. /\ n \in Nat /\ i - 1 \in 0 .. n /\ 1 .. i = (1 .. i - 1) \cup {i}
      /\ l \in Line /\ k \in Sku /\ Qty(l) \in Nat /\ rows[k].reserved \in Nat
  <2>1. n \in Nat /\ l \in Line
    BY DEF GuardedLoop
  <2>2. QED
    BY <2>1, LineFacts DEF SoundRows, Row
<1>2. l \notin before
  <2>1. before \subseteq {visit[j] : j \in 1 .. i - 1}
    BY DEF LoopInv
  <2>2. \A j \in 1 .. i - 1 : visit[j] # l
    BY <1>1 DEF GuardedLoop
  <2>3. QED
    BY <2>1, <2>2
<1>3. after = IF Qty(l) <= rows[k].reserved - Units(before, k) THEN before \cup {l} ELSE before
  BY DEF GuardedLoop
<1>4. \A s : /\ Units(before, s) \in Nat /\ Units(after, s) \in Nat
             /\ Units(before, s) <= Units(after, s)
  <2>1. before \subseteq after
    BY <1>3
  <2>2. QED
    BY <2>1, UnitsType, UnitsMonotonic
<1>5. after \subseteq {visit[j] : j \in 1 .. i}
  <2>1. before \subseteq {visit[j] : j \in 1 .. i - 1}
    BY DEF LoopInv
  <2>2. QED
    BY <1>1, <1>3, <2>1
<1>6. ASSUME NEW s \in Sku
      PROVE  Units(after, s) <= rows[s].reserved
  <2>1. Units(before, s) <= rows[s].reserved /\ rows[s].reserved \in Nat
    BY DEF LoopInv, SoundRows, Row
  <2>2. CASE after = before
    BY <2>1, <2>2
  <2>3. CASE after = before \cup {l} /\ Qty(l) <= rows[k].reserved - Units(before, k)
    <3> DEFINE one == Units({l}, s)
               all == Units(after, s)
    <3>1. all = Units(before, s) + one
      <4>1. before \cap {l} = {}
        BY <1>2
      <4>2. QED
        BY <2>3, <4>1, UnitsDisjoint
    <3>2. s = k => one = Qty(l)
      BY <1>1, UnitsOfLine
    <3>3. s # k => one = 0
      BY UnitsNone
    <3>4. all <= rows[s].reserved
      <4> HIDE DEF one, all, k, l, before, after
      <4>1. Units(before, s) \in Nat /\ Units(before, k) \in Nat
        BY <1>4
      <4>2. QED
        BY <1>1, <2>1, <2>3, <3>1, <3>2, <3>3, <4>1
    <3>5. QED
      BY <3>4
  <2>4. QED
    BY <1>3, <2>2, <2>3
<1>7. ASSUME NEW j \in 1 .. i, visit[j] \notin after
      PROVE  Qty(visit[j]) > rows[SkuOf(visit[j])].reserved - Units(after, SkuOf(visit[j]))
  <2>1. CASE j = i
    <3>1. after = before /\ ~(Qty(l) <= rows[k].reserved - Units(before, k))
      BY <1>3, <1>7, <2>1
    <3>2. Qty(l) > rows[k].reserved - Units(after, k)
      <4>1. Units(before, k) \in Nat
        BY <1>4
      <4> HIDE DEF k, l, before, after
      <4>2. QED
        BY <1>1, <3>1, <4>1
    <3>3. QED
      BY <2>1, <3>2
  <2>2. CASE j \in 1 .. i - 1
    <3> DEFINE m == visit[j]
               h == SkuOf(m)
    <3>1. m \notin before
      BY <1>3, <1>7
    <3>2. Qty(m) > rows[h].reserved - Units(before, h)
      BY <2>2, <3>1 DEF LoopInv
    <3>3. m \in Line /\ h \in Sku /\ Qty(m) \in Nat /\ rows[h].reserved \in Nat
      <4>1. m \in Line
        BY <1>1, <2>2 DEF GuardedLoop
      <4>2. QED
        BY <4>1, LineFacts DEF SoundRows, Row
    <3>4. Qty(m) > rows[h].reserved - Units(after, h)
      <4>1. /\ Units(before, h) \in Nat /\ Units(after, h) \in Nat
            /\ Units(before, h) <= Units(after, h)
        BY <1>4
      <4> HIDE DEF m, h, before, after
      <4>2. QED
        BY <3>2, <3>3, <4>1
    <3>5. QED
      BY <3>4
  <2>3. QED
    BY <1>1, <2>1, <2>2
<1>8. QED
  BY <1>5, <1>6, <1>7 DEF LoopInv

\* Whatever lines a transaction visits, and in whichever order, what the guarded
\* updates have taken in the end is one of the outcomes that the model allows
\* (InventoryRepository.release and consume, called line by line).
THEOREM LoopIsGranted ==
    ASSUME NEW rows, SoundRows(rows), NEW n, NEW visit, NEW taken,
           GuardedLoop(rows, n, visit, taken)
    PROVE  Granted(rows, taken[n], {visit[j] : j \in 1 .. n})
<1> DEFINE Bad == {i \in 0 .. n : ~LoopInv(rows, visit, taken, i)}
           Upto(i) == 0 .. i
           T == {Upto(i) : i \in Bad}
<1>1. n \in Nat
  BY DEF GuardedLoop
<1>2. LoopInv(rows, visit, taken, 0)
  <2>1. taken[0] = {} /\ 1 .. 0 = {}
    BY DEF GuardedLoop
  <2>2. \A s \in Sku : Units({}, s) = 0 /\ rows[s].reserved \in Nat
    BY UnitsNone DEF SoundRows, Row
  <2>3. QED
    BY <2>1, <2>2 DEF LoopInv
\* The first turn after which it were not so would follow one after which it is.
<1>3. Bad = {}
  <2> SUFFICES ASSUME Bad # {} PROVE FALSE
    OBVIOUS
  <2>1. IsWellFoundedOn(StrictSubsetOrdering(0 .. n), SUBSET (0 .. n))
    <3>1. IsFiniteSet(0 .. n)
      BY <1>1, FS_Interval
    <3>2. QED
      BY <3>1, FS_StrictSubsetOrderingWellFounded, FS_FiniteSubsetsOfFinite
  <2>2. T \subseteq SUBSET (0 .. n) /\ T # {}
    <3>1. \A i \in Bad : Upto(i) \in T /\ Upto(i) \in SUBSET (0 .. n)
      BY <1>1
    <3> HIDE DEF Bad, Upto
    <3>2. QED
      BY <3>1
  <2>3. PICK U \in T : \A V \in T : <<V, U>> \notin StrictSubsetOrdering(0 .. n)
    <3> HIDE DEF T
    <3>1. QED
      BY <2>1, <2>2, WFMin
  <2>4. PICK i \in Bad : U = Upto(i)
    OBVIOUS
  <2>5. i \in 1 .. n /\ i - 1 \in 0 .. n
    BY <1>1, <1>2, <2>4
  <2>6. i - 1 \notin Bad
    <3>1. <<Upto(i - 1), Upto(i)>> \in StrictSubsetOrdering(0 .. n)
      <4>1. /\ Upto(i - 1) \subseteq Upto(i) /\ Upto(i) \subseteq 0 .. n
            /\ i \in Upto(i) /\ i \notin Upto(i - 1)
        BY <1>1, <2>5
      <4> HIDE DEF Upto
      <4>2. QED
        BY <4>1 DEF StrictSubsetOrdering
    <3> HIDE DEF Bad, Upto
    <3>2. QED
      BY <2>3, <2>4, <3>1
  <2>7. LoopInv(rows, visit, taken, i - 1)
    BY <2>5, <2>6
  <2>8. LoopInv(rows, visit, taken, i)
    BY <2>5, <2>7, LoopTurn
  <2>9. QED
    BY <2>4, <2>8
<1>4. LoopInv(rows, visit, taken, n)
  BY <1>1, <1>3
<1>5. QED
  BY <1>4 DEF LoopInv, Granted

\* Whatever the rows hold, some lines of a set are what the guards let through:
\* the largest of the sets that the rows can bear.  (A fact about the definition of
\* Granted: no step of the model is lost because no set fits it.)
LEMMA SomethingIsGranted ==
    ASSUME NEW rows, SoundRows(rows), NEW L \in SUBSET Line
    PROVE  \E G \in SUBSET L : Granted(rows, G, L)
<1> DEFINE Borne(G) == \A s \in Sku : Units(G, s) <= rows[s].reserved
           Rest == {M \in SUBSET L : Borne(L \ M)}
<1>1. IsWellFoundedOn(StrictSubsetOrdering(L), SUBSET L)
  <2>1. IsFiniteSet(L)
    BY LinesFinite, FS_Subset
  <2>2. QED
    BY <2>1, FS_StrictSubsetOrderingWellFounded, FS_FiniteSubsetsOfFinite
<1>2. \A s \in Sku : rows[s].reserved \in Nat
  BY DEF SoundRows, Row
<1>3. L \in Rest
  <2>1. L \ L = {}
    OBVIOUS
  <2>2. Borne({})
    BY <1>2, UnitsNone
  <2>3. QED
    BY <2>1, <2>2
<1>4. PICK M \in Rest : \A N \in Rest : <<N, M>> \notin StrictSubsetOrdering(L)
  <2>1. Rest \subseteq SUBSET L /\ Rest # {}
    BY <1>3
  <2> HIDE DEF Rest
  <2>2. QED
    BY <1>1, <2>1, WFMin
<1>5. PICK G \in SUBSET L : L \ G = M /\ Borne(G)
  <2>1. M \in SUBSET L /\ Borne(L \ M) /\ L \ (L \ M) = M
    OBVIOUS
  <2>2. QED
    BY <2>1
\* One more line would be too much: a smaller rest would do otherwise.
<1>6. ASSUME NEW l \in M, Qty(l) <= rows[SkuOf(l)].reserved - Units(G, SkuOf(l))
      PROVE  FALSE
  <2>1. l \in Line /\ SkuOf(l) \in Sku /\ Qty(l) \in Nat
    BY <1>5, LineFacts
  <2>2. L \ (M \ {l}) = G \cup {l} /\ G \cap {l} = {}
    BY <1>5
  <2>3. \A s \in Sku : Units(G \cup {l}, s) = Units(G, s) + Units({l}, s)
    BY <2>2, UnitsDisjoint
  <2>4. ASSUME NEW s \in Sku
        PROVE  Units(G \cup {l}, s) <= rows[s].reserved
    <3> DEFINE one == Units({l}, s)
               all == Units(G \cup {l}, s)
    <3>1. /\ Units(G, s) \in Nat /\ rows[s].reserved \in Nat
          /\ all = Units(G, s) + one
      BY <1>2, <2>3, UnitsType
    <3>2. all <= rows[s].reserved
      <4>1. s = SkuOf(l) => one = Qty(l)
        BY <2>1, UnitsOfLine
      <4>2. s # SkuOf(l) => one = 0
        BY UnitsNone
      <4>3. Units(G, s) <= rows[s].reserved
        BY <1>5
      <4> HIDE DEF one, all
      <4>4. QED
        BY <1>6, <2>1, <3>1, <4>1, <4>2, <4>3
    <3>3. QED
      BY <3>2
  <2>5. M \ {l} \in Rest
    BY <1>5, <2>2, <2>4
  <2>6. <<M \ {l}, M>> \in StrictSubsetOrdering(L)
    BY <1>5 DEF StrictSubsetOrdering
  <2>7. QED
    BY <1>4, <2>5, <2>6
<1>7. ASSUME NEW l \in M
      PROVE  Qty(l) > rows[SkuOf(l)].reserved - Units(G, SkuOf(l))
  <2>1. SkuOf(l) \in Sku /\ Qty(l) \in Nat
    BY <1>5, LineFacts
  <2>2. rows[SkuOf(l)].reserved \in Nat /\ Units(G, SkuOf(l)) \in Nat
    BY <1>2, <2>1, UnitsType
  <2>3. QED
    BY <1>6, <2>1, <2>2
<1>8. Granted(rows, G, L)
  BY <1>5, <1>7 DEF Granted
<1>9. QED
  BY <1>8

-----------------------------------------------------------------------------
(* A shop without external providers.                                      *)

AllLocal == \A s \in Sku : Kind[s] # "external"

\* Nothing is rejected over there: a provider that never saw a hold can only fail.
LEMMA LocalNoAnswer ==
    ASSUME AllLocal, Outcome, NEW l \in Line
    PROVE  /\ Local(l) /\ remote[Slot(l)] = "none"
           /\ ans[l] = "none" \/ (pc[Owner(l)] = "confirm" /\ ans[l] = "error")
<1>1. Local(l)
  BY LineFacts DEF AllLocal, Local
<1>2. Known(l)
  BY DEF Outcome, Fate
<1>3. QED
  BY <1>1, <1>2 DEF Known, Remembered, Asked, FirstReserving, Over

\* So no order goes to resolution: window 2 finds the units of every line.
LEMMA LocalNoDispute ==
    ASSUME AllLocal, TypeOK, Protocol, Outcome, Ledger, [Next]_vars,
           \A r \in Resv : order[r] # "NEEDS_RESOLUTION"
    PROVE  \A r \in Resv : order'[r] # "NEEDS_RESOLUTION"
<1>1. ASSUME NEW r \in Resv, ConfirmCommit(r)
      PROVE  \A q \in Resv : order'[q] # "NEEDS_RESOLUTION"
  <2> DEFINE own == {l \in Lines(r) : Internal(l)}
  <2>1. PICK took \in SUBSET own :
           LET needsResolution == took # own \/ Answered(r, "rejected") # {}
           IN  /\ Granted(inv, took, own)
               /\ order' = [order EXCEPT ![r] = OrderAfter(r, needsResolution)]
    BY <1>1 DEF ConfirmCommit
  <2>2. Answered(r, "rejected") = {}
    BY LocalNoAnswer DEF Answered, OtherLines, Lines
  <2>3. own \subseteq Holding /\ own \subseteq Line
    <3>1. resv[r] = "CONFIRMING"
      BY <1>1 DEF ConfirmCommit, Protocol, Owned
    <3>2. ASSUME NEW l \in own PROVE l \in Line /\ Claiming(l)
      BY <3>1, WhoClaims, LocalNoAnswer DEF Lines, Ledger
    <3>3. QED
      BY <3>2 DEF Holding
  <2>4. took = own
    <3> SUFFICES ASSUME NEW l \in own PROVE l \in took
      BY <2>1
    <3> DEFINE s == SkuOf(l)
    <3>1. s \in Sku
      BY <2>3, LineFacts
    <3>2. inv[s].reserved = Units(Holding, s)
      BY <3>1, LineFacts DEF Ledger, Books, Accounted, Disputed, TypeOK
    <3>3. Units(own, s) <= inv[s].reserved /\ inv[s].reserved \in Nat
      <4>1. Units(own, s) <= Units(Holding, s)
        BY <2>3, UnitsMonotonic
      <4>2. QED
        BY <3>1, <3>2, <4>1 DEF TypeOK, Row
    <3>4. \A m \in own : SkuOf(m) = s => m \in took
      BY <2>1, <2>3, <3>1, <3>3, GrantedOnRow
    <3>5. QED
      BY <3>4
  <2>5. QED
    BY <2>1, <2>2, <2>4 DEF OrderAfter, TypeOK
<1>2. ASSUME NEW t \in Task, DrainDone(t)
      PROVE  UNCHANGED order
  <2>1. t[2] \in Line /\ remote[Slot(t[2])] = "none"
    BY LocalNoAnswer DEF Task
  <2>2. \A o \in WorkerOutcomes(t) : o[1] # "rejected"
    BY <2>1 DEF WorkerOutcomes, ConfirmOutcomes, ReleaseOutcomes, UnconfirmOutcomes
  <2>3. QED
    BY <1>2, <2>2 DEF DrainDone
<1>3. CASE UNCHANGED order
  BY <1>3
<1>4. CASE Next
  <2>1. ASSUME NEW r \in Resv, Client(r) \/ Create(r) \/ Confirm(r) \/ Elapse(r) \/ Crash(r)
        PROVE  UNCHANGED order \/ ConfirmCommit(r)
    BY <2>1 DEF Client, Lookup, ConfirmClaim, ConfirmRefuse, Cancel, GiveUp, Create,
       Tx1Commit, Tx1Rollback, CallReserve, SaveItem, FinalizeOk, FinalizeFail,
       FinalizeAbort, Confirm, CallConfirm, ConfirmAbort, Elapse, Crash
  <2>2. ASSUME NEW t \in Task, Worker(t)
        PROVE  UNCHANGED order
    BY <1>2, <2>2 DEF Worker, DrainFail, Reopen
  <2>3. Sweep \/ (\E l \in Line : LateArrival(l)) => UNCHANGED order
    BY DEF Sweep, GiveUp, LateArrival
  <2>4. QED
    BY <1>1, <1>3, <1>4, <2>1, <2>2, <2>3 DEF Next, Serve
<1>5. QED
  BY <1>3, <1>4 DEF vars

LEMMA LocalNeverDisputed ==
    ASSUME AllLocal
    PROVE  Spec => [](Disputed = {})
<1> DEFINE Undisputed == \A r \in Resv : order[r] # "NEEDS_RESOLUTION"
<1>1. Init => Undisputed
  BY DEF Init
<1>2. TypeOK /\ Protocol /\ Outcome /\ Ledger /\ Undisputed /\ [Next]_vars => Undisputed'
  BY LocalNoDispute
<1>3. TypeOK /\ Undisputed => Disputed = {}
  BY LineFacts DEF Disputed, TypeOK
<1>4. QED
  BY <1>1, <1>2, <1>3, TypeCorrect, ProtocolAlways, OutcomeAlways, LedgerAlways, PTL DEF Spec

\* Without external providers, qty_reserved is always what the live holds ask for:
\* every cancel, expiry and sale finds its own units, whatever ran in between.
THEOREM LocalStockBacked ==
    ASSUME AllLocal
    PROVE  Spec => []StockBacked
<1>1. BackedUnlessDisputed /\ Disputed = {} => StockBacked
  BY DEF BackedUnlessDisputed, StockBacked
<1>2. QED
  BY <1>1, StockBackedUnlessDisputed, LocalNeverDisputed, PTL

\* And never more is sold and held than there was.
THEOREM LocalNeverOversold ==
    ASSUME AllLocal
    PROVE  Spec => []NoOversell
<1>1. ASSUME OversellBounded, Disputed = {}
      PROVE  NoOversell
  <2> SUFFICES ASSUME NEW s \in Sku, Kind[s] # "external"
               PROVE  Units(sold, s) + Units(Holding, s) <= OnHand[s]
    BY DEF NoOversell
  <2>1. Units(Disputed, s) = 0 /\ OnHand[s] \in Nat
    BY <1>1, UnitsNone, OnHandAssumption
  <2>2. QED
    BY <1>1, <2>1 DEF OversellBounded
<1>2. QED
  BY <1>1, NeverOversoldByMore, LocalNeverDisputed, PTL
=============================================================================
