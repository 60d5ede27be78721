---------------------- MODULE ReservationServiceProofs ----------------------
(***************************************************************************)
(* Proofs about ReservationService, for every set of reservations, skus,   *)
(* carts and quantities.                                                   *)
(***************************************************************************)
EXTENDS ReservationProperties, FiniteSetTheorems, SequenceTheorems, TLAPS

-----------------------------------------------------------------------------
(* Lines, units and rows.                                                  *)

\* A line belongs to a reservation, names a sku and asks for at least one unit.
LEMMA LineFacts ==
    ASSUME NEW l \in Line
    PROVE  /\ Owner(l) \in Resv
           /\ SkuOf(l) \in Sku
           /\ Qty(l) \in Nat \ {0}
           /\ Slot(l) \in Slots
<1>1. PICK r \in Resv : l \in {r} \X (1 .. Len(Cart[r]))
  BY DEF Line
<1>2. /\ l[1] = r
      /\ l[2] \in 1 .. Len(Cart[r])
  BY <1>1
<1>3. Cart[r] \in Seq([sku : Sku, qty : Nat \ {0}])
  BY CartAssumption
<1>4. Cart[r][l[2]] \in [sku : Sku, qty : Nat \ {0}]
  BY <1>2, <1>3, ElementOfSeq
<1>5. QED
  BY <1>2, <1>4 DEF Owner, SkuOf, Qty, Slot, Slots

\* The number of units that some lines ask of a row is a natural number.
LEMMA UnitsType ==
    ASSUME NEW L, NEW s
    PROVE  Units(L, s) \in Nat
<1>1. IsFiniteSet({u \in Unit : u[1] \in L /\ SkuOf(u[1]) = s})
  BY UnitAssumption, FS_Subset
<1>2. QED
  BY <1>1, FS_CardinalityType DEF Units

\* The rows a database with its CHECK constraints may hold.
SoundRows(rows) ==
    /\ rows \in [Sku -> Row]
    /\ \A s \in Sku : rows[s].reserved <= rows[s].onHand

\* A reserve that its guard lets through leaves sound rows.
LEMMA ReservedSound ==
    ASSUME SoundRows(inv), NEW L, CanReserve(L)
    PROVE  SoundRows(Reserved(inv, L))
<1>1. ASSUME NEW s \in Sku
      PROVE  /\ Reserved(inv, L)[s] \in Row
             /\ Reserved(inv, L)[s].reserved <= Reserved(inv, L)[s].onHand
  <2>1. inv[s] \in Row /\ Units(L, s) \in Nat
    BY UnitsType DEF SoundRows
  <2>2. Reserved(inv, L)[s] = [inv[s] EXCEPT !.reserved = @ + Units(L, s)]
    BY DEF Reserved
  <2>3. Units(L, s) <= inv[s].onHand - inv[s].reserved
    BY DEF CanReserve
  <2>4. QED
    BY <2>1, <2>2, <2>3 DEF Row
<1>2. DOMAIN Reserved(inv, L) = Sku
  BY DEF Reserved
<1>3. QED
  BY <1>1, <1>2 DEF SoundRows, Reserved

\* So do guarded releases, whichever of them their guards let through.
LEMMA ReleasedSound ==
    ASSUME NEW rows, SoundRows(rows), NEW G, NEW L, Granted(rows, G, L)
    PROVE  SoundRows(Released(rows, G))
<1>1. ASSUME NEW s \in Sku
      PROVE  /\ Released(rows, G)[s] \in Row
             /\ Released(rows, G)[s].reserved <= Released(rows, G)[s].onHand
  <2>1. rows[s] \in Row /\ Units(G, s) \in Nat
    BY UnitsType DEF SoundRows
  <2>2. Released(rows, G)[s] = [rows[s] EXCEPT !.reserved = @ - Units(G, s)]
    BY DEF Released
  <2>3. Units(G, s) <= rows[s].reserved /\ rows[s].reserved <= rows[s].onHand
    BY DEF Granted, SoundRows
  <2>4. QED
    BY <2>1, <2>2, <2>3 DEF Row
<1>2. QED
  BY <1>1 DEF SoundRows, Released

\* And guarded sales.
LEMMA ConsumedSound ==
    ASSUME NEW rows, SoundRows(rows), NEW G, NEW L, Granted(rows, G, L)
    PROVE  SoundRows(Consumed(rows, G))
<1>1. ASSUME NEW s \in Sku
      PROVE  /\ Consumed(rows, G)[s] \in Row
             /\ Consumed(rows, G)[s].reserved <= Consumed(rows, G)[s].onHand
  <2>1. rows[s] \in Row /\ Units(G, s) \in Nat
    BY UnitsType DEF SoundRows
  <2>2. Consumed(rows, G)[s] = [onHand   |-> rows[s].onHand - Units(G, s),
                                reserved |-> rows[s].reserved - Units(G, s)]
    BY DEF Consumed
  <2>3. Units(G, s) <= rows[s].reserved /\ rows[s].reserved <= rows[s].onHand
    BY DEF Granted, SoundRows
  <2>4. QED
    BY <2>1, <2>2, <2>3 DEF Row
<1>2. QED
  BY <1>1 DEF SoundRows, Consumed

-----------------------------------------------------------------------------
(* Every variable keeps its type, and no row leaves its bounds.  Neither   *)
(* holds by itself: consume() takes from qty_on_hand what its guard only   *)
(* looked for in qty_reserved.                                             *)

TypedStock == TypeOK /\ StockBounds

LEMMA TypedStockRows ==
    ASSUME TypedStock
    PROVE  SoundRows(inv)
BY DEF TypedStock, TypeOK, StockBounds, SoundRows

LEMMA RowsBound ==
    ASSUME SoundRows(inv)
    PROVE  StockBounds
BY DEF SoundRows, StockBounds, Row

LEMMA TypedStockInit == Init => TypedStock
<1> SUFFICES ASSUME Init PROVE TypedStock
  OBVIOUS
<1>1. inv \in [Sku -> Row] /\ StockBounds
  BY OnHandAssumption DEF Init, Row, StockBounds
<1>2. QED
  BY <1>1 DEF TypedStock, TypeOK, Init, Status, HoldStatus, OrderStatus, Remote

\* The holds a provider can end up with.
LEMMA OutcomeTypes ==
    ASSUME NEW v \in Remote, NEW o
    PROVE  /\ o \in ReserveOutcomes(v)   => o[1] \in Answer /\ o[2] \in Remote
           /\ o \in ConfirmOutcomes(v)   => o[1] \in Answer /\ o[2] \in Remote
           /\ o \in ReleaseOutcomes(v)   => o[1] \in Answer /\ o[2] \in Remote
           /\ o \in UnconfirmOutcomes(v) => o[1] \in Answer /\ o[2] \in Remote
<1>1. o \in ReserveOutcomes(v) => o[1] \in Answer /\ o[2] \in Remote
  BY DEF ReserveOutcomes, Answer, Remote
<1>2. o \in ConfirmOutcomes(v) => o[1] \in Answer /\ o[2] \in Remote
  BY DEF ConfirmOutcomes, Answer, Remote
<1>3. o \in ReleaseOutcomes(v) => o[1] \in Answer /\ o[2] \in Remote
  BY DEF ReleaseOutcomes, Kept, Answer, Remote
<1>4. o \in UnconfirmOutcomes(v) => o[1] \in Answer /\ o[2] \in Remote
  BY DEF UnconfirmOutcomes, Kept, Answer, Remote
<1>5. QED
  BY <1>1, <1>2, <1>3, <1>4

LEMMA WorkerOutcomeTypes ==
    ASSUME TypeOK, NEW t \in Task, NEW o \in WorkerOutcomes(t)
    PROVE  o[2] \in Remote
<1>1. t[2] \in Line /\ remote[Slot(t[2])] \in Remote
  BY LineFacts DEF Task, TypeOK
<1>2. QED
  BY <1>1, OutcomeTypes DEF WorkerOutcomes

LEMMA EnqueueType ==
    ASSUME TypeOK, NEW T
    PROVE  Enqueue(T) \in [Task -> {"NONE", "PENDING", "DONE"}]
BY DEF TypeOK, Enqueue

LEMMA CoveringType ==
    ASSUME TypeOK, NEW l \in Line
    PROVE  Covering(l) \in [Slots -> Nat]
BY LineFacts DEF TypeOK, Covering

LEMMA GiveUpTyped ==
    ASSUME TypedStock, NEW R \in SUBSET Resv, NEW status \in Status, NEW why,
           GiveUp(R, status, why)
    PROVE  TypedStock'
<1>1. PICK back \in SUBSET Line, G \in SUBSET Line :
         Granted(inv, G, back) /\ inv' = Released(inv, G)
  BY DEF GiveUp, HeldLines, Lines
<1>2. SoundRows(inv)'
  BY <1>1, TypedStockRows, ReleasedSound DEF SoundRows
<1>3. outbox' \in [Task -> {"NONE", "PENDING", "DONE"}]
  BY EnqueueType DEF GiveUp, TypedStock
<1>4. StockBounds'
  BY <1>2 DEF StockBounds, SoundRows, Row
<1>5. QED
  BY <1>2, <1>3, <1>4 DEF TypedStock, TypeOK, GiveUp, SoundRows

\* One step of the service.  Only Tx1Commit, FinalizeFail, ConfirmCommit, Cancel
\* and Sweep touch the stock.
LEMMA TypedStockNext ==
    ASSUME TypedStock, [Next]_vars
    PROVE  TypedStock'
<1> USE DEF TypedStock
<1>1. ASSUME NEW r \in Resv, Client(r)
      PROVE  TypedStock'
  <2>1. CASE Lookup(r)
    BY <2>1 DEF Lookup, TypeOK, StockBounds
  <2>2. CASE ConfirmClaim(r)
    BY <2>2 DEF ConfirmClaim, TypeOK, StockBounds, Status
  <2>3. CASE ConfirmRefuse(r)
    BY <2>3 DEF ConfirmRefuse, TypeOK, StockBounds
  <2>4. CASE Cancel(r)
    BY <2>4, GiveUpTyped DEF Cancel, Status
  <2>5. QED
    BY <1>1, <2>1, <2>2, <2>3, <2>4 DEF Client
<1>2. ASSUME NEW r \in Resv, Create(r)
      PROVE  TypedStock'
  <2>1. CASE Tx1Commit(r)
    <3>1. SoundRows(inv)'
      BY <2>1, TypedStockRows, ReservedSound DEF Tx1Commit, SoundRows
    <3>2. hold' \in [Line -> HoldStatus]
      BY <2>1 DEF Tx1Commit, TypeOK, HoldStatus
    <3>3. QED
      BY <2>1, <3>1, <3>2 DEF Tx1Commit, TypeOK, SoundRows, StockBounds, Row, Status
  <2>2. CASE Tx1Rollback(r)
    BY <2>2 DEF Tx1Rollback, TypeOK, StockBounds
  <2>3. ASSUME NEW l \in Lines(r), CallReserve(l)
        PROVE  TypedStock'
    <3>1. l \in Line /\ remote[Slot(l)] \in Remote
      BY LineFacts DEF Lines, TypeOK
    <3>2. ans' \in [Line -> Answer \cup {"none"}] /\ remote' \in [Slots -> Remote]
      BY <2>3, <3>1, OutcomeTypes DEF CallReserve, TypeOK
    <3>3. covers' \in [Slots -> Nat]
      BY <2>3, <3>1, CoveringType DEF CallReserve, TypeOK
    <3>4. QED
      BY <2>3, <3>2, <3>3 DEF CallReserve, TypeOK, StockBounds
  <2>4. ASSUME NEW l \in Lines(r), SaveItem(l)
        PROVE  TypedStock'
    <3>1. l \in Line /\ Owner(l) \in Resv
      BY LineFacts DEF Lines
    <3>2. outbox' \in [Task -> {"NONE", "PENDING", "DONE"}]
      BY <2>4, EnqueueType DEF SaveItem, TypeOK
    <3>3. QED
      BY <2>4, <3>1, <3>2 DEF SaveItem, HoldAfter, TypeOK, StockBounds, HoldStatus
  <2>5. CASE FinalizeOk(r)
    BY <2>5 DEF FinalizeOk, TypeOK, StockBounds, Status
  <2>6. CASE FinalizeFail(r)
    <3>1. PICK back \in SUBSET Line, G \in SUBSET Line :
             Granted(inv, G, back) /\ inv' = Released(inv, G)
      BY <2>6 DEF FinalizeFail, HeldLines, Lines
    <3>2. SoundRows(inv)'
      BY <3>1, TypedStockRows, ReleasedSound DEF SoundRows
    <3>3. outbox' \in [Task -> {"NONE", "PENDING", "DONE"}]
      BY <2>6, EnqueueType DEF FinalizeFail
    <3>4. hold' \in [Line -> HoldStatus]
      BY <2>6 DEF FinalizeFail, TypeOK, HoldStatus
    <3>5. QED
      BY <2>6, <3>2, <3>3, <3>4 DEF FinalizeFail, TypeOK, SoundRows, StockBounds, Row, Status
  <2>7. CASE FinalizeAbort(r)
    BY <2>7 DEF FinalizeAbort, TypeOK, StockBounds
  <2>8. QED
    BY <1>2, <2>1, <2>2, <2>3, <2>4, <2>5, <2>6, <2>7 DEF Create
<1>3. ASSUME NEW r \in Resv, Confirm(r)
      PROVE  TypedStock'
  <2>1. ASSUME NEW l \in Lines(r), CallConfirm(l)
        PROVE  TypedStock'
    <3>1. l \in Line /\ remote[Slot(l)] \in Remote
      BY LineFacts DEF Lines, TypeOK
    <3>2. ans' \in [Line -> Answer \cup {"none"}] /\ remote' \in [Slots -> Remote]
      BY <2>1, <3>1, OutcomeTypes DEF CallConfirm, TypeOK
    <3>3. QED
      BY <2>1, <3>2 DEF CallConfirm, TypeOK, StockBounds
  <2>2. CASE ConfirmCommit(r)
    <3>1. PICK own \in SUBSET Line, took \in SUBSET Line, needsResolution \in BOOLEAN :
             /\ Granted(inv, took, own)
             /\ \/ inv' = Consumed(inv, took)
                \/ \E G \in SUBSET took : /\ Granted(Consumed(inv, took), G, took)
                                          /\ inv' = Released(Consumed(inv, took), G)
             /\ sold' = sold \cup took \cup Answered(r, "ok")
             /\ outbox' = Enqueue(ConfirmTasks(r, needsResolution))
             /\ order' = [order EXCEPT ![r] = OrderAfter(r, needsResolution)]
      BY <2>2 DEF ConfirmCommit, Lines
    <3>2. SoundRows(Consumed(inv, took))
      BY <3>1, TypedStockRows, ConsumedSound
    <3>3. SoundRows(inv)'
      BY <3>1, <3>2, ReleasedSound DEF SoundRows
    <3>4. outbox' \in [Task -> {"NONE", "PENDING", "DONE"}]
      BY <3>1, EnqueueType
    <3>5. sold' \subseteq Line
      BY <3>1 DEF TypeOK, Answered, OtherLines, Lines
    <3>6. order' \in [Resv -> OrderStatus]
      BY <3>1 DEF TypeOK, OrderAfter, OrderStatus
    <3>7. ans' \in [Line -> Answer \cup {"none"}]
      BY <2>2 DEF ConfirmCommit, Forget, TypeOK
    <3>8. QED
      BY <2>2, <3>3, <3>4, <3>5, <3>6, <3>7
      DEF ConfirmCommit, TypeOK, SoundRows, StockBounds, Row, Status
  <2>3. CASE ConfirmAbort(r)
    BY <2>3 DEF ConfirmAbort, Forget, TypeOK, StockBounds
  <2>4. QED
    BY <1>3, <2>1, <2>2, <2>3 DEF Confirm
<1>4. ASSUME NEW r \in Resv, Elapse(r) \/ Crash(r)
      PROVE  TypedStock'
  BY <1>4 DEF Elapse, Crash, Forget, TypeOK, StockBounds
<1>5. CASE Sweep
  <2>1. Due \in SUBSET Resv
    BY DEF Due, TypeOK
  <2>2. QED
    BY <1>5, <2>1, GiveUpTyped DEF Sweep, Status
<1>6. ASSUME NEW l \in Line, LateArrival(l)
      PROVE  TypedStock'
  BY <1>6, CoveringType DEF LateArrival, TypeOK, StockBounds, Remote
<1>7. ASSUME NEW t \in Task, Worker(t)
      PROVE  TypedStock'
  <2>1. t[2] \in Line /\ Owner(t[2]) \in Resv
    BY LineFacts DEF Task
  <2>2. CASE DrainDone(t)
    <3>1. remote' \in [Slots -> Remote]
      BY <2>2, WorkerOutcomeTypes DEF DrainDone, TypeOK
    <3>2. order' \in [Resv -> OrderStatus]
      BY <2>1, <2>2 DEF DrainDone, TypeOK, OrderStatus
    <3>3. QED
      BY <2>2, <3>1, <3>2 DEF DrainDone, TypeOK, StockBounds
  <2>3. CASE DrainFail(t)
    <3>1. remote' \in [Slots -> Remote]
      BY <2>3, WorkerOutcomeTypes DEF DrainFail, TypeOK
    <3>2. QED
      BY <2>3, <3>1 DEF DrainFail, TypeOK, StockBounds
  <2>4. CASE Reopen(t)
    BY <2>4 DEF Reopen, TypeOK, StockBounds
  <2>5. QED
    BY <1>7, <2>2, <2>3, <2>4 DEF Worker
<1>8. CASE UNCHANGED vars
  BY <1>8 DEF vars, TypeOK, StockBounds
<1>9. QED
  BY <1>1, <1>2, <1>3, <1>4, <1>5, <1>6, <1>7, <1>8 DEF Next, Serve

\* Every variable always has its type.
THEOREM TypeCorrect == Spec => []TypeOK
<1>1. Spec => []TypedStock
  BY TypedStockInit, TypedStockNext, PTL DEF Spec
<1>2. TypedStock => TypeOK
  BY DEF TypedStock
<1>3. QED
  BY <1>1, <1>2, PTL

\* Whatever the carts, the quantities and the interleaving, no row ever has a
\* negative qty_reserved, or more reserved than on hand.
THEOREM StockAlwaysBounded == Spec => []StockBounds
<1>1. Spec => []TypedStock
  BY TypedStockInit, TypedStockNext, PTL DEF Spec
<1>2. TypedStock => StockBounds
  BY DEF TypedStock
<1>3. QED
  BY <1>1, <1>2, PTL
=============================================================================
