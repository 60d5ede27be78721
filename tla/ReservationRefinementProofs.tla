--------------------- MODULE ReservationRefinementProofs ---------------------
(***************************************************************************)
(* Proof that the service implements ReservationLifecycle: the status and  *)
(* the order of every reservation move only as the state machine says.     *)
(***************************************************************************)
EXTENDS ReservationProtocolProofs

LEMMA LifecycleInit == Init => Lifecycle!Init
BY DEF Init, Lifecycle!Init

-----------------------------------------------------------------------------
(* The steps that move a status or an order, and the step each one is.     *)

\* TX1 commits: the first execution with the key begins the reservation.
LEMMA Tx1CommitBegins ==
    ASSUME NEW r \in Resv, Tx1Commit(r)
    PROVE  Lifecycle!Begin(r)
<1>1. \A q \in Resv : KeyOf[q] = KeyOf[r] => resv[q] = "NONE"
  BY DEF Tx1Commit, KeyTaken
<1>2. QED
  BY <1>1 DEF Tx1Commit, Lifecycle!Begin, Lifecycle!Move

\* TX_final settles it one way or the other; nobody else can have moved it.
LEMMA FinalizeSettles ==
    ASSUME Protocol, NEW r \in Resv, FinalizeOk(r) \/ FinalizeFail(r)
    PROVE  Lifecycle!Settle(r)
<1>1. resv[r] = "INITIALIZING"
  BY DEF FinalizeOk, FinalizeFail, Protocol, Owned
<1>2. CASE FinalizeOk(r)
  BY <1>1, <1>2 DEF FinalizeOk, Lifecycle!Settle, Lifecycle!Move
<1>3. CASE FinalizeFail(r)
  BY <1>1, <1>3 DEF FinalizeFail, Lifecycle!Settle, Lifecycle!Move
<1>4. QED
  BY <1>2, <1>3

LEMMA ConfirmClaims ==
    ASSUME NEW r \in Resv, ConfirmClaim(r)
    PROVE  Lifecycle!Claim(r)
BY DEF ConfirmClaim, Lifecycle!Claim, Lifecycle!Move

LEMMA CancelCancels ==
    ASSUME TypeOK, NEW r \in Resv, Cancel(r)
    PROVE  Lifecycle!Cancel(r)
<1>1. /\ resv[r] = "PENDING" /\ order' = order
      /\ resv' = [q \in Resv |-> IF q \in {r} THEN "CANCELLED" ELSE resv[q]]
  BY DEF Cancel, GiveUp
<1>2. resv' = [resv EXCEPT ![r] = "CANCELLED"]
  BY <1>1 DEF TypeOK
<1>3. QED
  BY <1>1, <1>2 DEF Lifecycle!Cancel, Lifecycle!Move

\* One UPDATE of the sweeper is one step for all the reservations that are due.
LEMMA SweepExpires ==
    ASSUME TypeOK, Sweep
    PROVE  \E S \in SUBSET Resv : Lifecycle!Expire(S)
<1>1. /\ Due \in SUBSET Resv /\ Due # {}
      /\ \A r \in Due : resv[r] = "PENDING"
      /\ resv' = [r \in Resv |-> IF r \in Due THEN "EXPIRED" ELSE resv[r]]
      /\ order' = order
  BY DEF Sweep, GiveUp, Due, TypeOK
<1>2. Lifecycle!Expire(Due)
  BY <1>1 DEF Lifecycle!Expire
<1>3. QED
  BY <1>1, <1>2

\* Window 2 writes the status and the only order in one transaction.
LEMMA ConfirmFulfils ==
    ASSUME TypeOK, Protocol, NEW r \in Resv, ConfirmCommit(r)
    PROVE  Lifecycle!Fulfil(r)
<1>1. resv[r] = "CONFIRMING" /\ order[r] = "NONE"
  BY DEF ConfirmCommit, Protocol, Owned, OrderLast
<1>2. PICK needsResolution \in BOOLEAN :
         order' = [order EXCEPT ![r] = OrderAfter(r, needsResolution)]
  BY DEF ConfirmCommit
<1>3. OrderAfter(r, needsResolution) \in Lifecycle!OrderStatus \ {"NONE"}
  BY DEF OrderAfter, Lifecycle!OrderStatus
<1>4. resv' = [resv EXCEPT ![r] = "CONFIRMED"]
  BY DEF ConfirmCommit
<1>5. QED
  BY <1>1, <1>2, <1>3, <1>4 DEF Lifecycle!Fulfil

\* A rejected confirm, however often it is retried, turns an order only once, and
\* never one that was CONFIRMED.
LEMMA DrainEscalates ==
    ASSUME TypeOK, Protocol, NEW t \in Task, DrainDone(t)
    PROVE  UNCHANGED <<resv, order>> \/ Lifecycle!Escalate(Owner(t[2]))
<1> DEFINE k == t[2]
<1>1. k \in Line /\ t = <<t[1], k>> /\ Owner(k) \in Resv /\ remote[Slot(k)] \in Remote
  BY LineFacts DEF Task, TypeOK
<1>2. PICK o \in WorkerOutcomes(t) :
         order' = IF o[1] = "rejected"
                    THEN [order EXCEPT ![Owner(k)] = "NEEDS_RESOLUTION"] ELSE order
  BY DEF DrainDone
<1>3. UNCHANGED resv /\ outbox[t] # "NONE"
  BY DEF DrainDone
<1>4. CASE o[1] = "rejected"
  <2>1. t[1] = "confirm"
    BY <1>1, <1>4, WorkerEffect
  <2>2. TaskFits(k)
    BY <1>1 DEF Protocol, TaskMeans
  <2>3. order[Owner(k)] \in {"PENDING_FULFILMENT", "NEEDS_RESOLUTION"}
    BY <1>1, <1>3, <2>1, <2>2 DEF TaskFits
  <2>4. QED
    BY <1>1, <1>2, <1>3, <1>4, <2>3 DEF Lifecycle!Escalate, TypeOK
<1>5. CASE o[1] # "rejected"
  BY <1>2, <1>3, <1>5
<1>6. QED
  BY <1>4, <1>5

-----------------------------------------------------------------------------

LEMMA LifecycleNext ==
    ASSUME TypeOK, Protocol, [Next]_vars
    PROVE  [Lifecycle!Next]_(Lifecycle!vars)
<1> USE DEF Lifecycle!vars
<1>1. ASSUME NEW r \in Resv, Client(r)
      PROVE  Lifecycle!Next \/ UNCHANGED <<resv, order>>
  <2>1. CASE Lookup(r) \/ ConfirmRefuse(r)
    BY <2>1 DEF Lookup, ConfirmRefuse
  <2>2. CASE ConfirmClaim(r) \/ Cancel(r)
    BY <2>2, ConfirmClaims, CancelCancels DEF Lifecycle!Next
  <2>3. QED
    BY <1>1, <2>1, <2>2 DEF Client
<1>2. ASSUME NEW r \in Resv, Create(r)
      PROVE  Lifecycle!Next \/ UNCHANGED <<resv, order>>
  <2>1. CASE Tx1Commit(r) \/ FinalizeOk(r) \/ FinalizeFail(r)
    BY <2>1, Tx1CommitBegins, FinalizeSettles DEF Lifecycle!Next
  <2>2. CASE Tx1Rollback(r) \/ FinalizeAbort(r)
    BY <2>2 DEF Tx1Rollback, FinalizeAbort
  <2>3. CASE \E l \in Lines(r) : CallReserve(l) \/ SaveItem(l)
    BY <2>3 DEF CallReserve, SaveItem
  <2>4. QED
    BY <1>2, <2>1, <2>2, <2>3 DEF Create
<1>3. ASSUME NEW r \in Resv, Confirm(r)
      PROVE  Lifecycle!Next \/ UNCHANGED <<resv, order>>
  <2>1. CASE ConfirmCommit(r)
    BY <2>1, ConfirmFulfils DEF Lifecycle!Next
  <2>2. CASE ConfirmAbort(r) \/ \E l \in Lines(r) : CallConfirm(l)
    BY <2>2 DEF ConfirmAbort, CallConfirm
  <2>3. QED
    BY <1>3, <2>1, <2>2 DEF Confirm
<1>4. ASSUME NEW r \in Resv, Elapse(r) \/ Crash(r)
      PROVE  UNCHANGED <<resv, order>>
  BY <1>4 DEF Elapse, Crash
<1>5. CASE Sweep
  BY <1>5, SweepExpires DEF Lifecycle!Next
<1>6. ASSUME NEW l \in Line, LateArrival(l)
      PROVE  UNCHANGED <<resv, order>>
  BY <1>6 DEF LateArrival
<1>7. ASSUME NEW t \in Task, Worker(t)
      PROVE  Lifecycle!Next \/ UNCHANGED <<resv, order>>
  <2>1. CASE DrainDone(t)
    <3>1. Owner(t[2]) \in Resv
      BY LineFacts DEF Task
    <3>2. QED
      BY <2>1, <3>1, DrainEscalates DEF Lifecycle!Next
  <2>2. CASE DrainFail(t) \/ Reopen(t)
    BY <2>2 DEF DrainFail, Reopen
  <2>3. QED
    BY <1>7, <2>1, <2>2 DEF Worker
<1>8. CASE UNCHANGED vars
  BY <1>8 DEF vars
<1>9. QED
  BY <1>1, <1>2, <1>3, <1>4, <1>5, <1>6, <1>7, <1>8 DEF Next, Serve

\* The service implements the abstract lifecycle: one reservation for each key,
\* one winner among payment, cancellation and clock, orders only for the
\* reservations that were claimed.
THEOREM ServiceImplementsLifecycle == Spec => LifecycleSpec
<1>1. Init => Lifecycle!Init
  BY LifecycleInit
<1>2. TypeOK /\ Protocol /\ [Next]_vars => [Lifecycle!Next]_(Lifecycle!vars)
  BY LifecycleNext
<1>3. QED
  BY <1>1, <1>2, TypeCorrect, ProtocolAlways, PTL
  DEF Spec, LifecycleSpec, Lifecycle!Spec
-----------------------------------------------------------------------------
(* A promise of the lifecycle, and so of the service.                      *)

LEMMA LifecycleOnePerKey ==
    ASSUME resv \in [Resv -> Status], OnePerKey, [Lifecycle!Next]_(Lifecycle!vars)
    PROVE  OnePerKey'
<1>1. ASSUME NEW r \in Resv, NEW from, NEW to, Lifecycle!Move(r, from, to), from # "NONE"
      PROVE  OnePerKey'
  BY <1>1 DEF OnePerKey, Lifecycle!Move
<1>2. ASSUME NEW r \in Resv, Lifecycle!Begin(r)
      PROVE  OnePerKey'
  BY <1>2 DEF OnePerKey, Lifecycle!Begin, Lifecycle!Move
<1>3. ASSUME NEW r \in Resv, Lifecycle!Fulfil(r) \/ Lifecycle!Escalate(r)
      PROVE  OnePerKey'
  BY <1>3 DEF OnePerKey, Lifecycle!Fulfil, Lifecycle!Escalate
<1>4. ASSUME NEW S \in SUBSET Resv, Lifecycle!Expire(S)
      PROVE  OnePerKey'
  BY <1>4 DEF OnePerKey, Lifecycle!Expire
<1>5. CASE UNCHANGED Lifecycle!vars
  BY <1>5 DEF Lifecycle!vars, OnePerKey
<1>6. QED
  BY <1>1, <1>2, <1>3, <1>4, <1>5
  DEF Lifecycle!Next, Lifecycle!Settle, Lifecycle!Claim, Lifecycle!Cancel

\* One reservation at most has a key, for any number of requests.
THEOREM OneReservationPerKey == Spec => []OnePerKey
<1>1. Init => OnePerKey
  BY DEF Init, OnePerKey
<1>2. TypeOK /\ Protocol /\ OnePerKey /\ [Next]_vars => OnePerKey'
  BY LifecycleNext, LifecycleOnePerKey DEF TypeOK
<1>3. QED
  BY <1>1, <1>2, TypeCorrect, ProtocolAlways, PTL DEF Spec
=============================================================================
