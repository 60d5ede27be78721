---------------------- MODULE ReservationProtocolProofs ----------------------
(***************************************************************************)
(* Proofs about who may do what when: the outcome that wins a reservation  *)
(* is the only one that its provider, its order and the outbox ever see,   *)
(* and the service implements the abstract lifecycle.                      *)
(***************************************************************************)
EXTENDS ReservationServiceProofs

-----------------------------------------------------------------------------
(* The invariant.                                                          *)

\* A handler that is past its first transaction owns the status.
Owned ==
    \A r \in Resv : /\ pc[r] \in {"calls", "fail"} => resv[r] = "INITIALIZING"
                    /\ pc[r] = "confirm" => resv[r] = "CONFIRMING"

\* Orders and sales belong to confirmed reservations.
OrderLast == \A r \in Resv : order[r] # "NONE" => resv[r] = "CONFIRMED"
SoldLast  == \A l \in sold : resv[Owner(l)] = "CONFIRMED"

\* What the existence of a task says about the reservation it belongs to.
TaskFits(l) ==
    /\ outbox[<<"release", l>>] # "NONE" => resv[Owner(l)] = "FAILED"
    /\ outbox[<<"cancel", l>>]  # "NONE" => resv[Owner(l)] = "CANCELLED"
    /\ outbox[<<"expired", l>>] # "NONE" => resv[Owner(l)] = "EXPIRED"
    /\ outbox[<<"confirm", l>>] # "NONE"
          => order[Owner(l)] \in {"PENDING_FULFILMENT", "NEEDS_RESOLUTION"}
    /\ outbox[<<"compensate", l>>] # "NONE" => order[Owner(l)] = "NEEDS_RESOLUTION"

TaskMeans == \A l \in Line : TaskFits(l)

Protocol ==
    /\ Owned /\ OrderLast /\ SoldLast /\ TaskMeans
    /\ ConfirmedOnlyIfClaimed /\ ReleasedOnlyIfGivenUp

LEMMA ProtocolInit == Init => Protocol
<1> SUFFICES ASSUME Init PROVE Protocol
  OBVIOUS
<1>1. Owned /\ OrderLast /\ SoldLast
  BY DEF Init, Owned, OrderLast, SoldLast
<1>2. TaskMeans
  BY DEF Init, TaskMeans, TaskFits, Task, Why
<1>3. ConfirmedOnlyIfClaimed /\ ReleasedOnlyIfGivenUp
  BY LineFacts DEF Init, ConfirmedOnlyIfClaimed, ReleasedOnlyIfGivenUp
<1>4. QED
  BY <1>1, <1>2, <1>3 DEF Protocol

-----------------------------------------------------------------------------
(* What the calls can and cannot do to a hold.                             *)

LEMMA ReserveEffect ==
    ASSUME NEW v, NEW o \in ReserveOutcomes(v)
    PROVE  o[2] = v \/ o[2] = "held"
BY DEF ReserveOutcomes

LEMMA ConfirmEffect ==
    ASSUME NEW v \in Remote, NEW o \in ConfirmOutcomes(v)
    PROVE  o[2] = v \/ o[2] \in {"confirmed", "lapsed", "refused"}
BY DEF ConfirmOutcomes

LEMMA WorkerEffect ==
    ASSUME NEW t \in Task, NEW o \in WorkerOutcomes(t), remote[Slot(t[2])] \in Remote
    PROVE  /\ o[1] = "rejected" => t[1] = "confirm"
           /\ o[2] = "confirmed" => remote[Slot(t[2])] = "confirmed" \/ t[1] = "confirm"
           /\ o[2] = "released"
                 => \/ remote[Slot(t[2])] = "released"
                    \/ t[1] \in {"release", "cancel", "expired", "compensate"}
<1> DEFINE v == remote[Slot(t[2])]
<1>1. t[1] \in Why
  BY DEF Task
<1>2. CASE t[1] = "reconcile"
  BY <1>2 DEF WorkerOutcomes, TaskType
<1>3. CASE t[1] = "confirm"
  <2>1. o \in ConfirmOutcomes(v)
    BY <1>3 DEF WorkerOutcomes, TaskType
  <2>2. QED
    BY <1>3, <2>1, ConfirmEffect
<1>4. CASE t[1] \in {"release", "cancel", "expired", "compensate"}
  <2>1. o \in ReleaseOutcomes(v) \cup UnconfirmOutcomes(v)
    BY <1>4 DEF WorkerOutcomes, TaskType
  <2>2. o[1] # "rejected" /\ (o[2] = "confirmed" => v = "confirmed")
    BY <2>1 DEF ReleaseOutcomes, UnconfirmOutcomes
  <2>3. QED
    BY <1>4, <2>2
<1>5. QED
  BY <1>1, <1>2, <1>3, <1>4 DEF Why

-----------------------------------------------------------------------------
(* The steps.                                                              *)

LEMMA OtherTasks ==
    ASSUME NEW T, outbox' = Enqueue(T), NEW l \in Line, NEW w \in Why, <<w, l>> \notin T
    PROVE  outbox'[<<w, l>>] = outbox[<<w, l>>]
<1>1. <<w, l>> \in Task
  BY DEF Task
<1>2. QED
  BY <1>1 DEF Enqueue

\* A new reservation had no order, task or hold before.
LEMMA Tx1CommitProtocol ==
    ASSUME TypeOK, Protocol, NEW r \in Resv, Tx1Commit(r)
    PROVE  Protocol'
<1>1. resv[r] = "NONE"
  BY DEF Tx1Commit, KeyTaken
<1>2. /\ resv' = [resv EXCEPT ![r] = "INITIALIZING"]
      /\ pc' = [pc EXCEPT ![r] = "calls"]
      /\ UNCHANGED <<order, sold, outbox, remote>>
  BY DEF Tx1Commit
<1>3. Owned' /\ OrderLast' /\ SoldLast'
  BY <1>1, <1>2, LineFacts DEF Protocol, Owned, OrderLast, SoldLast, TypeOK
<1>4. TaskMeans'
  BY <1>1, <1>2, LineFacts DEF Protocol, TaskMeans, TaskFits, OrderLast, TypeOK
<1>5. ConfirmedOnlyIfClaimed' /\ ReleasedOnlyIfGivenUp'
  BY <1>1, <1>2, LineFacts
  DEF Protocol, ConfirmedOnlyIfClaimed, ReleasedOnlyIfGivenUp, OrderLast, TypeOK
<1>6. QED
  BY <1>3, <1>4, <1>5 DEF Protocol

LEMMA CallReserveProtocol ==
    ASSUME TypeOK, Protocol, NEW l \in Line, CallReserve(l)
    PROVE  Protocol'
<1>1. Owned' /\ OrderLast' /\ SoldLast' /\ TaskMeans'
  BY DEF CallReserve, Protocol, Owned, OrderLast, SoldLast, TaskMeans, TaskFits
<1>2. PICK o \in ReserveOutcomes(remote[Slot(l)]) :
         remote' = [remote EXCEPT ![Slot(l)] = o[2]]
  BY DEF CallReserve
<1>3. \A m \in Line : remote'[Slot(m)] = remote[Slot(m)] \/ remote'[Slot(m)] = "held"
  BY <1>2, ReserveEffect, LineFacts DEF TypeOK
<1>4. ConfirmedOnlyIfClaimed' /\ ReleasedOnlyIfGivenUp'
  BY <1>3 DEF CallReserve, Protocol, ConfirmedOnlyIfClaimed, ReleasedOnlyIfGivenUp
<1>5. QED
  BY <1>1, <1>4 DEF Protocol

LEMMA SaveItemProtocol ==
    ASSUME TypeOK, Protocol, NEW l \in Line, SaveItem(l)
    PROVE  Protocol'
<1>1. Owned' /\ OrderLast' /\ SoldLast'
  BY LineFacts DEF SaveItem, Protocol, Owned, OrderLast, SoldLast, TypeOK
<1>2. ASSUME NEW m \in Line, NEW w \in Why \ {"reconcile"}
      PROVE  outbox'[<<w, m>>] = outbox[<<w, m>>]
  BY OtherTasks DEF SaveItem
<1>3. TaskMeans'
  BY <1>2 DEF SaveItem, Protocol, TaskMeans, TaskFits, Why
<1>4. ConfirmedOnlyIfClaimed' /\ ReleasedOnlyIfGivenUp'
  BY DEF SaveItem, Protocol, ConfirmedOnlyIfClaimed, ReleasedOnlyIfGivenUp
<1>5. QED
  BY <1>1, <1>3, <1>4 DEF Protocol

LEMMA FinalizeOkProtocol ==
    ASSUME TypeOK, Protocol, NEW r \in Resv, FinalizeOk(r)
    PROVE  Protocol'
<1>1. resv[r] = "INITIALIZING"
  BY DEF FinalizeOk, Protocol, Owned
<1>2. Owned' /\ OrderLast' /\ SoldLast'
  BY <1>1, LineFacts DEF FinalizeOk, Protocol, Owned, OrderLast, SoldLast, TypeOK
<1>3. TaskMeans'
  BY <1>1, LineFacts DEF FinalizeOk, Protocol, TaskMeans, TaskFits, TypeOK
<1>4. ConfirmedOnlyIfClaimed' /\ ReleasedOnlyIfGivenUp'
  BY <1>1, LineFacts
  DEF FinalizeOk, Protocol, ConfirmedOnlyIfClaimed, ReleasedOnlyIfGivenUp, TypeOK
<1>5. QED
  BY <1>2, <1>3, <1>4 DEF Protocol

LEMMA FinalizeFailProtocol ==
    ASSUME TypeOK, Protocol, NEW r \in Resv, FinalizeFail(r)
    PROVE  Protocol'
<1>1. resv[r] = "INITIALIZING"
  BY DEF FinalizeFail, Protocol, Owned
<1>2. PICK owed \in SUBSET Lines(r) :
         /\ outbox' = Enqueue({"release"} \X owed)
         /\ resv' = [resv EXCEPT ![r] = "FAILED"]
         /\ order' = order
  BY DEF FinalizeFail, HeldLines
<1>3. Owned' /\ OrderLast' /\ SoldLast'
  BY <1>1, LineFacts DEF FinalizeFail, Protocol, Owned, OrderLast, SoldLast, TypeOK
<1>4. ASSUME NEW l \in Line, NEW w \in Why, w # "release" \/ Owner(l) # r
      PROVE  outbox'[<<w, l>>] = outbox[<<w, l>>]
  <2>1. <<w, l>> \notin {"release"} \X owed
    BY <1>4 DEF Lines
  <2>2. QED
    BY <1>2, <2>1, OtherTasks
<1>5. TaskMeans'
  <2> SUFFICES ASSUME NEW l \in Line
               PROVE  TaskFits(l)'
    BY DEF TaskMeans
  <2>1. CASE Owner(l) = r
    BY <1>1, <1>2, <1>4, <2>1 DEF Protocol, TaskMeans, TaskFits, TypeOK, Why
  <2>2. CASE Owner(l) # r
    BY <1>2, <1>4, <2>2, LineFacts DEF Protocol, TaskMeans, TaskFits, TypeOK, Why
  <2>3. QED
    BY <2>1, <2>2
<1>6. ConfirmedOnlyIfClaimed' /\ ReleasedOnlyIfGivenUp'
  BY <1>1, LineFacts
  DEF FinalizeFail, Protocol, ConfirmedOnlyIfClaimed, ReleasedOnlyIfGivenUp, TypeOK
<1>7. QED
  BY <1>3, <1>5, <1>6 DEF Protocol

\* The steps that leave the status, the orders, the sales and the outbox alone,
\* and start no handler but confirm's or create's first transaction.
LEMMA QuietProtocol ==
    ASSUME Protocol, UNCHANGED <<resv, order, sold, outbox, remote>>,
           \A r \in Resv : pc'[r] = pc[r] \/ pc'[r] \in {"idle", "tx1"}
    PROVE  Protocol'
<1>1. Owned'
  BY DEF Protocol, Owned
<1>2. OrderLast' /\ SoldLast' /\ TaskMeans'
  BY DEF Protocol, OrderLast, SoldLast, TaskMeans, TaskFits
<1>3. ConfirmedOnlyIfClaimed' /\ ReleasedOnlyIfGivenUp'
  BY DEF Protocol, ConfirmedOnlyIfClaimed, ReleasedOnlyIfGivenUp
<1>4. QED
  BY <1>1, <1>2, <1>3 DEF Protocol

LEMMA ConfirmClaimProtocol ==
    ASSUME TypeOK, Protocol, NEW r \in Resv, ConfirmClaim(r)
    PROVE  Protocol'
<1>1. resv[r] = "PENDING"
  BY DEF ConfirmClaim
<1>2. Owned' /\ OrderLast' /\ SoldLast'
  BY <1>1, LineFacts DEF ConfirmClaim, Protocol, Owned, OrderLast, SoldLast, TypeOK
<1>3. TaskMeans'
  BY <1>1, LineFacts DEF ConfirmClaim, Protocol, TaskMeans, TaskFits, TypeOK
<1>4. ConfirmedOnlyIfClaimed' /\ ReleasedOnlyIfGivenUp'
  BY <1>1, LineFacts
  DEF ConfirmClaim, Protocol, ConfirmedOnlyIfClaimed, ReleasedOnlyIfGivenUp, TypeOK
<1>5. QED
  BY <1>2, <1>3, <1>4 DEF Protocol

\* The provider is asked to confirm while the claim stands: a hold it confirms
\* belongs to a reservation that is CONFIRMING.
LEMMA CallConfirmProtocol ==
    ASSUME TypeOK, Protocol, NEW l \in Line, CallConfirm(l)
    PROVE  Protocol'
<1>1. Owner(l) \in Resv /\ Slot(l) \in Slots /\ resv[Owner(l)] = "CONFIRMING"
  BY LineFacts DEF CallConfirm, Protocol, Owned
<1>2. Owned' /\ OrderLast' /\ SoldLast' /\ TaskMeans'
  BY DEF CallConfirm, Protocol, Owned, OrderLast, SoldLast, TaskMeans, TaskFits
<1>3. PICK o \in ConfirmOutcomes(remote[Slot(l)]) :
         remote' = [remote EXCEPT ![Slot(l)] = o[2]]
  BY DEF CallConfirm
<1>4. o[2] = remote[Slot(l)] \/ o[2] \in {"confirmed", "lapsed", "refused"}
  BY <1>1, ConfirmEffect DEF TypeOK
<1>5. ASSUME NEW m \in Line
      PROVE  \/ remote'[Slot(m)] = remote[Slot(m)]
             \/ Owner(m) = Owner(l) /\ remote'[Slot(m)] \in {"confirmed", "lapsed", "refused"}
  <2>1. Slot(m) \in Slots /\ (Slot(m) = Slot(l) => Owner(m) = Owner(l))
    BY LineFacts DEF Slot
  <2>2. QED
    BY <1>3, <1>4, <2>1 DEF TypeOK
<1>6. ConfirmedOnlyIfClaimed' /\ ReleasedOnlyIfGivenUp'
  BY <1>1, <1>5
  DEF CallConfirm, Protocol, ConfirmedOnlyIfClaimed, ReleasedOnlyIfGivenUp
<1>7. QED
  BY <1>2, <1>6 DEF Protocol

\* The order is made with the CONFIRMED status, and with every task that speaks
\* of it.
LEMMA ConfirmCommitProtocol ==
    ASSUME TypeOK, Protocol, NEW r \in Resv, ConfirmCommit(r)
    PROVE  Protocol'
<1>1. resv[r] = "CONFIRMING" /\ order[r] = "NONE"
  BY DEF ConfirmCommit, Protocol, Owned, OrderLast
<1>2. /\ resv' = [resv EXCEPT ![r] = "CONFIRMED"]
      /\ pc' = [pc EXCEPT ![r] = "idle"]
      /\ remote' = remote
  BY DEF ConfirmCommit
<1>3. PICK took \in SUBSET Lines(r), needsResolution \in BOOLEAN :
         /\ sold' = sold \cup took \cup Answered(r, "ok")
         /\ outbox' = Enqueue(ConfirmTasks(r, needsResolution))
         /\ order' = [order EXCEPT ![r] = OrderAfter(r, needsResolution)]
  BY DEF ConfirmCommit
<1>4. Owned' /\ OrderLast'
  BY <1>1, <1>2, <1>3 DEF Protocol, Owned, OrderLast, TypeOK
<1>5. SoldLast'
  <2>1. \A l \in sold' : l \in sold \/ Owner(l) = r
    BY <1>3 DEF Lines, Answered, OtherLines
  <2>2. \A l \in sold : Owner(l) \in Resv
    BY LineFacts DEF TypeOK
  <2>3. QED
    BY <1>2, <2>1, <2>2 DEF Protocol, SoldLast, TypeOK
<1>6. TaskMeans'
  <2> SUFFICES ASSUME NEW l \in Line
               PROVE  TaskFits(l)'
    BY DEF TaskMeans
  <2>1. TaskFits(l) /\ Owner(l) \in Resv
    BY LineFacts DEF Protocol, TaskMeans
  <2>2. ASSUME NEW w \in Why, <<w, l>> \notin ConfirmTasks(r, needsResolution)
        PROVE  outbox'[<<w, l>>] = outbox[<<w, l>>]
    BY <1>3, <2>2, OtherTasks
  <2>3. \A w \in {"release", "cancel", "expired"} :
           <<w, l>> \notin ConfirmTasks(r, needsResolution)
    BY DEF ConfirmTasks
  <2>4. CASE Owner(l) # r
    <3>1. \A w \in Why : <<w, l>> \notin ConfirmTasks(r, needsResolution)
      BY <2>4 DEF ConfirmTasks, Answered, OtherLines, Lines
    <3>2. QED
      BY <1>2, <1>3, <2>1, <2>2, <2>4, <3>1 DEF TaskFits, Why, TypeOK
  <2>5. CASE Owner(l) = r
    <3>1. \A w \in Why : outbox[<<w, l>>] = "NONE" \/ w = "reconcile"
      BY <1>1, <2>1, <2>5 DEF TaskFits, Why
    <3>2. \A w \in {"release", "cancel", "expired"} : outbox'[<<w, l>>] = "NONE"
      BY <2>2, <2>3, <3>1 DEF Why
    <3>3. order'[r] = OrderAfter(r, needsResolution)
      BY <1>3 DEF TypeOK
    <3>4. outbox'[<<"confirm", l>>] # "NONE"
             => order'[r] \in {"PENDING_FULFILMENT", "NEEDS_RESOLUTION"}
      <4>1. SUFFICES ASSUME outbox'[<<"confirm", l>>] # "NONE"
                     PROVE  Answered(r, "error") # {}
        BY <3>3 DEF OrderAfter
      <4>2. <<"confirm", l>> \in ConfirmTasks(r, needsResolution)
        BY <2>2, <3>1, <4>1 DEF Why
      <4>3. QED
        BY <4>2 DEF ConfirmTasks
    <3>5. outbox'[<<"compensate", l>>] # "NONE" => order'[r] = "NEEDS_RESOLUTION"
      <4>1. SUFFICES ASSUME outbox'[<<"compensate", l>>] # "NONE"
                     PROVE  needsResolution
        BY <3>3 DEF OrderAfter
      <4>2. <<"compensate", l>> \in ConfirmTasks(r, needsResolution)
        BY <2>2, <3>1, <4>1 DEF Why
      <4>3. QED
        BY <4>2 DEF ConfirmTasks
    <3>6. QED
      BY <2>5, <3>2, <3>4, <3>5 DEF TaskFits
  <2>6. QED
    BY <2>4, <2>5
<1>7. ConfirmedOnlyIfClaimed' /\ ReleasedOnlyIfGivenUp'
  BY <1>1, <1>2, <1>3, LineFacts
  DEF Protocol, ConfirmedOnlyIfClaimed, ReleasedOnlyIfGivenUp, TypeOK
<1>8. QED
  BY <1>4, <1>5, <1>6, <1>7 DEF Protocol

\* Cancel and the sweeper: a PENDING reservation has no order, no task that acts
\* on it and no line that was sold or confirmed.
LEMMA GiveUpProtocol ==
    ASSUME TypeOK, Protocol, NEW R \in SUBSET Resv, NEW status, NEW why,
           <<status, why>> \in {<<"CANCELLED", "cancel">>, <<"EXPIRED", "expired">>},
           \A r \in R : resv[r] = "PENDING", GiveUp(R, status, why)
    PROVE  Protocol'
<1>1. /\ resv' = [r \in Resv |-> IF r \in R THEN status ELSE resv[r]]
      /\ UNCHANGED <<order, sold, remote, pc>>
  BY DEF GiveUp
<1>2. PICK owed \in SUBSET Line :
         outbox' = Enqueue({why} \X owed) /\ \A l \in owed : Owner(l) \in R
  <2> DEFINE held == UNION {HeldLines(r) : r \in R}
             owes == held \ {l \in held : Local(l)}
  <2>1. outbox' = Enqueue({why} \X owes)
    BY DEF GiveUp
  <2>2. owes \in SUBSET Line /\ \A l \in owes : Owner(l) \in R
    BY DEF HeldLines, Lines
  <2>3. QED
    BY <2>1, <2>2
<1>3. Owned' /\ OrderLast' /\ SoldLast'
  BY <1>1, LineFacts DEF Protocol, Owned, OrderLast, SoldLast, TypeOK
<1>4. ASSUME NEW l \in Line, NEW w \in Why, w # why \/ Owner(l) \notin R
      PROVE  outbox'[<<w, l>>] = outbox[<<w, l>>]
  <2>1. <<w, l>> \notin {why} \X owed
    BY <1>2, <1>4
  <2>2. QED
    BY <1>2, <2>1, OtherTasks
<1>5. TaskMeans'
  <2> SUFFICES ASSUME NEW l \in Line
               PROVE  TaskFits(l)'
    BY DEF TaskMeans
  <2>1. TaskFits(l) /\ Owner(l) \in Resv
    BY LineFacts DEF Protocol, TaskMeans
  <2>2. CASE Owner(l) \in R
    <3>1. \A w \in Why : outbox[<<w, l>>] = "NONE" \/ w = "reconcile"
      BY <2>1, <2>2 DEF TaskFits, Why, Protocol, OrderLast
    <3>2. \A w \in Why \ {"reconcile", why} : outbox'[<<w, l>>] = "NONE"
      BY <1>4, <3>1
    <3>3. resv'[Owner(l)] = status
      BY <1>1, <2>1, <2>2
    <3>4. QED
      BY <3>2, <3>3 DEF TaskFits, Why
  <2>3. CASE Owner(l) \notin R
    BY <1>1, <1>4, <2>1, <2>3 DEF TaskFits, Why
  <2>4. QED
    BY <2>2, <2>3
<1>6. ConfirmedOnlyIfClaimed' /\ ReleasedOnlyIfGivenUp'
  BY <1>1, LineFacts DEF Protocol, ConfirmedOnlyIfClaimed, ReleasedOnlyIfGivenUp, TypeOK
<1>7. QED
  BY <1>3, <1>5, <1>6 DEF Protocol

\* What the worker's call may do to the holds, given why the task exists.
LEMMA DrainRemote ==
    ASSUME TypeOK, Protocol, NEW t \in Task, outbox[t] # "NONE",
           NEW o \in WorkerOutcomes(t), remote' = [remote EXCEPT ![Slot(t[2])] = o[2]],
           UNCHANGED resv,
           \A r \in Resv : order[r] = "NEEDS_RESOLUTION" => order'[r] = "NEEDS_RESOLUTION"
    PROVE  ConfirmedOnlyIfClaimed' /\ ReleasedOnlyIfGivenUp'
<1> DEFINE k == t[2]
<1>1. k \in Line /\ t[1] \in Why /\ t = <<t[1], k>>
  BY DEF Task
<1>2. Owner(k) \in Resv /\ Slot(k) \in Slots /\ remote[Slot(k)] \in Remote
  BY <1>1, LineFacts DEF TypeOK
<1>3. TaskFits(k)
  BY <1>1 DEF Protocol, TaskMeans
<1>4. t[1] = "confirm" => resv[Owner(k)] = "CONFIRMED"
  BY <1>1, <1>2, <1>3 DEF TaskFits, Protocol, OrderLast
<1>5. t[1] \in {"release", "cancel", "expired", "compensate"}
         => \/ resv[Owner(k)] \in {"FAILED", "CANCELLED", "EXPIRED"}
            \/ order[Owner(k)] = "NEEDS_RESOLUTION"
  BY <1>1, <1>3 DEF TaskFits
<1>6. ASSUME NEW m \in Line
      PROVE  \/ remote'[Slot(m)] = remote[Slot(m)]
             \/ /\ Owner(m) = Owner(k) /\ remote'[Slot(m)] = o[2]
                /\ remote[Slot(m)] = remote[Slot(k)]
  <2>1. Slot(m) \in Slots /\ (Slot(m) = Slot(k) => Owner(m) = Owner(k))
    BY LineFacts DEF Slot
  <2>2. QED
    BY <1>2, <2>1 DEF TypeOK
<1>7. /\ o[2] = "confirmed" => remote[Slot(k)] = "confirmed" \/ t[1] = "confirm"
      /\ o[2] = "released"
            => \/ remote[Slot(k)] = "released"
               \/ t[1] \in {"release", "cancel", "expired", "compensate"}
  BY <1>2, WorkerEffect
<1>8. ConfirmedOnlyIfClaimed'
  BY <1>4, <1>6, <1>7 DEF Protocol, ConfirmedOnlyIfClaimed
<1>9. ReleasedOnlyIfGivenUp'
  <2> SUFFICES ASSUME NEW m \in Line, remote'[Slot(m)] = "released"
               PROVE  \/ resv'[Owner(m)] \in {"FAILED", "CANCELLED", "EXPIRED"}
                      \/ order'[Owner(m)] = "NEEDS_RESOLUTION"
    BY DEF ReleasedOnlyIfGivenUp
  <2>1. \/ resv[Owner(m)] \in {"FAILED", "CANCELLED", "EXPIRED"}
        \/ order[Owner(m)] = "NEEDS_RESOLUTION"
    BY <1>5, <1>6, <1>7 DEF Protocol, ReleasedOnlyIfGivenUp
  <2>2. Owner(m) \in Resv
    BY LineFacts
  <2>3. QED
    BY <2>1, <2>2
<1>10. QED
  BY <1>8, <1>9

LEMMA DrainDoneProtocol ==
    ASSUME TypeOK, Protocol, NEW t \in Task, DrainDone(t)
    PROVE  Protocol'
<1> DEFINE k == t[2]
<1>1. k \in Line /\ t = <<t[1], k>> /\ Owner(k) \in Resv
  BY LineFacts DEF Task
<1>2. PICK o \in WorkerOutcomes(t) :
         /\ remote' = [remote EXCEPT ![Slot(k)] = o[2]]
         /\ order' = IF o[1] = "rejected"
                       THEN [order EXCEPT ![Owner(k)] = "NEEDS_RESOLUTION"] ELSE order
  BY DEF DrainDone
<1>3. UNCHANGED <<resv, sold, pc>> /\ outbox[t] # "NONE"
  BY DEF DrainDone
<1>4. order' = order
      \/ /\ order[Owner(k)] \in {"PENDING_FULFILMENT", "NEEDS_RESOLUTION"}
         /\ order' = [order EXCEPT ![Owner(k)] = "NEEDS_RESOLUTION"]
  <2>1. o[1] = "rejected" => t[1] = "confirm"
    BY <1>1, WorkerEffect, LineFacts DEF TypeOK
  <2>2. TaskFits(k)
    BY <1>1 DEF Protocol, TaskMeans
  <2>3. QED
    BY <1>1, <1>2, <1>3, <2>1, <2>2 DEF TaskFits
<1>5. Owned' /\ OrderLast' /\ SoldLast'
  BY <1>3, <1>4 DEF Protocol, Owned, OrderLast, SoldLast, TypeOK
<1>6. TaskMeans'
  <2>1. \A u \in Task : outbox'[u] # "NONE" => outbox[u] # "NONE"
    BY <1>3 DEF DrainDone, TypeOK
  <2>2. \A r \in Resv : \/ order'[r] = order[r]
                        \/ /\ order[r] \in {"PENDING_FULFILMENT", "NEEDS_RESOLUTION"}
                           /\ order'[r] = "NEEDS_RESOLUTION"
    BY <1>4 DEF TypeOK
  <2> SUFFICES ASSUME NEW l \in Line
               PROVE  TaskFits(l)'
    BY DEF TaskMeans
  <2>3. TaskFits(l) /\ Owner(l) \in Resv /\ \A w \in Why : <<w, l>> \in Task
    BY LineFacts DEF Protocol, TaskMeans, Task
  <2>4. QED
    BY <1>3, <2>1, <2>2, <2>3 DEF TaskFits, Why
<1>7. ConfirmedOnlyIfClaimed' /\ ReleasedOnlyIfGivenUp'
  BY <1>2, <1>3, <1>4, DrainRemote DEF TypeOK
<1>8. QED
  BY <1>5, <1>6, <1>7 DEF Protocol

LEMMA DrainFailProtocol ==
    ASSUME TypeOK, Protocol, NEW t \in Task, DrainFail(t)
    PROVE  Protocol'
<1>1. Owned' /\ OrderLast' /\ SoldLast' /\ TaskMeans'
  BY DEF DrainFail, Protocol, Owned, OrderLast, SoldLast, TaskMeans, TaskFits
<1>2. PICK o \in WorkerOutcomes(t) : remote' = [remote EXCEPT ![Slot(t[2])] = o[2]]
  BY DEF DrainFail
<1>3. ConfirmedOnlyIfClaimed' /\ ReleasedOnlyIfGivenUp'
  BY <1>2, DrainRemote DEF DrainFail
<1>4. QED
  BY <1>1, <1>3 DEF Protocol

LEMMA ReopenProtocol ==
    ASSUME TypeOK, Protocol, NEW t \in Task, Reopen(t)
    PROVE  Protocol'
<1>1. \A l \in Line, w \in Why : outbox'[<<w, l>>] # "NONE" => outbox[<<w, l>>] # "NONE"
  BY DEF Reopen, TypeOK, Task
<1>2. TaskMeans'
  BY <1>1 DEF Reopen, Protocol, TaskMeans, TaskFits, Why
<1>3. Owned' /\ OrderLast' /\ SoldLast'
  BY DEF Reopen, Protocol, Owned, OrderLast, SoldLast
<1>4. ConfirmedOnlyIfClaimed' /\ ReleasedOnlyIfGivenUp'
  BY DEF Reopen, Protocol, ConfirmedOnlyIfClaimed, ReleasedOnlyIfGivenUp
<1>5. QED
  BY <1>2, <1>3, <1>4 DEF Protocol

LEMMA LateArrivalProtocol ==
    ASSUME TypeOK, Protocol, NEW l \in Line, LateArrival(l)
    PROVE  Protocol'
<1>1. Owned' /\ OrderLast' /\ SoldLast' /\ TaskMeans'
  BY DEF LateArrival, Protocol, Owned, OrderLast, SoldLast, TaskMeans, TaskFits
<1>2. \A m \in Line : remote'[Slot(m)] = remote[Slot(m)] \/ remote'[Slot(m)] = "held"
  BY LineFacts DEF LateArrival, TypeOK
<1>3. ConfirmedOnlyIfClaimed' /\ ReleasedOnlyIfGivenUp'
  BY <1>2 DEF LateArrival, Protocol, ConfirmedOnlyIfClaimed, ReleasedOnlyIfGivenUp
<1>4. QED
  BY <1>1, <1>3 DEF Protocol

\* One step of the service.
LEMMA ProtocolNext ==
    ASSUME TypeOK, Protocol, [Next]_vars
    PROVE  Protocol'
<1>1. ASSUME NEW r \in Resv, Client(r)
      PROVE  Protocol'
  <2>1. CASE Lookup(r)
    BY <2>1, QuietProtocol DEF Lookup, TypeOK
  <2>2. CASE ConfirmClaim(r)
    BY <2>2, ConfirmClaimProtocol
  <2>3. CASE ConfirmRefuse(r)
    BY <2>3, QuietProtocol DEF ConfirmRefuse
  <2>4. CASE Cancel(r)
    BY <2>4, GiveUpProtocol DEF Cancel
  <2>5. QED
    BY <1>1, <2>1, <2>2, <2>3, <2>4 DEF Client
<1>2. ASSUME NEW r \in Resv, Create(r)
      PROVE  Protocol'
  <2>1. CASE Tx1Rollback(r) \/ FinalizeAbort(r)
    BY <2>1, QuietProtocol DEF Tx1Rollback, FinalizeAbort, TypeOK
  <2>2. ASSUME NEW l \in Lines(r), CallReserve(l) \/ SaveItem(l)
        PROVE  Protocol'
    BY <2>2, CallReserveProtocol, SaveItemProtocol DEF Lines
  <2>3. QED
    BY <1>2, <2>1, <2>2, Tx1CommitProtocol, FinalizeOkProtocol, FinalizeFailProtocol
    DEF Create
<1>3. ASSUME NEW r \in Resv, Confirm(r)
      PROVE  Protocol'
  <2>1. CASE ConfirmAbort(r)
    BY <2>1, QuietProtocol DEF ConfirmAbort, TypeOK
  <2>2. ASSUME NEW l \in Lines(r), CallConfirm(l)
        PROVE  Protocol'
    BY <2>2, CallConfirmProtocol DEF Lines
  <2>3. QED
    BY <1>3, <2>1, <2>2, ConfirmCommitProtocol DEF Confirm
<1>4. ASSUME NEW r \in Resv, Elapse(r) \/ Crash(r)
      PROVE  Protocol'
  BY <1>4, QuietProtocol DEF Elapse, Crash, TypeOK
<1>5. CASE Sweep
  <2>1. Due \in SUBSET Resv /\ \A r \in Due : resv[r] = "PENDING"
    BY DEF Due, TypeOK
  <2>2. QED
    BY <1>5, <2>1, GiveUpProtocol DEF Sweep
<1>6. ASSUME NEW t \in Task, Worker(t)
      PROVE  Protocol'
  BY <1>6, DrainDoneProtocol, DrainFailProtocol, ReopenProtocol DEF Worker
<1>7. CASE UNCHANGED vars
  BY <1>7, QuietProtocol DEF vars
<1>8. QED
  BY <1>1, <1>2, <1>3, <1>4, <1>5, <1>6, <1>7, LateArrivalProtocol DEF Next, Serve

\* The types come from the proof of StockAlwaysBounded.
THEOREM ProtocolAlways == Spec => []Protocol
<1>1. TypeOK /\ Protocol /\ [Next]_vars => Protocol'
  BY ProtocolNext
<1>2. QED
  BY ProtocolInit, <1>1, TypeCorrect, PTL DEF Spec

\* However calls fail, repeat and arrive late, a provider has confirmed a hold
\* only for the reservation that won the compare-and-swap.
THEOREM OnlyTheClaimedAreConfirmed == Spec => []ConfirmedOnlyIfClaimed
<1>1. Protocol => ConfirmedOnlyIfClaimed
  BY DEF Protocol
<1>2. QED
  BY <1>1, ProtocolAlways, PTL

\* And none is released under a reservation that may still be confirmed, or under
\* an order that is good.
THEOREM OnlyTheGivenUpAreReleased == Spec => []ReleasedOnlyIfGivenUp
<1>1. Protocol => ReleasedOnlyIfGivenUp
  BY DEF Protocol
<1>2. QED
  BY <1>1, ProtocolAlways, PTL
=============================================================================
