---------------------- MODULE ReservationWorkersProofs ----------------------
(***************************************************************************)
(* The workers that claim, call and commit in separate steps implement the *)
(* service that calls and commits at once, for every set of carts and any  *)
(* number of workers.                                                      *)
(***************************************************************************)
EXTENDS ReservationWorkers, ReservationOutcomeProofs

-----------------------------------------------------------------------------
(* Which tasks act, and when.                                              *)

Undoing == {"release", "cancel", "expired", "compensate"}

\* A task that does anything belongs to a reservation that no handler works on.
LEMMA TaskIsLast ==
    ASSUME Protocol, NEW t \in Task, outbox[t] # "NONE", t[1] # "reconcile"
    PROVE  resv[Owner(t[2])] \notin {"INITIALIZING", "CONFIRMING"}
<1>1. t[2] \in Line /\ t = <<t[1], t[2]>> /\ t[1] \in Why /\ Owner(t[2]) \in Resv
  BY LineFacts DEF Task
<1>2. TaskFits(t[2])
  BY <1>1 DEF Protocol, TaskMeans
<1>3. order[Owner(t[2])] # "NONE" => resv[Owner(t[2])] = "CONFIRMED"
  BY <1>1 DEF Protocol, OrderLast
<1>4. QED
  BY <1>1, <1>2, <1>3 DEF TaskFits, Why

-----------------------------------------------------------------------------
(* A hold that is to be undone was asked for at its provider.  (Otherwise  *)
(* a call that found nothing to release could be followed by a reserve     *)
(* request that arrives late.)                                             *)

Sought ==
    \A l \in Line, w \in Undoing : outbox[<<w, l>>] # "NONE" => remote[Slot(l)] # "none"

LEMMA SoughtInit == Init => Sought
<1>1. \A l \in Line, w \in Undoing : <<w, l>> \in Task
  BY DEF Undoing, Task, Why
<1>2. QED
  BY <1>1 DEF Init, Sought

\* The tasks that undo something are made for lines their provider was asked for.
LEMMA SoughtTasks ==
    ASSUME TypeOK, Protocol, Outcome, Serve, NEW l \in Line, NEW w \in Undoing,
           outbox[<<w, l>>] = "NONE", outbox'[<<w, l>>] # "NONE"
    PROVE  remote[Slot(l)] # "none"
<1>1. ASSUME NEW T, outbox' = Enqueue(T)
      PROVE  <<w, l>> \in T
  BY <1>1, OtherTasks DEF Undoing, Why
<1>2. outbox' # outbox
  OBVIOUS
<1>3. ASSUME NEW L, NEW why, outbox' = Enqueue({why} \X L),
             \A m \in L : hold[m] = "HELD" /\ ~Local(m)
      PROVE  remote[Slot(l)] # "none"
  <2>1. l \in L
    BY <1>1, <1>3
  <2>2. QED
    BY <1>3, <2>1 DEF Outcome, Fate, Known, Asked
<1>4. ASSUME NEW R, NEW status, NEW why, GiveUp(R, status, why)
      PROVE  remote[Slot(l)] # "none"
  <2> DEFINE held == UNION {HeldLines(r) : r \in R}
             owed == held \ {m \in held : Local(m)}
  <2>1. outbox' = Enqueue({why} \X owed)
    BY <1>4 DEF GiveUp
  <2>2. \A m \in owed : hold[m] = "HELD" /\ ~Local(m)
    BY DEF HeldLines
  <2>3. QED
    BY <1>3, <2>1, <2>2
<1>5. ASSUME NEW r \in Resv, FinalizeFail(r)
      PROVE  remote[Slot(l)] # "none"
  <2> DEFINE owed == HeldLines(r) \ {m \in HeldLines(r) : Local(m)}
  <2>1. outbox' = Enqueue({"release"} \X owed)
    BY <1>5 DEF FinalizeFail
  <2>2. \A m \in owed : hold[m] = "HELD" /\ ~Local(m)
    BY DEF HeldLines
  <2>3. QED
    BY <1>3, <2>1, <2>2
<1>6. ASSUME NEW r \in Resv, ConfirmCommit(r)
      PROVE  remote[Slot(l)] # "none"
  <2>1. PICK needsResolution \in BOOLEAN : outbox' = Enqueue(ConfirmTasks(r, needsResolution))
    BY <1>6 DEF ConfirmCommit
  <2>2. l \in Answered(r, "ok")
    BY <1>1, <2>1 DEF ConfirmTasks, Undoing
  <2>3. ans[l] = "ok" /\ Owner(l) = r /\ pc[r] = "confirm"
    BY <1>6, <2>2 DEF Answered, OtherLines, Lines, ConfirmCommit
  <2>4. remote[Slot(l)] = "confirmed"
    BY <2>3 DEF Outcome, Fate, Known, Remembered
  <2>5. QED
    BY <2>4
<1>7. ASSUME NEW r \in Resv, Create(r)
      PROVE  remote[Slot(l)] # "none"
  <2>1. ASSUME NEW k \in Lines(r), SaveItem(k)
        PROVE  FALSE
    <3>1. outbox' = Enqueue({<<"reconcile", k>>})
      BY <1>2, <2>1 DEF SaveItem
    <3>2. QED
      BY <1>1, <3>1 DEF Undoing
  <2>2. \A k \in Lines(r) : ~CallReserve(k)
    BY <1>2 DEF CallReserve
  <2>3. QED
    BY <1>2, <1>5, <1>7, <2>1, <2>2
    DEF Create, Tx1Commit, Tx1Rollback, FinalizeOk, FinalizeAbort
<1>8. ASSUME NEW r \in Resv, Client(r)
      PROVE  remote[Slot(l)] # "none"
  BY <1>2, <1>4, <1>8 DEF Client, Lookup, ConfirmClaim, ConfirmRefuse, Cancel
<1>9. ASSUME NEW r \in Resv, Confirm(r)
      PROVE  remote[Slot(l)] # "none"
  BY <1>2, <1>6, <1>9 DEF Confirm, CallConfirm, ConfirmAbort
<1>10. Sweep => remote[Slot(l)] # "none"
  BY <1>4 DEF Sweep
<1>11. ASSUME NEW r \in Resv
       PROVE  ~Elapse(r) /\ ~Crash(r)
  BY <1>2 DEF Elapse, Crash
<1>12. \A k \in Line : ~LateArrival(k)
  BY <1>2 DEF LateArrival
<1>13. QED
  BY <1>7, <1>8, <1>9, <1>10, <1>11, <1>12 DEF Serve

LEMMA SoughtNext ==
    ASSUME TypeOK, Protocol, Outcome, Sought, [Next]_vars
    PROVE  Sought'
<1> SUFFICES ASSUME NEW l \in Line, NEW w \in Undoing, outbox'[<<w, l>>] # "NONE"
             PROVE  remote'[Slot(l)] # "none"
  BY DEF Sought
<1>1. CASE Serve
  <2>1. remote[Slot(l)] # "none"
    BY <1>1, SoughtTasks DEF Sought
  <2>2. QED
    BY <1>1, <2>1, ServeHold
<1>2. ASSUME NEW t \in Task, Worker(t)
      PROVE  remote'[Slot(l)] # "none"
  <2>1. <<w, l>> \in Task
    BY DEF Undoing, Task, Why
  <2>2. outbox[<<w, l>>] # "NONE"
    BY <1>2, <2>1 DEF Worker, DrainDone, DrainFail, Reopen, TypeOK
  <2>3. remote[Slot(l)] # "none"
    BY <2>2 DEF Sought
  <2>4. \/ remote' = remote
        \/ /\ outbox[t] # "NONE"
           /\ \E o \in WorkerOutcomes(t) : remote' = [remote EXCEPT ![Slot(t[2])] = o[2]]
    BY <1>2 DEF Worker, DrainDone, DrainFail, Reopen
  <2>5. QED
    BY <2>3, <2>4, WorkerCall
<1>3. CASE UNCHANGED vars
  BY <1>3 DEF vars, Sought
<1>4. QED
  BY <1>1, <1>2, <1>3 DEF Next

-----------------------------------------------------------------------------
(* Answers.                                                                *)

\* What a worker's call can answer, and where it leaves the hold.
LEMMA FreshAnswer ==
    ASSUME TypeOK, NEW t \in Task, NEW o \in WorkerOutcomes(t),
           t[1] \in Undoing => remote[Slot(t[2])] # "none"
    PROVE  /\ o[1] \in {"ok", "rejected", "error"}
           /\ o[1] = "rejected" => t[1] = "confirm"
           /\ o[1] # "error" => o[2] \in Leaves(t, o[1])
<1> DEFINE v == remote[Slot(t[2])]
<1>1. t[1] \in Why /\ v \in Remote
  BY LineFacts DEF Task, TypeOK
<1>2. CASE t[1] = "reconcile"
  BY <1>1, <1>2 DEF WorkerOutcomes, TaskType, Leaves
<1>3. CASE t[1] = "confirm"
  <2>1. o \in ConfirmOutcomes(v) /\ TaskType(t) = "CONFIRM"
    BY <1>3 DEF WorkerOutcomes, TaskType
  <2>2. QED
    BY <1>1, <1>3, <2>1, ConfirmAnswers DEF Leaves, Over
<1>4. CASE t[1] \in Undoing
  <2>1. \/ TaskType(t) = "RELEASE" /\ o \in ReleaseOutcomes(v)
        \/ TaskType(t) = "UNCONFIRM" /\ o \in UnconfirmOutcomes(v)
    BY <1>4 DEF WorkerOutcomes, TaskType, Undoing
  <2>2. ASSUME TaskType(t) = "RELEASE", o \in ReleaseOutcomes(v)
        PROVE  o[1] \in {"ok", "error"} /\ (o[1] = "ok" => o[2] \in Leaves(t, "ok"))
    BY <1>1, <1>4, <2>2 DEF ReleaseOutcomes, Remote, Leaves, Kept
  <2>3. ASSUME TaskType(t) = "UNCONFIRM", o \in UnconfirmOutcomes(v)
        PROVE  o[1] \in {"ok", "error"} /\ (o[1] = "ok" => o[2] \in Leaves(t, "ok"))
    BY <1>1, <1>4, <2>3 DEF UnconfirmOutcomes, Remote, Leaves, Kept
  <2>4. QED
    BY <2>1, <2>2, <2>3
<1>5. QED
  BY <1>1, <1>2, <1>3, <1>4 DEF Why, Undoing

\* Once a hold is confirmed it can only be undone, one that is over stays so,
\* and one that was refused can only be given back.
LEMMA HoldsMoveOn ==
    ASSUME TypeOK, NEW t \in Task, NEW o \in WorkerOutcomes(t),
           remote' = [remote EXCEPT ![Slot(t[2])] = o[2]], NEW l \in Line
    PROVE  /\ remote[Slot(l)] \in Over => remote'[Slot(l)] = remote[Slot(l)]
           /\ remote[Slot(l)] = "refused" => remote'[Slot(l)] \in {"refused", "released"}
           /\ remote[Slot(l)] = "confirmed" => remote'[Slot(l)] \in {"confirmed", "released"}
<1> DEFINE v == remote[Slot(t[2])]
<1>1. t[1] \in Why /\ v \in Remote /\ Slot(t[2]) \in Slots /\ Slot(l) \in Slots
  BY LineFacts DEF Task, TypeOK
<1>2. (v \in Over => o[2] = v) /\ (v = "refused" => o[2] \in {"refused", "released"})
  BY <1>1, WorkerAnswers
<1>3. v = "confirmed" => o[2] \in {"confirmed", "released"}
  <2>1. o \in ConfirmOutcomes(v) => (v = "confirmed" => o[2] = "confirmed")
    BY <1>1, ConfirmAnswers
  <2>2. o \in ReleaseOutcomes(v) => (v = "confirmed" => o[2] = "confirmed")
    BY DEF ReleaseOutcomes, Kept
  <2>3. o \in UnconfirmOutcomes(v) => (v = "confirmed" => o[2] \in {"confirmed", "released"})
    BY DEF UnconfirmOutcomes, Kept
  <2>4. QED
    BY <2>1, <2>2, <2>3 DEF WorkerOutcomes
<1>4. QED
  BY <1>1, <1>2, <1>3 DEF TypeOK

\* So what an answer says of a hold is kept by every other worker's call ...
LEMMA CallKeepsAnswer ==
    ASSUME TypeOK, NEW t \in Task, NEW o \in WorkerOutcomes(t),
           remote' = [remote EXCEPT ![Slot(t[2])] = o[2]],
           NEW u \in Task, NEW a, remote[Slot(u[2])] \in Leaves(u, a), remote' \in [Slots -> Remote]
    PROVE  remote'[Slot(u[2])] \in Leaves(u, a)
<1>1. u[2] \in Line /\ Slot(u[2]) \in Slots
  BY LineFacts DEF Task
<1>2. /\ remote[Slot(u[2])] \in Over => remote'[Slot(u[2])] = remote[Slot(u[2])]
      /\ remote[Slot(u[2])] = "refused" => remote'[Slot(u[2])] \in {"refused", "released"}
      /\ remote[Slot(u[2])] = "confirmed" => remote'[Slot(u[2])] \in {"confirmed", "released"}
      /\ remote'[Slot(u[2])] \in Remote
  BY <1>1, HoldsMoveOn
<1>3. QED
  BY <1>2 DEF Leaves, Over

\* ... and by everything else the service does.
LEMMA ServeKeepsAnswer ==
    ASSUME TypeOK, Protocol, Serve, NEW u \in Task, outbox[u] # "NONE",
           NEW a \in {"ok", "rejected"}, a = "rejected" => u[1] = "confirm",
           remote[Slot(u[2])] \in Leaves(u, a), remote' \in [Slots -> Remote]
    PROVE  remote'[Slot(u[2])] \in Leaves(u, a)
<1>1. u[2] \in Line /\ Slot(u[2]) \in Slots /\ u[1] \in Why
  BY LineFacts DEF Task
<1>2. CASE u[1] = "reconcile"
  BY <1>1, <1>2 DEF Leaves, TaskType
<1>3. CASE u[1] # "reconcile"
  <2>1. TaskType(u) \in {"CONFIRM", "RELEASE", "UNCONFIRM"}
        /\ (a = "rejected" => TaskType(u) = "CONFIRM")
    BY <1>1, <1>3 DEF TaskType, Why
  <2>2. remote[Slot(u[2])] # "none"
    BY <2>1 DEF Leaves
  <2>3. remote'[Slot(u[2])] = remote[Slot(u[2])]
    BY <1>1, <1>3, <2>2, ServeHold, TaskIsLast
  <2>4. QED
    BY <2>3
<1>4. QED
  BY <1>2, <1>3

-----------------------------------------------------------------------------
(* The invariant of the workers.                                           *)

\* Only a confirm is ever rejected, and no call of a worker ends in doubt.
AnswersKnown ==
    \A w \in Pool : \A h \in hand[w] :
        h[2] \in {"none", "ok", "rejected", "error"} /\ (h[2] = "rejected" => h[1][1] = "confirm")

WorkersInv ==
    /\ TypedStock /\ Protocol /\ Outcome /\ Sought
    /\ HandsOK /\ AnswersKnown /\ AnswersStand

LEMMA WorkersInvInit == WorkersInit => WorkersInv
<1> SUFFICES ASSUME WorkersInit PROVE WorkersInv
  OBVIOUS
<1>1. TypedStock /\ Protocol /\ Outcome /\ Sought
  BY TypedStockInit, ProtocolInit, OutcomeInit, SoughtInit DEF WorkersInit
<1>2. HandsOK /\ AnswersKnown /\ AnswersStand
  BY DEF WorkersInit, HandsOK, AnswersKnown, AnswersStand
<1>3. QED
  BY <1>1, <1>2 DEF WorkersInv

\* A task in a worker's hands.
LEMMA InHand ==
    ASSUME WorkersInv, NEW w \in Pool, NEW t \in Task, NEW a, hand[w] = {<<t, a>>}
    PROVE  /\ outbox[t] # "NONE" /\ outbox[t] \in {"PENDING", "DONE"}
           /\ a \in {"none", "ok", "rejected", "error"}
           /\ a = "rejected" => t[1] = "confirm"
           /\ a \in {"ok", "rejected"} => remote[Slot(t[2])] \in Leaves(t, a)
<1>1. outbox[t] \in {"NONE", "PENDING", "DONE"}
  BY DEF WorkersInv, TypedStock, TypeOK
<1>2. <<t, a>> \in hand[w]
  OBVIOUS
<1>3. QED
  BY <1>1, <1>2 DEF WorkersInv, AnswersKnown, AnswersStand

-----------------------------------------------------------------------------
(* Every step of a worker is one of the service, or none.                  *)

\* A confirm that went through and was undone before its answer is committed reads
\* like one that was rejected: the order is in resolution already.
LEMMA CommitIsDone ==
    ASSUME WorkersInv, NEW w \in Pool, NEW t \in Task, CommitAnswer(w, t), outbox[t] = "PENDING"
    PROVE  DrainDone(t)
<1> DEFINE v == remote[Slot(t[2])]
<1>1. PICK a \in Answer \ {"error"} : hand[w] = {<<t, a>>} /\ order' = OrderOnce(t, a)
  BY DEF CommitAnswer
<1>2. a \in {"ok", "rejected"} /\ (a = "rejected" => t[1] = "confirm") /\ v \in Leaves(t, a)
  BY <1>1, InHand DEF Answer
<1>3. /\ outbox' = [outbox EXCEPT ![t] = "DONE"]
      /\ UNCHANGED <<resv, hold, inv, sold, remote, covers, pc, ans, late, paidLate>>
  BY DEF CommitAnswer
<1>4. t[2] \in Line /\ t = <<t[1], t[2]>> /\ t[1] \in Why
      /\ Owner(t[2]) \in Resv /\ Slot(t[2]) \in Slots
  BY LineFacts DEF Task
<1>5. remote' = [remote EXCEPT ![Slot(t[2])] = v]
  BY <1>3, <1>4 DEF WorkersInv, TypedStock, TypeOK
<1>6. SUFFICES \E b \in {"ok", "rejected"} :
                  /\ <<b, v>> \in WorkerOutcomes(t)
                  /\ order' = IF b = "rejected"
                                THEN [order EXCEPT ![Owner(t[2])] = "NEEDS_RESOLUTION"]
                                ELSE order
  BY <1>3, <1>5 DEF DrainDone
<1>7. CASE t[1] = "confirm" /\ a = "ok" /\ v = "released"
  <2>1. resv[Owner(t[2])] = "CONFIRMED"
    <3>1. order[Owner(t[2])] # "NONE"
      BY <1>4, <1>7 DEF WorkersInv, Protocol, TaskMeans, TaskFits
    <3>2. QED
      BY <1>4, <3>1 DEF WorkersInv, Protocol, OrderLast
  <2>2. order[Owner(t[2])] = "NEEDS_RESOLUTION"
    BY <1>4, <1>7, <2>1 DEF WorkersInv, Protocol, ReleasedOnlyIfGivenUp
  <2>3. order' = [order EXCEPT ![Owner(t[2])] = "NEEDS_RESOLUTION"]
    BY <1>1, <1>4, <1>7, <2>2 DEF OrderOnce, WorkersInv, TypedStock, TypeOK
  <2>4. <<"rejected", v>> \in WorkerOutcomes(t)
    BY <1>7 DEF WorkerOutcomes, TaskType, ConfirmOutcomes
  <2>5. QED
    BY <2>3, <2>4
<1>8. CASE ~(t[1] = "confirm" /\ a = "ok" /\ v = "released")
  <2>1. <<a, v>> \in WorkerOutcomes(t)
    <3>1. CASE t[1] = "confirm"
      <4>1. TaskType(t) = "CONFIRM"
        BY <3>1 DEF TaskType
      <4>2. \/ a = "ok" /\ v = "confirmed"
            \/ a = "rejected" /\ v \in {"refused", "lapsed", "released"}
        BY <1>2, <1>8, <3>1, <4>1 DEF Leaves
      <4>3. QED
        BY <4>1, <4>2 DEF WorkerOutcomes, ConfirmOutcomes
    <3>2. CASE t[1] = "reconcile"
      BY <1>2, <3>2 DEF WorkerOutcomes, TaskType
    <3>3. CASE t[1] \in Undoing
      <4>1. a = "ok" /\ TaskType(t) \in {"RELEASE", "UNCONFIRM"}
        BY <1>2, <3>3 DEF TaskType, Undoing
      <4>2. CASE TaskType(t) = "RELEASE"
        BY <1>2, <4>1, <4>2 DEF WorkerOutcomes, ReleaseOutcomes, Leaves, Kept
      <4>3. CASE TaskType(t) = "UNCONFIRM"
        BY <1>2, <4>1, <4>3 DEF WorkerOutcomes, UnconfirmOutcomes, Leaves, Kept
      <4>4. QED
        BY <4>1, <4>2, <4>3
    <3>4. QED
      BY <1>4, <3>1, <3>2, <3>3 DEF Why, Undoing
  <2>2. QED
    BY <1>1, <1>2, <2>1 DEF OrderOnce
<1>9. QED
  BY <1>7, <1>8

\* The answer of a worker that comes second changes nothing: a task that is DONE
\* has confirmed its hold, or has already turned the order.
LEMMA CommitAfterDone ==
    ASSUME WorkersInv, NEW w \in Pool, NEW t \in Task, CommitAnswer(w, t), outbox[t] = "DONE"
    PROVE  UNCHANGED vars
<1>1. PICK a \in Answer \ {"error"} : hand[w] = {<<t, a>>} /\ order' = OrderOnce(t, a)
  BY DEF CommitAnswer
<1>2. t[2] \in Line /\ t = <<t[1], t[2]>> /\ Owner(t[2]) \in Resv
  BY LineFacts DEF Task
<1>3. order' = order
  <2>1. SUFFICES ASSUME a = "rejected"
                 PROVE  order[Owner(t[2])] = "NEEDS_RESOLUTION"
    BY <1>1, <1>2 DEF OrderOnce, WorkersInv, TypedStock, TypeOK
  <2>2. t = <<"confirm", t[2]>> /\ remote[Slot(t[2])] \in {"refused", "lapsed", "released"}
    <3>1. t[1] = "confirm" /\ remote[Slot(t[2])] \in Leaves(t, "rejected")
      BY <1>1, <2>1, InHand
    <3>2. QED
      BY <1>2, <3>1 DEF Leaves, TaskType
  <2>3. ~Internal(t[2])
    BY <1>2, <2>2 DEF WorkersInv, Outcome, Fate, Known, Asked, Local, Internal
  <2>4. order[Owner(t[2])] \in {"PENDING_FULFILMENT", "NEEDS_RESOLUTION"}
    BY <1>2, <2>2 DEF WorkersInv, Protocol, TaskMeans, TaskFits
  <2>5. order[Owner(t[2])] # "PENDING_FULFILMENT"
    BY <1>2, <2>2, <2>3 DEF WorkersInv, Outcome, Fate, Driven
  <2>6. QED
    BY <2>4, <2>5
<1>4. outbox' = outbox
  BY DEF CommitAnswer, WorkersInv, TypedStock, TypeOK
<1>5. QED
  BY <1>3, <1>4 DEF CommitAnswer, vars

LEMMA WorkersStep ==
    ASSUME WorkersInv, [WorkersNext]_workerVars
    PROVE  [Next]_vars
<1>1. ASSUME NEW w \in Pool, NEW t \in Task, CallProvider(w, t)
      PROVE  DrainFail(t)
  <2>1. outbox[t] # "NONE"
    BY <1>1, InHand DEF CallProvider
  <2>2. QED
    BY <1>1, <2>1 DEF CallProvider, DrainFail
<1>2. ASSUME NEW w \in Pool, NEW t \in Task, ReportFailure(w, t)
      PROVE  Reopen(t) \/ UNCHANGED vars
  <2>1. outbox[t] \in {"PENDING", "DONE"}
    BY <1>2, InHand DEF ReportFailure
  <2>2. outbox[t] = "PENDING" => outbox' = outbox
    BY <1>2 DEF ReportFailure, WorkersInv, TypedStock, TypeOK
  <2>3. QED
    BY <1>2, <2>1, <2>2 DEF ReportFailure, Reopen, vars
<1>3. ASSUME NEW w \in Pool, NEW t \in Task, CommitAnswer(w, t)
      PROVE  DrainDone(t) \/ UNCHANGED vars
  <2>1. outbox[t] \in {"PENDING", "DONE"}
    BY <1>3, InHand DEF CommitAnswer
  <2>2. QED
    BY <1>3, <2>1, CommitIsDone, CommitAfterDone
<1>4. ASSUME NEW w \in Pool, NEW t \in Task, Turn(w, t)
      PROVE  Next \/ UNCHANGED vars
  BY <1>1, <1>2, <1>3, <1>4 DEF Turn, Claim, Next, Worker
<1>5. ASSUME NEW w \in Pool, Perish(w)
      PROVE  UNCHANGED vars
  BY <1>5 DEF Perish
<1>6. CASE UNCHANGED workerVars
  BY <1>6 DEF workerVars
<1>7. QED
  BY <1>4, <1>5, <1>6 DEF WorkersNext, Next

-----------------------------------------------------------------------------
(* What the workers hold in their hands, from one step to the next.        *)

LEMMA HandsNext ==
    ASSUME WorkersInv, TypeOK', \A t \in Task : outbox[t] # "NONE" => outbox'[t] # "NONE",
           [WorkersNext]_workerVars
    PROVE  HandsOK' /\ AnswersKnown' /\ AnswersStand'
<1> USE DEF WorkersInv
<1>1. \A w \in Pool : \A h \in hand[w] : h[1] \in Task
  BY DEF HandsOK, Hand
<1>2. CASE Serve /\ UNCHANGED hand
  <2>1. HandsOK' /\ AnswersKnown'
    BY <1>2 DEF HandsOK, AnswersKnown
  <2>2. AnswersStand'
    <3> SUFFICES ASSUME NEW w \in Pool, NEW h \in hand[w]
                 PROVE  /\ outbox'[h[1]] # "NONE"
                        /\ h[2] \notin {"none", "error"}
                              => remote'[Slot(h[1][2])] \in Leaves(h[1], h[2])
      BY <1>2 DEF AnswersStand, Leaves, TaskType
    <3>1. h[1] \in Task /\ outbox[h[1]] # "NONE"
      BY <1>1 DEF AnswersStand
    <3>2. ASSUME h[2] \notin {"none", "error"}
          PROVE  remote'[Slot(h[1][2])] \in Leaves(h[1], h[2])
      <4>1. h[2] \in {"ok", "rejected"} /\ (h[2] = "rejected" => h[1][1] = "confirm")
        BY <3>2 DEF AnswersKnown
      <4>2. remote[Slot(h[1][2])] \in Leaves(h[1], h[2])
        BY <3>2 DEF AnswersStand
      <4>3. QED
        BY <1>2, <3>1, <4>1, <4>2, ServeKeepsAnswer DEF TypedStock, TypeOK
    <3>3. QED
      BY <3>1, <3>2
  <2>3. QED
    BY <2>1, <2>2
<1>3. ASSUME NEW w \in Pool, NEW t \in Task, CallProvider(w, t)
      PROVE  HandsOK' /\ AnswersKnown' /\ AnswersStand'
  <2>1. PICK o \in WorkerOutcomes(t) :
           /\ remote' = [remote EXCEPT ![Slot(t[2])] = o[2]]
           /\ hand' = [hand EXCEPT ![w] = {<<t, o[1]>>}]
    BY <1>3 DEF CallProvider
  <2>2. hand[w] = {<<t, "none">>} /\ outbox' = outbox
    BY <1>3 DEF CallProvider
  <2>3. t[2] \in Line /\ t = <<t[1], t[2]>> /\ Slot(t[2]) \in Slots /\ outbox[t] # "NONE"
    BY <2>2, LineFacts, InHand DEF Task
  <2>4. t[1] \in Undoing => remote[Slot(t[2])] # "none"
    BY <2>3 DEF Sought
  <2>5. /\ o[1] \in {"ok", "rejected", "error"}
        /\ o[1] = "rejected" => t[1] = "confirm"
        /\ o[1] # "error" => o[2] \in Leaves(t, o[1])
    BY <2>1, <2>4, FreshAnswer DEF TypedStock
  <2>6. ASSUME NEW p \in Pool, NEW h \in hand'[p]
        PROVE  \/ h = <<t, o[1]>>
               \/ h \in hand[p]
    BY <2>1 DEF HandsOK
  <2>7. HandsOK'
    BY <2>1, <2>5 DEF HandsOK, Hand, Answer
  <2>8. AnswersKnown'
    BY <2>5, <2>6 DEF AnswersKnown
  <2>9. ASSUME NEW p \in Pool, NEW h \in hand'[p]
        PROVE  /\ outbox'[h[1]] # "NONE"
               /\ h[2] \notin {"none", "error"} => remote'[Slot(h[1][2])] \in Leaves(h[1], h[2])
    <3>1. CASE h = <<t, o[1]>>
      <4>1. remote'[Slot(t[2])] = o[2]
        BY <2>1, <2>3 DEF TypedStock, TypeOK
      <4>2. QED
        BY <2>2, <2>3, <2>5, <3>1, <4>1
    <3>2. CASE h \in hand[p]
      <4>1. /\ outbox[h[1]] # "NONE" /\ h[1] \in Task
            /\ h[2] \notin {"none", "error"} => remote[Slot(h[1][2])] \in Leaves(h[1], h[2])
        BY <1>1, <3>2 DEF AnswersStand
      <4>2. QED
        BY <2>1, <2>2, <4>1, CallKeepsAnswer DEF TypedStock, TypeOK
    <3>3. QED
      BY <2>6, <2>9, <3>1, <3>2
  <2>10. AnswersStand'
    BY <2>9 DEF AnswersStand, Leaves, TaskType
  <2>11. QED
    BY <2>7, <2>8, <2>10
<1>4. ASSUME NEW w \in Pool, NEW t \in Task, remote' = remote, outbox[t] # "NONE",
             hand' = [hand EXCEPT ![w] = {}] \/ hand' = [hand EXCEPT ![w] = {<<t, "none">>}]
      PROVE  HandsOK' /\ AnswersKnown' /\ AnswersStand'
  <2>1. \A p \in Pool : \A h \in hand'[p] : h \in hand[p] \/ h = <<t, "none">>
    BY <1>4 DEF HandsOK
  <2>2. HandsOK'
    BY <1>4 DEF HandsOK, Hand
  <2>3. AnswersKnown'
    BY <2>1 DEF AnswersKnown
  <2>4. ASSUME NEW p \in Pool, NEW h \in hand'[p]
        PROVE  /\ outbox'[h[1]] # "NONE"
               /\ h[2] \notin {"none", "error"} => remote[Slot(h[1][2])] \in Leaves(h[1], h[2])
    BY <1>1, <1>4, <2>1, <2>4 DEF AnswersStand
  <2>5. AnswersStand'
    BY <1>4, <2>4 DEF AnswersStand, Leaves, TaskType
  <2>6. QED
    BY <2>2, <2>3, <2>5
<1>5. ASSUME NEW w \in Pool, NEW t \in Task, Turn(w, t)
      PROVE  HandsOK' /\ AnswersKnown' /\ AnswersStand'
  <2>1. CASE Claim(w, t)
    BY <1>4, <2>1 DEF Claim, vars
  <2>2. CASE CallProvider(w, t)
    BY <1>3, <2>2
  <2>3. CASE CommitAnswer(w, t)
    <3>1. outbox[t] # "NONE"
      BY <2>3, InHand DEF CommitAnswer
    <3>2. QED
      BY <1>4, <2>3, <3>1 DEF CommitAnswer
  <2>4. CASE ReportFailure(w, t)
    <3>1. outbox[t] # "NONE"
      BY <2>4, InHand DEF ReportFailure
    <3>2. QED
      BY <1>4, <2>4, <3>1 DEF ReportFailure
  <2>5. QED
    BY <1>5, <2>1, <2>2, <2>3, <2>4 DEF Turn
<1>6. ASSUME NEW w \in Pool, Perish(w)
      PROVE  HandsOK' /\ AnswersKnown' /\ AnswersStand'
  <2>1. PICK h \in hand[w] : TRUE
    BY <1>6 DEF Perish
  <2>2. h[1] \in Task /\ outbox[h[1]] # "NONE"
    BY <1>1, <2>1 DEF AnswersStand
  <2>3. QED
    BY <1>4, <1>6, <2>2 DEF Perish, vars
<1>7. CASE UNCHANGED workerVars
  BY <1>7 DEF workerVars, vars, HandsOK, AnswersKnown, AnswersStand, Leaves, TaskType
<1>8. QED
  BY <1>2, <1>5, <1>6, <1>7 DEF WorkersNext

\* A task is never deleted.
LEMMA TasksStay ==
    ASSUME TypeOK, [Next]_vars, NEW t \in Task, outbox[t] # "NONE"
    PROVE  outbox'[t] # "NONE"
<1>1. ASSUME NEW T, outbox' = Enqueue(T)
      PROVE  outbox'[t] # "NONE"
  BY <1>1 DEF Enqueue
<1>2. ASSUME NEW r \in Resv, Client(r)
      PROVE  outbox' = outbox \/ \E T : outbox' = Enqueue(T)
  BY <1>2 DEF Client, Lookup, ConfirmClaim, ConfirmRefuse, Cancel, GiveUp
<1>3. ASSUME NEW r \in Resv, Create(r)
      PROVE  outbox' = outbox \/ \E T : outbox' = Enqueue(T)
  <2>1. ASSUME NEW k \in Lines(r), CallReserve(k) \/ SaveItem(k)
        PROVE  outbox' = outbox \/ \E T : outbox' = Enqueue(T)
    BY <2>1 DEF CallReserve, SaveItem
  <2>2. QED
    BY <1>3, <2>1
    DEF Create, Tx1Commit, Tx1Rollback, FinalizeOk, FinalizeFail, FinalizeAbort
<1>4. ASSUME NEW r \in Resv, Confirm(r)
      PROVE  outbox' = outbox \/ \E T : outbox' = Enqueue(T)
  BY <1>4 DEF Confirm, CallConfirm, ConfirmCommit, ConfirmAbort
<1>5. Sweep => \E T : outbox' = Enqueue(T)
  BY DEF Sweep, GiveUp
<1>6. ASSUME NEW u \in Task, Worker(u)
      PROVE  outbox'[t] # "NONE"
  BY <1>6 DEF Worker, DrainDone, DrainFail, Reopen, TypeOK
<1>7. Serve => outbox' = outbox \/ \E T : outbox' = Enqueue(T)
  BY <1>2, <1>3, <1>4, <1>5 DEF Serve, Elapse, Crash, LateArrival
<1>8. QED
  BY <1>1, <1>6, <1>7 DEF Next, vars

LEMMA WorkersInvNext ==
    ASSUME WorkersInv, [WorkersNext]_workerVars
    PROVE  WorkersInv'
<1>1. [Next]_vars
  BY WorkersStep
<1>2. TypedStock' /\ Protocol' /\ Outcome' /\ Sought'
  BY <1>1, TypedStockNext, ProtocolNext, OutcomeNext, SoughtNext DEF WorkersInv, TypedStock
<1>3. TypeOK' /\ \A t \in Task : outbox[t] # "NONE" => outbox'[t] # "NONE"
  BY <1>1, <1>2, TasksStay DEF WorkersInv, TypedStock
<1>4. HandsOK' /\ AnswersKnown' /\ AnswersStand'
  BY <1>3, HandsNext
<1>5. QED
  BY <1>2, <1>4 DEF WorkersInv

THEOREM WorkersInvariant == WorkersSpec => []WorkersInv
BY WorkersInvInit, WorkersInvNext, PTL DEF WorkersSpec

\* However many workers have a task in hand, and whatever happens between one's
\* call and its commit, the service behaves as if they called and committed at
\* once: all that is proved of Spec holds of the workers.
THEOREM WorkersImplementService == WorkersSpec => ServiceSpec
<1>1. WorkersInit => Init
  BY DEF WorkersInit
<1>2. QED
  BY <1>1, WorkersInvariant, WorkersStep, PTL DEF WorkersSpec, ServiceSpec, Spec

\* What a worker was told is still so when it commits.
THEOREM AnswersStandAlways == WorkersSpec => []AnswersStand
<1>1. WorkersInv => AnswersStand
  BY DEF WorkersInv
<1>2. QED
  BY <1>1, WorkersInvariant, PTL
=============================================================================
