------------------------- MODULE ReservationWorkers -------------------------
(***************************************************************************)
(* The outbox workers of the reservation service, one await at a time: a   *)
(* task is claimed in one transaction, its call is made with no row locked *)
(* and its answer is committed, or reported as a failure, in another one.  *)
(* Everything else the service does may happen in between, and so may the  *)
(* whole of another worker's turn at the same task, since a lease can end. *)
(*                                                                         *)
(* ReservationService has the call and the commit in one step.  That this  *)
(* loses nothing is ServiceSpec, a property of this module's behaviours.   *)
(***************************************************************************)
EXTENDS ReservationProperties

CONSTANT Pool      \* the places at the workers: one for each task of a batch

VARIABLE hand      \* the task in each place, with the answer to its call

workerVars == <<vars, hand>>

\* "none": the call is not answered yet.
Hand == Task \X (Answer \cup {"none"})

HandsOK == hand \in [Pool -> SUBSET Hand]

WorkersInit == Init /\ hand = [w \in Pool |-> {}]

-----------------------------------------------------------------------------

\* claim_batch commits.  The lease may be over before anything else happens: it
\* keeps nobody away for good, and no step looks at it.
Claim(w, t) ==
    /\ hand[w] = {} /\ outbox[t] = "PENDING"
    /\ hand' = [hand EXCEPT ![w] = {<<t, "none">>}]
    /\ UNCHANGED vars

\* process_task: the call, whatever has become of the task's row since the claim.
CallProvider(w, t) ==
    /\ hand[w] = {<<t, "none">>}
    /\ \E o \in WorkerOutcomes(t) :
          /\ remote' = [remote EXCEPT ![Slot(t[2])] = o[2]]
          /\ hand' = [hand EXCEPT ![w] = {<<t, o[1]>>}]
    /\ UNCHANGED <<resv, hold, inv, order, sold, outbox, covers, pc, ans, late, paidLate>>

\* Fault: a confirm that went through settles the whole order.
OrderOnceSettled(t, a) ==
    CASE a = "rejected"                       -> [order EXCEPT ![Owner(t[2])] = "NEEDS_RESOLUTION"]
      [] a = "ok" /\ TaskType(t) = "CONFIRM"  -> [order EXCEPT ![Owner(t[2])] = "CONFIRMED"]
      [] OTHER                                -> order

OrderOnce(t, a) ==
    IF a = "rejected" THEN [order EXCEPT ![Owner(t[2])] = "NEEDS_RESOLUTION"] ELSE order

\* mark_done, in one transaction with what the answer does to the order.
CommitAnswer(w, t) ==
    /\ \E a \in Answer \ {"error"} :
          hand[w] = {<<t, a>>} /\ order' = OrderOnce(t, a)
    /\ outbox' = [outbox EXCEPT ![t] = "DONE"]
    /\ hand' = [hand EXCEPT ![w] = {}]
    /\ UNCHANGED <<resv, hold, inv, sold, remote, covers, pc, ans, late, paidLate>>

\* mark_failed, whatever the row says by now: the call raised, or the transaction
\* that was to commit its answer did.
ReportFailure(w, t) ==
    /\ \E a \in Answer : hand[w] = {<<t, a>>}
    /\ outbox' = [outbox EXCEPT ![t] = "PENDING"]
    /\ hand' = [hand EXCEPT ![w] = {}]
    /\ UNCHANGED <<resv, hold, inv, order, sold, remote, covers, pc, ans, late, paidLate>>

\* The worker dies between two steps; what it has not committed is gone.
Perish(w) ==
    /\ hand[w] # {}
    /\ hand' = [hand EXCEPT ![w] = {}]
    /\ UNCHANGED vars

Turn(w, t) ==
    Claim(w, t) \/ CallProvider(w, t) \/ CommitAnswer(w, t) \/ ReportFailure(w, t)

WorkersNext ==
    \/ Serve /\ UNCHANGED hand
    \/ \E w \in Pool : Perish(w) \/ \E t \in Task : Turn(w, t)

WorkersSpec == WorkersInit /\ [][WorkersNext]_workerVars

-----------------------------------------------------------------------------

\* A worker dies when it pleases, and any call or commit may fail.  But as long as
\* some worker is left, an open task whose call can succeed is DONE in the end: that is
\* TasksEnd of Outbox, and here the fairness of DrainDone, which is what a commit of
\* DONE looks like to the service.
WorkersFairSpec == WorkersSpec /\ Fairness

-----------------------------------------------------------------------------

\* Where the hold that a task is about can be after its call was answered.
Leaves(t, a) ==
    CASE TaskType(t) = "CONFIRM" /\ a = "ok"       -> {"confirmed", "released"}
      [] TaskType(t) = "CONFIRM" /\ a = "rejected" -> {"refused", "lapsed", "released"}
      [] TaskType(t) = "RELEASE"                   -> {"confirmed", "lapsed", "released"}
      [] TaskType(t) = "UNCONFIRM"                 -> {"lapsed", "released"}
      [] OTHER                                     -> Remote

\* What a worker was told still stands when it comes to commit it, whatever other
\* workers, handlers and late requests did in the meantime: a hold that it ended is
\* not alive again, one that it confirmed can only have been undone.
AnswersStand ==
    \A w \in Pool : \A h \in hand[w] :
        /\ outbox[h[1]] # "NONE"
        /\ h[2] \notin {"none", "error"} => remote[Slot(h[1][2])] \in Leaves(h[1], h[2])

\* Whatever happens between a worker's call and its commit, and however many
\* workers have the task: all that shows is a service whose workers call and
\* commit at once.
ServiceSpec == Spec
=============================================================================
