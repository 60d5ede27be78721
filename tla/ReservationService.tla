------------------------- MODULE ReservationService -------------------------
(***************************************************************************)
(* The reservation service: the create saga, confirm, cancel, the expiry   *)
(* sweeper and the outbox worker, over one database and one set of         *)
(* providers.                                                              *)
(*                                                                         *)
(* A reservation r is one execution of the create use case: its id is the  *)
(* uuid that execution draws, so resv[r] = "NONE" until TX1 commits.  A    *)
(* line <<r, n>> is the n-th item of its cart.  A sku stands for one       *)
(* (product, provider) pair, that is one inventory row.                    *)
(*                                                                         *)
(* A definition marked "Fault:" is not the code: it is the next definition *)
(* with a slip in it, used to see that the properties would notice.        *)
(***************************************************************************)
EXTENDS Integers, Sequences, FiniteSets

CONSTANTS
    Resv,           \* the executions of create, and the reservations they make
    KeyOf,          \* the idempotency key each of them was sent with
    Sku,            \* the (product, provider) pairs
    Kind,           \* of a sku's provider: internal, soft (read only) or external
    CanUnconfirm,   \* the skus whose provider advertises `unconfirm`
    OnHand,         \* qty_on_hand of every inventory row at the start
    Cart            \* the items of each reservation, in order: [sku, qty]

Owner(l) == l[1]
SkuOf(l) == Cart[l[1]][l[2]].sku
Qty(l)   == Cart[l[1]][l[2]].qty

Line     == UNION {{r} \X (1 .. Len(Cart[r])) : r \in Resv}
Lines(r) == {l \in Line : Owner(l) = r}

\* The units the lines ask for: a line of quantity q is q of them.
Unit == UNION {{l} \X (1 .. Qty(l)) : l \in Line}

ASSUME KindAssumption   == Kind \in [Sku -> {"internal", "soft", "external"}]
ASSUME OnHandAssumption == OnHand \in [Sku -> Nat]
ASSUME CartAssumption   == Cart \in [Resv -> Seq([sku : Sku, qty : Nat \ {0}])]
ASSUME UnitAssumption   == IsFiniteSet(Unit)

\* is_local: the provider is internal, or it offers no `reserve`.
Local(l)    == Kind[SkuOf(l)] # "external"
Internal(l) == Kind[SkuOf(l)] = "internal"

\* A provider knows a hold by the item's idempotency key, "<key>:<sku>": two
\* lines of one reservation on the same sku are one hold over there, and the
\* reserve call of the second, whatever its quantity, is a replay of the first.
Slot(l) == <<Owner(l), SkuOf(l)>>
Slots   == Resv \X Sku

\* Outbox tasks, named by the prefix of their idempotency key and their line.
Why  == {"reconcile", "release", "cancel", "expired", "confirm", "compensate"}
Task == Why \X Line

VARIABLES
    resv,      \* reservation.status
    hold,      \* reservation_item.hold_status, as the database has it
    inv,       \* the inventory rows: [onHand, reserved]
    order,     \* orders.status of the reservation's order
    sold,      \* the lines with an order_item row
    outbox,    \* outbox.status; PENDING also stands for a task being processed
    remote,    \* the provider's side of a hold
    covers,    \* the units it is for: those of the reserve call that placed it
    pc,        \* where the handler that works on a reservation is
    ans,       \* what the provider answered, in the handler's memory
    late,      \* the reservations whose expires_at has passed
    paidLate   \* history: payments that found their reservation EXPIRED

vars == <<resv, hold, inv, order, sold, outbox, remote, covers, pc, ans, late,
          paidLate>>

Status      == {"NONE", "INITIALIZING", "PENDING", "CONFIRMING", "CONFIRMED",
                "CANCELLED", "EXPIRED", "FAILED"}
HoldStatus  == {"NONE", "RESERVING", "HELD", "PENDING_UNKNOWN", "FAILED", "RELEASED"}
OrderStatus == {"NONE", "CONFIRMED", "PENDING_FULFILMENT", "NEEDS_RESOLUTION"}
\* "refused": confirm was rejected for good and the units are still set aside.
Remote      == {"none", "held", "refused", "confirmed", "released", "lapsed"}
Answer      == {"ok", "rejected", "timeout", "error"}
Row         == [onHand : Nat, reserved : Nat]

TypeOK ==
    /\ resv   \in [Resv -> Status]
    /\ hold   \in [Line -> HoldStatus]
    /\ inv    \in [Sku -> Row]
    /\ order  \in [Resv -> OrderStatus]
    /\ sold   \subseteq Line
    /\ outbox \in [Task -> {"NONE", "PENDING", "DONE"}]
    /\ remote \in [Slots -> Remote]
    /\ covers \in [Slots -> Nat]
    /\ pc     \in [Resv -> {"idle", "tx1", "calls", "fail", "confirm"}]
    /\ ans    \in [Line -> Answer \cup {"none"}]
    /\ late   \subseteq Resv
    /\ paidLate \subseteq Resv

Init ==
    /\ resv   = [r \in Resv |-> "NONE"]
    /\ hold   = [l \in Line |-> "NONE"]
    /\ inv    = [s \in Sku |-> [onHand |-> OnHand[s], reserved |-> 0]]
    /\ order  = [r \in Resv |-> "NONE"]
    /\ sold   = {}
    /\ outbox = [t \in Task |-> "NONE"]
    /\ remote = [k \in Slots |-> "none"]
    /\ covers = [k \in Slots |-> 0]
    /\ pc     = [r \in Resv |-> "idle"]
    /\ ans    = [l \in Line |-> "none"]
    /\ late   = {}
    /\ paidLate = {}

-----------------------------------------------------------------------------
(* The inventory repository: guarded updates of one row, applied to lines. *)

Units(L, s) == Cardinality({u \in Unit : u[1] \in L /\ SkuOf(u[1]) = s})

\* Fault: the guard forgets what is already reserved.
CanReserveOnHand(L) == \A s \in Sku : Units(L, s) <= inv[s].onHand

\* reserve() succeeds for every line of L: the free stock covers them all.
CanReserve(L) ==
    \A s \in Sku : Units(L, s) <= inv[s].onHand - inv[s].reserved

Reserved(rows, L) ==
    [s \in Sku |-> [rows[s] EXCEPT !.reserved = @ + Units(L, s)]]

Released(rows, L) ==
    [s \in Sku |-> [rows[s] EXCEPT !.reserved = @ - Units(L, s)]]

\* Fault: the sale clears the hold but stays on the shelf.
ConsumedHoldOnly(rows, L) == Released(rows, L)

Consumed(rows, L) ==
    [s \in Sku |-> [onHand   |-> rows[s].onHand - Units(L, s),
                    reserved |-> rows[s].reserved - Units(L, s)]]

\* Fault: the updates are not guarded.
GrantedAll(rows, G, L) == G = L

\* release() and consume() are guarded by qty_reserved >= qty and skipped when
\* the guard fails.  G is the set of lines of L for which it held, for some
\* order in which the lines are visited.
Granted(rows, G, L) ==
    /\ G \subseteq L
    /\ \A s \in Sku : Units(G, s) <= rows[s].reserved
    /\ \A l \in L \ G : Qty(l) > rows[SkuOf(l)].reserved - Units(G, SkuOf(l))

-----------------------------------------------------------------------------
(* The outbox repository.                                                  *)

Enqueue(T) == [t \in Task |-> IF t \in T THEN "PENDING" ELSE outbox[t]]

\* Keys made of the sku, not of the item's id, collide for two lines of one
\* reservation on the same sku: the second INSERT breaks the unique index.
Collide(L) == \E l, m \in L : l # m /\ Slot(l) = Slot(m)

TaskType(t) ==
    CASE t[1] = "reconcile"  -> "RECONCILE"
      [] t[1] = "confirm"    -> "CONFIRM"
      [] t[1] = "compensate" ->
            IF SkuOf(t[2]) \in CanUnconfirm THEN "UNCONFIRM" ELSE "RELEASE"
      [] OTHER               -> "RELEASE"

-----------------------------------------------------------------------------
(* The providers, as the adapter uses them: pairs <<answer, hold after>>.  *)
(* "error" is any exception but TimeoutError; both it and a timeout may    *)
(* hide a call that took effect.                                           *)

ReserveOutcomes(v) ==
    {<<"ok", "held">>, <<"rejected", v>>}
        \cup ({"timeout", "error"} \X {v, "held"})

\* A rejection is definitive: the call is rejected again however often it is
\* repeated.  It says nothing of the hold, which may be over or kept.
ConfirmOutcomes(v) ==
    {<<"error", v>>}
        \cup (IF v \in {"held", "confirmed"}
                THEN {"ok", "error"} \X {"confirmed"} ELSE {})
        \cup (IF v = "held" THEN {"rejected"} \X {"refused", "lapsed"} ELSE {})
        \cup (IF v \in {"refused", "lapsed", "released"} THEN {<<"rejected", v>>} ELSE {})

\* The holds whose units a provider still sets aside.
Kept == {"held", "refused"}

\* Both are idempotent; releasing what was confirmed changes nothing.
ReleaseOutcomes(v) ==
    LET w == IF v \in Kept THEN "released" ELSE v
    IN  {<<"ok", w>>, <<"error", w>>, <<"error", v>>}

UnconfirmOutcomes(v) ==
    LET w == IF v \in Kept \cup {"confirmed"} THEN "released" ELSE v
    IN  {<<"ok", w>>, <<"error", w>>, <<"error", v>>}

-----------------------------------------------------------------------------
(* Create: lookup, TX1, the external calls with their TX_n, TX_final.      *)

\* Fault: a reservation that is over gives its key back.
KeyTakenLive(r) ==
    \E q \in Resv : /\ KeyOf[q] = KeyOf[r]
                    /\ resv[q] \in {"INITIALIZING", "PENDING", "CONFIRMING", "CONFIRMED"}

KeyTaken(r) == \E q \in Resv : KeyOf[q] = KeyOf[r] /\ resv[q] # "NONE"

\* No row has the key: the execution goes on to TX1.  (If one has, it is
\* returned and nothing changes.)  A client may send the request again as long
\* as nothing was persisted for it.
Lookup(r) ==
    /\ pc[r] = "idle" /\ resv[r] = "NONE"
    /\ ~KeyTaken(r)
    /\ pc' = [pc EXCEPT ![r] = "tx1"]
    /\ UNCHANGED <<resv, hold, inv, order, sold, outbox, remote, covers, ans, late, paidLate>>

LocalLines(r) == {l \in Lines(r) : Local(l)}

Tx1Commit(r) ==
    /\ pc[r] = "tx1"
    /\ CanReserve(LocalLines(r)) /\ ~KeyTaken(r)
    /\ inv' = Reserved(inv, LocalLines(r))
    /\ hold' = [l \in Line |-> IF Owner(l) # r THEN hold[l]
                               ELSE IF Local(l) THEN "HELD" ELSE "RESERVING"]
    /\ resv' = [resv EXCEPT ![r] = "INITIALIZING"]
    /\ pc' = [pc EXCEPT ![r] = "calls"]
    /\ UNCHANGED <<order, sold, outbox, remote, covers, ans, late, paidLate>>

\* Out of local stock, or another execution with the key has committed since
\* the lookup: TX1 rolls back and leaves nothing.
Tx1Rollback(r) ==
    /\ pc[r] = "tx1"
    /\ ~CanReserve(LocalLines(r)) \/ KeyTaken(r)
    /\ pc' = [pc EXCEPT ![r] = "idle"]
    /\ UNCHANGED <<resv, hold, inv, order, sold, outbox, remote, covers, ans, late, paidLate>>

FirstReserving(l) ==
    /\ hold[l] = "RESERVING"
    /\ \A m \in Lines(Owner(l)) : hold[m] = "RESERVING" => l[2] <= m[2]

\* The hold is for the units of the line that placed it.
Covering(l) == [covers EXCEPT ![Slot(l)] = Qty(l)]

\* reserve() over HTTP for the first line still RESERVING, outside any
\* transaction.  A key that the provider has a hold for leaves that as it is.
CallReserve(l) ==
    /\ pc[Owner(l)] = "calls" /\ FirstReserving(l) /\ ans[l] = "none"
    /\ \E o \in ReserveOutcomes(remote[Slot(l)]) :
          /\ ans' = [ans EXCEPT ![l] = o[1]]
          /\ remote' = [remote EXCEPT ![Slot(l)] = o[2]]
          /\ covers' = IF remote[Slot(l)] = "none" /\ o[2] # "none"
                        THEN Covering(l) ELSE covers
    /\ UNCHANGED <<resv, hold, inv, order, sold, outbox, pc, late, paidLate>>

HoldAfter(a) == CASE a = "ok"      -> "HELD"
                  [] a = "timeout" -> "PENDING_UNKNOWN"
                  [] OTHER         -> "FAILED"

\* TX_n: the answer reaches the item's row; a timeout enqueues RECONCILE with
\* it; anything but success leaves the loop.
SaveItem(l) ==
    /\ pc[Owner(l)] = "calls" /\ hold[l] = "RESERVING" /\ ans[l] # "none"
    /\ hold' = [hold EXCEPT ![l] = HoldAfter(ans[l])]
    /\ outbox' = IF ans[l] = "timeout" THEN Enqueue({<<"reconcile", l>>}) ELSE outbox
    /\ pc' = [pc EXCEPT ![Owner(l)] = IF ans[l] = "ok" THEN "calls" ELSE "fail"]
    /\ ans' = [ans EXCEPT ![l] = "none"]
    /\ UNCHANGED <<resv, inv, order, sold, remote, covers, late, paidLate>>

\* TX_final, every line held.
FinalizeOk(r) ==
    /\ pc[r] = "calls"
    /\ \A l \in Lines(r) : hold[l] # "RESERVING"
    /\ resv' = [resv EXCEPT ![r] = "PENDING"]
    /\ pc' = [pc EXCEPT ![r] = "idle"]
    /\ UNCHANGED <<hold, inv, order, sold, outbox, remote, covers, ans, late, paidLate>>

\* Fault: the loop over the items returns after the first.
HeldLinesFirst(r) == {l \in Lines(r) : hold[l] = "HELD" /\ l[2] = 1}

HeldLines(r) == {l \in Lines(r) : hold[l] = "HELD"}

\* TX_final after a failure: _compensate and FAILED in one transaction.
FinalizeFail(r) ==
    LET back == {l \in HeldLines(r) : Local(l)}
        owed == HeldLines(r) \ back
    IN  /\ pc[r] = "fail" /\ ~Collide(owed)
        /\ \E G \in SUBSET back : Granted(inv, G, back) /\ inv' = Released(inv, G)
        /\ outbox' = Enqueue({"release"} \X owed)
        /\ hold' = [l \in Line |-> IF Owner(l) # r           THEN hold[l]
                                   ELSE IF hold[l] = "RESERVING" THEN "FAILED"
                                   ELSE IF hold[l] = "HELD"      THEN "RELEASED"
                                   ELSE hold[l]]
        /\ resv' = [resv EXCEPT ![r] = "FAILED"]
        /\ pc' = [pc EXCEPT ![r] = "idle"]
        /\ UNCHANGED <<order, sold, remote, covers, ans, late, paidLate>>

\* Two RELEASE tasks with one key: the transaction fails, nothing of it stays.
FinalizeAbort(r) ==
    /\ pc[r] = "fail"
    /\ Collide({l \in HeldLines(r) : ~Local(l)})
    /\ pc' = [pc EXCEPT ![r] = "idle"]
    /\ UNCHANGED <<resv, hold, inv, order, sold, outbox, remote, covers, ans, late, paidLate>>

\* A reserve call we gave up waiting for reaches the provider after all.  (So may
\* one that ended in another error or whose handler died; but nothing looks at
\* that hold again, so it is the same as if the call had taken effect at once.)
LateArrival(l) ==
    /\ hold[l] = "PENDING_UNKNOWN" /\ remote[Slot(l)] = "none"
    /\ remote' = [remote EXCEPT ![Slot(l)] = "held"]
    /\ covers' = Covering(l)
    /\ UNCHANGED <<resv, hold, inv, order, sold, outbox, pc, ans, late, paidLate>>

-----------------------------------------------------------------------------
(* Confirm: the claim (window 1), then every line and the order (window 2).*)

ConfirmClaim(r) ==
    /\ pc[r] = "idle" /\ resv[r] = "PENDING"
    /\ resv' = [resv EXCEPT ![r] = "CONFIRMING"]
    /\ pc' = [pc EXCEPT ![r] = "confirm"]
    /\ UNCHANGED <<hold, inv, order, sold, outbox, remote, covers, ans, late, paidLate>>

\* The compare-and-swap failed: 409, whatever the payment was.
ConfirmRefuse(r) ==
    /\ resv[r] = "EXPIRED" /\ r \notin paidLate
    /\ paidLate' = paidLate \cup {r}
    /\ UNCHANGED <<resv, hold, inv, order, sold, outbox, remote, covers, pc, ans, late>>

\* Every line of a provider that is not internal is confirmed over HTTP, the
\* read-only ones included: their provider has no such endpoint.
OtherLines(r) == {l \in Lines(r) : ~Internal(l)}
Answered(r, a) == {l \in OtherLines(r) : ans[l] = a}

CallConfirm(l) ==
    /\ pc[Owner(l)] = "confirm" /\ l \in OtherLines(Owner(l)) /\ ans[l] = "none"
    /\ ~Collide(Answered(Owner(l), "error"))
    /\ \E o \in ConfirmOutcomes(remote[Slot(l)]) :
          /\ ans' = [ans EXCEPT ![l] = o[1]]
          /\ remote' = [remote EXCEPT ![Slot(l)] = o[2]]
    /\ UNCHANGED <<resv, hold, inv, order, sold, outbox, covers, pc, late, paidLate>>

\* Fault: only a rejection keeps the order from being CONFIRMED.
OrderAfterOptimistic(r, needsResolution) ==
    IF needsResolution THEN "NEEDS_RESOLUTION" ELSE "CONFIRMED"

OrderAfter(r, needsResolution) ==
    IF needsResolution THEN "NEEDS_RESOLUTION"
    ELSE IF Answered(r, "error") # {} THEN "PENDING_FULFILMENT"
    ELSE "CONFIRMED"

\* Fault: the undoing does not wait for a rejection.
ConfirmTasksUndone(r, needsResolution) ==
    ({"confirm"} \X Answered(r, "error")) \cup ({"compensate"} \X Answered(r, "ok"))

\* CONFIRM for the calls that failed; the undoing of the ones that succeeded,
\* when some line was rejected.
ConfirmTasks(r, needsResolution) ==
    ({"confirm"} \X Answered(r, "error"))
        \cup ({"compensate"} \X (IF needsResolution THEN Answered(r, "ok") ELSE {}))

Forget(r) == [l \in Line |-> IF Owner(l) = r THEN "none" ELSE ans[l]]

\* Window 2 commits: internal lines consumed where the guard lets them, failed
\* confirms left to the outbox, and, if anything was rejected, the confirmed
\* lines compensated; then the order and its items.
ConfirmCommit(r) ==
    LET own == {l \in Lines(r) : Internal(l)}
    IN  /\ pc[r] = "confirm"
        /\ Answered(r, "none") = {} /\ ~Collide(Answered(r, "error"))
        /\ \E took \in SUBSET own :
              LET needsResolution == took # own \/ Answered(r, "rejected") # {}
                  rows == Consumed(inv, took)
              IN  /\ Granted(inv, took, own)
                  /\ \/ ~needsResolution /\ inv' = rows
                     \/ /\ needsResolution
                        /\ \E G \in SUBSET took :
                              Granted(rows, G, took) /\ inv' = Released(rows, G)
                  /\ sold' = sold \cup took \cup Answered(r, "ok")
                  /\ outbox' = Enqueue(ConfirmTasks(r, needsResolution))
                  /\ order' = [order EXCEPT ![r] = OrderAfter(r, needsResolution)]
        /\ resv' = [resv EXCEPT ![r] = "CONFIRMED"]
        /\ ans' = Forget(r)
        /\ pc' = [pc EXCEPT ![r] = "idle"]
        /\ UNCHANGED <<hold, remote, covers, late, paidLate>>

\* Two CONFIRM tasks with one key: window 2 rolls back, the claim stays.
ConfirmAbort(r) ==
    /\ pc[r] = "confirm"
    /\ Collide(Answered(r, "error"))
    /\ ans' = Forget(r)
    /\ pc' = [pc EXCEPT ![r] = "idle"]
    /\ UNCHANGED <<resv, hold, inv, order, sold, outbox, remote, covers, late, paidLate>>

-----------------------------------------------------------------------------
(* Cancel, the sweeper, the clock and crashes.                             *)

\* What cancel and the sweeper do with the lines of the reservations in R: the
\* items' hold_status stays HELD in the database.
GiveUp(R, status, why) ==
    LET held == UNION {HeldLines(r) : r \in R}
        back == {l \in held : Local(l)}
    IN  /\ resv' = [r \in Resv |-> IF r \in R THEN status ELSE resv[r]]
        /\ \E G \in SUBSET back : Granted(inv, G, back) /\ inv' = Released(inv, G)
        /\ outbox' = Enqueue({why} \X (held \ back))
        /\ UNCHANGED <<hold, order, sold, remote, covers, pc, ans, late, paidLate>>

\* Fault: a repeated cancel is handled like the first.
CancelAgain(r) == resv[r] \in {"PENDING", "CANCELLED"} /\ GiveUp({r}, "CANCELLED", "cancel")

\* Fault: a cancel wins over a confirm that has already claimed.
CancelClaimed(r) == resv[r] \in {"PENDING", "CONFIRMING"} /\ GiveUp({r}, "CANCELLED", "cancel")

Cancel(r) == resv[r] = "PENDING" /\ GiveUp({r}, "CANCELLED", "cancel")

\* Fault: the claim does not keep the sweeper away.
DueClaimed == {r \in late : resv[r] \in {"PENDING", "CONFIRMING"}}

\* Fault: expires_at is compared the wrong way round.
DueEarly == {r \in Resv \ late : resv[r] = "PENDING"}

Due == {r \in late : resv[r] = "PENDING"}

\* One UPDATE claims every reservation that is due; batch_size is not used.
Sweep == Due # {} /\ GiveUp(Due, "EXPIRED", "expired")

Elapse(r) ==
    /\ resv[r] = "PENDING" /\ r \notin late
    /\ late' = late \cup {r}
    /\ UNCHANGED <<resv, hold, inv, order, sold, outbox, remote, covers, pc, ans, paidLate>>

\* The process dies, or the request is abandoned: what was not committed is
\* gone, and no other process takes the handler over.
Crash(r) ==
    /\ pc[r] # "idle"
    /\ ans' = Forget(r)
    /\ pc' = [pc EXCEPT ![r] = "idle"]
    /\ UNCHANGED <<resv, hold, inv, order, sold, outbox, remote, covers, late, paidLate>>

-----------------------------------------------------------------------------
(* The outbox worker.                                                      *)

\* Fault: exceptions are swallowed, so the task is marked done.
WorkerOutcomesSwallowed(t) ==
    LET v == remote[Slot(t[2])]
    IN  {<<"ok", v>>} \cup (IF TaskType(t) = "CONFIRM" THEN ConfirmOutcomes(v)
                                                    ELSE ReleaseOutcomes(v))

\* Fault: CONFIRM tasks are not dispatched at all.
WorkerOutcomesNoConfirm(t) ==
    LET v == remote[Slot(t[2])]
    IN  CASE TaskType(t) = "RELEASE"   -> ReleaseOutcomes(v)
          [] TaskType(t) = "UNCONFIRM" -> UnconfirmOutcomes(v)
          [] OTHER                     -> {<<"ok", v>>}

\* A RECONCILE payload never carries a provider_ref: no call is made.
WorkerOutcomes(t) ==
    LET v == remote[Slot(t[2])]
    IN  CASE TaskType(t) = "RELEASE"   -> ReleaseOutcomes(v)
          [] TaskType(t) = "UNCONFIRM" -> UnconfirmOutcomes(v)
          [] TaskType(t) = "CONFIRM"   -> ConfirmOutcomes(v)
          [] OTHER                     -> {<<"ok", v>>}

\* The call was answered, and DONE committed.  A rejected confirm turns the
\* order in the same transaction; a successful one leaves it as it is.
DrainDone(t) ==
    /\ outbox[t] = "PENDING"
    /\ \E o \in WorkerOutcomes(t) :
          /\ o[1] # "error"
          /\ remote' = [remote EXCEPT ![Slot(t[2])] = o[2]]
          /\ order' = IF o[1] = "rejected"
                        THEN [order EXCEPT ![Owner(t[2])] = "NEEDS_RESOLUTION"]
                        ELSE order
    /\ outbox' = [outbox EXCEPT ![t] = "DONE"]
    /\ UNCHANGED <<resv, hold, inv, sold, covers, pc, ans, late, paidLate>>

\* The call failed, or the worker died before DONE was committed, and the call
\* may have taken effect all the same: the task will run again.  Or its lease had
\* lapsed, and another worker has finished the task before this one calls.
DrainFail(t) ==
    /\ outbox[t] # "NONE"
    /\ \E o \in WorkerOutcomes(t) :
          remote' = [remote EXCEPT ![Slot(t[2])] = o[2]]
    /\ UNCHANGED <<resv, hold, inv, order, sold, outbox, covers, pc, ans, late, paidLate>>

\* A worker whose lease lapsed reports its failure after another one finished
\* the task: mark_failed does not look at the status.
Reopen(t) ==
    /\ outbox[t] = "DONE"
    /\ outbox' = [outbox EXCEPT ![t] = "PENDING"]
    /\ UNCHANGED <<resv, hold, inv, order, sold, remote, covers, pc, ans, late, paidLate>>

-----------------------------------------------------------------------------

\* What clients and the payment system do, when they please.
Client(r) == Lookup(r) \/ ConfirmClaim(r) \/ ConfirmRefuse(r) \/ Cancel(r)

\* The steps of a handler that has started.
Create(r) ==
    \/ Tx1Commit(r) \/ Tx1Rollback(r)
    \/ \E l \in Lines(r) : CallReserve(l) \/ SaveItem(l)
    \/ FinalizeOk(r) \/ FinalizeFail(r) \/ FinalizeAbort(r)

Confirm(r) ==
    \/ \E l \in Lines(r) : CallConfirm(l)
    \/ ConfirmCommit(r) \/ ConfirmAbort(r)

Worker(t) == DrainDone(t) \/ DrainFail(t) \/ Reopen(t)

\* All that happens beside the outbox workers.
Serve ==
    \/ \E r \in Resv : Client(r) \/ Create(r) \/ Confirm(r) \/ Elapse(r) \/ Crash(r)
    \/ Sweep
    \/ \E l \in Line : LateArrival(l)

Next == Serve \/ \E t \in Task : Worker(t)

Spec == Init /\ [][Next]_vars

\* A handler that does not crash runs on; the sweeper and the workers loop for
\* ever and a task is retried without limit; time passes; and a provider that is
\* asked again and again answers in the end.  Nobody has to send a request.
HandlerFairness ==
    /\ \A r \in Resv : WF_vars(Create(r)) /\ WF_vars(Confirm(r)) /\ WF_vars(Elapse(r))
    /\ WF_vars(Sweep)

Fairness == HandlerFairness /\ \A t \in Task : WF_vars(DrainDone(t))

FairSpec == Spec /\ Fairness
=============================================================================
