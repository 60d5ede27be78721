------------------------------- MODULE Outbox -------------------------------
(***************************************************************************)
(* The outbox table and the workers that drain it: a claim under row locks *)
(* with SKIP LOCKED, a lease, calls with no lock held, then DONE or another*)
(* try after a backoff.                                                    *)
(*                                                                         *)
(* There is no clock.  A moment that the code compares with now() is here  *)
(* a step that may happen at any time: the backoff of a task is over       *)
(* (Elapse), its lease is over (Lapse).                                    *)
(*                                                                         *)
(* A definition marked "Fault:" is not the code: it is the next definition *)
(* with a slip in it, used to see that the properties would notice.        *)
(***************************************************************************)
EXTENDS Naturals, FiniteSets

CONSTANTS
    Task,        \* the rows the service will ever write
    Worker,      \* worker processes; one that is started again is another one
    BatchSize,   \* OUTBOX_BATCH_SIZE, which every process reads for itself
    Poison       \* the tasks whose call fails however often it is made

ASSUME BatchSizeAssumption == BatchSize \in [Worker -> Nat \ {0}]
ASSUME PoisonAssumption    == Poison \subseteq Task

VARIABLES
    status,     \* outbox.status
    due,        \* the rows with next_run_at <= now
    earlier,    \* the pairs of due rows in the order of next_run_at
    leased,     \* the rows with locked_until > now
    attempts,   \* outbox.attempts: none, some, or spent, see Lease
    alive,      \* the workers whose process runs
    locked,     \* the rows a worker's claim has locked and not yet committed
    batch,      \* the tasks a worker has claimed and not yet marked
    fatal,      \* those of them that it read as spent
    said,       \* how process_task ended for the task in hand
    answered,   \* history: the tasks for which it returned
    overran     \* history: the tasks whose lease ended in a worker's hand

vars == <<status, due, earlier, leased, attempts, alive, locked, batch, fatal,
          said, answered, overran>>

Status == {"NONE", "PENDING", "PROCESSING", "DONE", "FAILED"}

TypeOK ==
    /\ status   \in [Task -> Status]
    /\ due      \subseteq Task
    /\ earlier  \subseteq Task \X Task
    /\ leased   \subseteq {t \in Task : status[t] \notin {"NONE", "PENDING"}}
    /\ attempts \in [Task -> {"none", "some", "spent"}]
    /\ alive    \subseteq Worker
    /\ locked   \in [Worker -> SUBSET Task]
    /\ batch    \in [Worker -> SUBSET Task]
    /\ fatal    \in [Worker -> SUBSET Task]
    /\ said     \in [Worker -> SUBSET (Task \X {"ok", "error"})]
    /\ answered \subseteq Task \ Poison
    /\ overran  \subseteq Task

Init ==
    /\ status   = [t \in Task |-> "NONE"]
    /\ due      = {}
    /\ earlier  = {}
    /\ leased   = {}
    /\ attempts = [t \in Task |-> "none"]
    /\ alive    = Worker
    /\ locked   = [w \in Worker |-> {}]
    /\ batch    = [w \in Worker |-> {}]
    /\ fatal    = [w \in Worker |-> {}]
    /\ said     = [w \in Worker |-> {}]
    /\ answered = {}
    /\ overran  = {}

-----------------------------------------------------------------------------
(* next_run_at, as the order of the rows that are due.                     *)

\* t is due with a next_run_at later than those of the rows in S, and earlier than
\* those of the other due rows.
Place(t, S) ==
    /\ due' = due \cup {t}
    /\ earlier' = earlier \cup (S \X {t}) \cup ({t} \X (due \ S))

\* The sets of due rows that end at some place in the order.
Prefixes == {S \in SUBSET due : S \X (due \ S) \subseteq earlier}

\* Fault: the failed task keeps its place.
KeepPlace(t) == UNCHANGED <<due, earlier>>

Postpone(t) ==
    /\ due' = due \ {t}
    /\ earlier' = {p \in earlier : p[1] # t /\ p[2] # t}

-----------------------------------------------------------------------------

\* The transaction of a use case that enqueues t commits.  next_run_at was taken
\* when it called enqueue(), which may be before rows became due that are seen now.
Enqueue(t) ==
    /\ status[t] = "NONE"
    /\ status' = [status EXCEPT ![t] = "PENDING"]
    /\ \E S \in Prefixes : Place(t, S)
    /\ UNCHANGED <<leased, attempts, alive, locked, batch, fatal, said, answered, overran>>

Locked == UNION {locked[w] : w \in Worker}

\* Fault: the rows are read without their locks.
ClaimableUnlocked ==
    {t \in due : status[t] = "PENDING" \/ (status[t] = "PROCESSING" /\ t \notin leased)}

Claimable ==
    {t \in due \ Locked :
        status[t] = "PENDING" \/ (status[t] = "PROCESSING" /\ t \notin leased)}

\* Fault: ORDER BY next_run_at DESC.
LatestRows(w) ==
    {t \in Claimable : Cardinality({u \in Claimable : <<t, u>> \in earlier}) < BatchSize[w]}

\* ORDER BY next_run_at LIMIT the batch's size.
FirstRows(w) ==
    {t \in Claimable : Cardinality({u \in Claimable : <<u, t>> \in earlier}) < BatchSize[w]}

\* claim_batch, first statement: FOR UPDATE SKIP LOCKED.
Select(w) ==
    /\ w \in alive /\ locked[w] = {} /\ batch[w] = {}
    /\ Claimable # {}
    /\ locked' = [locked EXCEPT ![w] = FirstRows(w)]
    /\ UNCHANGED <<status, due, earlier, leased, attempts, alive, batch, fatal,
                   said, answered, overran>>

\* The attempts of a row after one more.  "spent" stands for the numbers n from
\* 1025 on: a float times 2 ** (n - 1) raises OverflowError.
Counted(n) ==
    CASE n = "none"  -> {"some"}
      [] n = "some"  -> {"some", "spent"}
      [] n = "spent" -> {"spent"}

\* claim_batch, second statement, and its commit.  The number that comes back
\* is one or two more than the row had; which claim reads the first spent one
\* is open anyway.
Lease(w) ==
    /\ w \in alive /\ locked[w] # {}
    /\ status' = [t \in Task |-> IF t \in locked[w] THEN "PROCESSING" ELSE status[t]]
    /\ leased' = leased \cup locked[w]
    /\ \E n \in [Task -> {"none", "some", "spent"}] :
          /\ \A t \in Task : IF t \in locked[w] THEN n[t] \in Counted(attempts[t])
                                                ELSE n[t] = attempts[t]
          /\ attempts' = n
          /\ fatal' = [fatal EXCEPT ![w] = {t \in locked[w] : n[t] = "spent"}]
    /\ batch' = [batch EXCEPT ![w] = locked[w]]
    /\ locked' = [locked EXCEPT ![w] = {}]
    /\ UNCHANGED <<due, earlier, alive, said, answered, overran>>

\* process_task for one task of the batch, with no row of the table locked: it
\* returns, whatever the provider's answer, or it raises.
Answer(w, t, a) ==
    /\ w \in alive /\ t \in batch[w] /\ said[w] = {}
    /\ said' = [said EXCEPT ![w] = {<<t, a>>}]
    /\ UNCHANGED <<status, due, earlier, leased, attempts, alive, locked, batch,
                   fatal, overran>>

Succeed(w, t) ==
    /\ t \notin Poison
    /\ Answer(w, t, "ok")
    /\ answered' = answered \cup {t}

Raise(w, t) == Answer(w, t, "error") /\ UNCHANGED answered

PutDown(w, t) ==
    /\ batch' = [batch EXCEPT ![w] = @ \ {t}]
    /\ fatal' = [fatal EXCEPT ![w] = @ \ {t}]
    /\ said'  = [said EXCEPT ![w] = {}]

\* Fault: the exception is swallowed.
MarkDoneAnyhow(w, t) ==
    /\ w \in alive /\ said[w] \cap ({t} \X {"ok", "error"}) # {} /\ t \notin Locked
    /\ status' = [status EXCEPT ![t] = "DONE"]
    /\ PutDown(w, t)
    /\ UNCHANGED <<due, earlier, leased, attempts, alive, locked, answered, overran>>

\* The UPDATE waits for a row that another worker's claim has locked.
MarkDone(w, t) ==
    /\ w \in alive /\ <<t, "ok">> \in said[w] /\ t \notin Locked
    /\ status' = [status EXCEPT ![t] = "DONE"]
    /\ PutDown(w, t)
    /\ UNCHANGED <<due, earlier, leased, attempts, alive, locked, answered, overran>>

\* Fault: the lease of the failed task is not given back.
MarkFailedKeepsLease(w, t) ==
    /\ w \in alive /\ <<t, "error">> \in said[w] /\ t \notin fatal[w] /\ t \notin Locked
    /\ status' = [status EXCEPT ![t] = "PENDING"]
    /\ Postpone(t)
    /\ PutDown(w, t)
    /\ UNCHANGED <<leased, attempts, alive, locked, answered, overran>>

\* Fault: the status that the documents name, FAILED with a next_run_at
\* (DESIGN-NOTES.md 174, BUILD-SPEC.md 202), and that no claim looks for.
MarkFailedAsDocumented(w, t) ==
    /\ w \in alive /\ <<t, "error">> \in said[w] /\ t \notin fatal[w] /\ t \notin Locked
    /\ status' = [status EXCEPT ![t] = "FAILED"]
    /\ Postpone(t)
    /\ leased' = leased \ {t}
    /\ PutDown(w, t)
    /\ UNCHANGED <<attempts, alive, locked, answered, overran>>

\* Whoever holds the task by now, and whatever its status is.
MarkFailed(w, t) ==
    /\ w \in alive /\ <<t, "error">> \in said[w] /\ t \notin fatal[w] /\ t \notin Locked
    /\ status' = [status EXCEPT ![t] = "PENDING"]
    /\ Postpone(t)
    /\ leased' = leased \ {t}
    /\ PutDown(w, t)
    /\ UNCHANGED <<attempts, alive, locked, answered, overran>>

-----------------------------------------------------------------------------

\* The process ends: its locks go, what it claimed keeps status and lease.
Stop(w) ==
    /\ alive'  = alive \ {w}
    /\ locked' = [locked EXCEPT ![w] = {}]
    /\ batch'  = [batch EXCEPT ![w] = {}]
    /\ fatal'  = [fatal EXCEPT ![w] = {}]
    /\ said'   = [said EXCEPT ![w] = {}]
    /\ UNCHANGED <<status, due, earlier, leased, attempts, answered, overran>>

\* The backoff cannot be computed: the exception leaves the except block and
\* with it the loop, before mark_failed.
Overflow(w, t) == w \in alive /\ <<t, "error">> \in said[w] /\ t \in fatal[w] /\ Stop(w)

\* Killed, or ended by a database error, which nothing in the loop catches.
Die(w) == w \in alive /\ Stop(w)

\* The backoff is over: now() has reached next_run_at, and so passed all others.
Elapse(t) ==
    /\ status[t] # "NONE" /\ t \notin due
    /\ Place(t, due)
    /\ UNCHANGED <<status, leased, attempts, alive, locked, batch, fatal, said,
                   answered, overran>>

InHand(t) == \E w \in alive : t \in batch[w]

Lapse(t) ==
    /\ t \in leased
    /\ leased' = leased \ {t}
    /\ overran' = IF InHand(t) THEN overran \cup {t} ELSE overran
    /\ UNCHANGED <<status, due, earlier, attempts, alive, locked, batch, fatal,
                   said, answered>>

-----------------------------------------------------------------------------

\* The steps of a worker that runs.
Run(w) ==
    \/ Select(w) \/ Lease(w)
    \/ \E t \in Task : \/ Succeed(w, t) \/ Raise(w, t)
                       \/ MarkDone(w, t) \/ MarkFailed(w, t) \/ Overflow(w, t)

Next ==
    \/ \E w \in Worker : Run(w) \/ Die(w)
    \/ \E t \in Task : Enqueue(t) \/ Elapse(t) \/ Lapse(t)

Spec == Init /\ [][Next]_vars

\* A worker that does not die goes on, also past a call that hangs: it is cut
\* off.  Time passes.  A call that is made again and again, by whichever
\* worker, succeeds in the end, unless its task is poison.
Fairness ==
    /\ \A w \in Worker : WF_vars(Run(w))
    /\ \A t \in Task : WF_vars(Elapse(t)) /\ WF_vars(Lapse(t))
    /\ \A t \in Task \ Poison : SF_vars(\E w \in Worker : Succeed(w, t))

FairSpec == Spec /\ Fairness

-----------------------------------------------------------------------------

\* Two workers hold one task only if a lease on it ended while a worker was at
\* it: the row locks keep two claims apart until the lease takes over, and the
\* lease until the task is marked (claim_batch, mark_failed).
DisjointUnlessLate ==
    \A v, w \in Worker : v # w => batch[v] \cap batch[w] \subseteq overran

\* What a worker claims is the first of what can be claimed, as much of it as the
\* batch holds: a row that is left behind is due after every row taken, and is left
\* only by a full batch (claim_batch's ORDER BY and LIMIT, whatever is locked).
ClaimsInTurn ==
    [][\A w \in Worker : locked'[w] \ locked[w] # {} =>
          /\ locked'[w] \subseteq Claimable
          /\ Cardinality(locked'[w]) <= BatchSize[w]
          /\ \A t \in Claimable \ locked'[w] :
                /\ Cardinality(locked'[w]) = BatchSize[w]
                /\ \A u \in locked'[w] : <<u, t>> \in earlier]_vars

\* The outbox is the task queue the use cases rely on: a claim, a crash or a
\* failed call never loses a task, DONE is written only after process_task
\* returned, and a task that is done is opened again only after an overrun.
Queue == INSTANCE TaskQueue WITH
    state   <- [t \in Task |-> IF status[t] \in {"NONE", "DONE"}
                                 THEN status[t] ELSE "OPEN"],
    carried <- answered,
    overrun <- overran

QueueSpec == Queue!Spec

\* Every task that can succeed does, unless no worker is left: neither the
\* poison tasks that come round for ever nor the lease of a dead worker keeps
\* it waiting (claim_batch's order, limit and reclaiming).
TasksEnd ==
    \A t \in Task \ Poison : status[t] = "PENDING" ~> (status[t] = "DONE" \/ alive = {})

\* No task is given up, however often it failed, and none is starved by others:
\* as long as a worker is left, a task that is not done comes into a worker's
\* hands again (mark_failed, claim_batch; OUTBOX_MAX_ATTEMPTS is only logged).
NeverGivenUp ==
    \A t \in Task : status[t] \notin {"NONE", "DONE"} ~>
        (InHand(t) \/ status[t] = "DONE" \/ alive = {})
=============================================================================
