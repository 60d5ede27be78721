# A TLA+ development of the inventory reservation service

The service holds stock for a checkout: it reserves the lines of a cart, in its own database or
at external providers, and then confirms them when the payment arrives, or gives them back when
the client cancels or the time runs out. The modules here model that protocol as the code runs
it, TLC checks them on small instances, and TLAPS proves the central facts for every instance.

Paths in this document are relative to the repository.

## 1. The system

### Components, their state and their operations

| component | state | operations | what makes it correct |
|---|---|---|---|
| create (`app/use_cases/create_reservation.py`) | `reservation`, `reservation_item`, local variables of the request | lookup by key; TX1: local reserve and write-ahead intent; per external line an HTTP reserve and TX_n; TX_final with compensation | one reservation per key; a failed cart leaves nothing held; every transaction is all or nothing |
| confirm (`confirm_reservation.py`) | `reservation.status`, `orders`, `order_item` | compare-and-swap to `CONFIRMING`; then consume or HTTP confirm per line, compensation, order | at most one winner of confirm, cancel and expiry; the order says what really happened |
| cancel (`cancel_reservation.py`) | the same | compare-and-swap to `CANCELLED`, releases | held stock comes back once |
| expiry sweeper (`workers/expiry_sweeper.py`) | the same | claim all that is due in one UPDATE, releases | due reservations end; claimed ones are left alone |
| outbox (`outbox_repo.py`, `workers/outbox_worker.py`) | `outbox` rows with status, `next_run_at`, lease, attempts; in each worker, the batch it claimed | enqueue with a unique key; claim a batch; process; mark done or failed | every promised side effect happens, at least once, and twice does no harm; no task is lost with its worker, or starved by others |
| inventory (`inventory_repo.py`) | `qty_on_hand`, `qty_reserved` per (product, provider) | guarded reserve, release, consume | `0 <= reserved <= on hand`; reserved is what the live holds ask for; nothing is sold twice |
| providers and adapters (`infra/providers`) | the remote hold of each item | reserve, confirm, release, unconfirm over HTTP | no hold outlives its reservation untracked |
| circuit breaker (`decorators/circuit_breaker.py`) | three Redis keys for each provider | check, take the probe's slot, call, record success or failure; injected nowhere yet | it opens in an outage, it closes when the provider is back |
| retry (`decorators/retry.py`) | none | a bounded repetition of one call; injected nowhere | not modelled |
| availability sync | the mirrored `qty_on_hand` | written, but its write goes to a detached object | changes nothing, not modelled |

They interact through one PostgreSQL database (compare-and-swap on `reservation.status`, guarded
UPDATEs on inventory rows, unique keys, the outbox table) and through HTTP calls to providers. No
two of them call each other.

### What is hard

* Every request handler is a sequence of transactions with HTTP calls between them. It can die
  between any two, and nobody takes it over.
* The answer of an HTTP call says less than it seems: a timeout or an error may hide a call that
  took effect, and a call that was given up may still arrive.
* Confirm, cancel and expiry race for one reservation; two requests race for one key; several
  workers may run one outbox task.
* A cart mixes lines that can be undone in the same transaction with lines that cannot.
* A cart may name one sku twice. Keys built from the sku then coincide: two lines share one hold
  at the provider, which is for the units of the first, and two outbox tasks have one unique key.
* A worker claims a batch under one lease and works through it task by task. The lease may end while
  the worker still believes in it, and nothing in a row says whose lease it is.
* A task may fail for ever. It keeps coming back, with a backoff that is computed from a number that
  only grows.
* The breaker's state is in three keys with a time to live, which the callers of several processes read
  and write one command at a time.

`PROJECT.json` lists the hazards one by one, each at its line, with the properties aimed at it.

## 2. The modules

| module | contents |
|---|---|
| `ReservationService` | the model: state, one action per handler step, fairness |
| `ReservationProperties` | what the service promises, and what its documents say and the code does not do |
| `ReservationWorkers` | the same service with its outbox workers one await at a time: claim, call, commit |
| `ReservationLifecycle` | the abstract specification of the statuses and orders, which the service implements |
| `Outbox` | the outbox table and its workers: claims, leases, batches, backoff, crashes |
| `TaskQueue` | the abstract queue that `ReservationService` relies on and `Outbox` implements |
| `CircuitBreaker` | the breaker of one provider, one Redis command at a time |
| `ReservationServiceProofs` | proofs: types and the bounds of the rows |
| `ReservationProtocolProofs` | proofs: which outcome the providers, the order and the outbox see |
| `ReservationRefinementProofs` | proof that the service implements the lifecycle |
| `ReservationStockProofs` | proofs: units sold, held and left |
| `ReservationOutcomeProofs` | proofs: what becomes of each hold at a provider |
| `ReservationWorkersProofs` | proof that the workers in single steps implement the service |
| `OutboxProofs` | proofs: who has a task in hand, in which order tasks are claimed, and that the outbox implements the queue |
| `CircuitBreakerProofs` | proofs: types, with the counter's window |
| `MCStock`, `MCSaga`, `MCWorkers`, `MCOutbox`, `MCBreaker`; `MCSmall` | instances for TLC; the last one for the runs that expect a violation |

`ReservationService` is about what tasks *do*, `Outbox` about how they are *drained*; `TaskQueue` is
the border between the two. `ReservationWorkers` puts the workers' steps around what tasks do, and is
shown to implement `ReservationService`, where a call and its commit are one step. `CircuitBreaker` stands alone, as its
code does.

### `ReservationService`: how state and actions correspond to the code

A member of `Resv` is one execution of the create use case: the uuid it draws is its reservation's
id. Several may carry the same key (`KeyOf`). A line `<<r, n>>` is the n-th item of its cart, and a
sku is one (product, provider) pair, that is, one inventory row. A provider is `internal`, `soft`
(external and read-only: reservations are local, against a mirrored row) or `external`.
Quantities are natural numbers: a line of quantity q stands for q members of `Unit`, and
`Units(L, s)` is what the lines of L ask of the row s. (A cardinality instead of a sum keeps the model
free of recursion, so that the prover can reason about it.)

| variable | in the code |
|---|---|
| `resv`, `hold`, `order`, `sold` | `reservation.status`, `reservation_item.hold_status`, `orders.status`, the `order_item` rows; `NONE` before the row exists |
| `inv` | `qty_on_hand` and `qty_reserved` |
| `outbox` | `outbox.status` by task; a task is named by the prefix of its key and its line. `PENDING` also stands for `PROCESSING`; `Outbox` tells them apart |
| `remote`, `covers` | the provider's side of a hold, by its idempotency key, and the units it is for |
| `pc`, `ans` | how far the handler of a reservation got, and the answers it holds in memory: both are lost in a crash |
| `late` | whose `expires_at` has passed |
| `paidLate` | history: payments refused because the reservation had expired |

`hold` is what the *database* says. Cancel, the sweeper and confirm change `hold_status` on their
own copy, or not at all, and never write it back: in the model it stays `HELD`.

| action | code |
|---|---|
| `Lookup`, `Tx1Commit`, `Tx1Rollback` | create, lines 63-132; a shortage or a taken key rolls TX1 back |
| `CallReserve`, `SaveItem` | one turn of the loop at lines 137-180: the HTTP call, then TX_n with the `RECONCILE` task after a timeout |
| `FinalizeOk`, `FinalizeFail`, `FinalizeAbort` | TX_final, with `_compensate`; the abort is two `RELEASE` tasks with one key |
| `LateArrival` | a reserve call the service gave up on reaches the provider |
| `ConfirmClaim`, `ConfirmRefuse` | window 1 of confirm; the refused payment |
| `CallConfirm`, `ConfirmCommit`, `ConfirmAbort` | window 2: the calls, then everything the transaction commits; the abort is two `CONFIRM` tasks with one key |
| `Cancel`, `Sweep`, `Elapse` | cancel, the sweeper, the clock |
| `DrainDone`, `DrainFail`, `Reopen` | a worker runs a task and commits `DONE`; or fails, or dies before it commits, or calls after another worker has finished; or reports a failure after another worker's success |
| `Crash` | the handler of a reservation dies, or its transaction is rolled back by the database |

A transaction is one step. For the local updates of confirm's window 2, which happen before and
between HTTP calls, this is exact: the guarded UPDATE locks its row until the commit, so no other
transaction can tell the difference. What the model leaves out there is how long others wait.

The answers of a provider are sets of pairs (answer, hold after the call): `ReserveOutcomes`,
`ConfirmOutcomes`, `ReleaseOutcomes`, `UnconfirmOutcomes`. Any exception that is not a
`TimeoutError` is the answer `error`, and may or may not have taken effect, as a timeout may. What is
assumed of providers, which are not part of the repository:

* A reserve may be refused at any time. A key that is known gets the hold that is there, whatever quantity
  the call names: the line that placed the hold decides its units (`covers`). Lines of one cart on one sku
  have one key (`create_reservation.py` 85).
* A confirm may be rejected for good (422, `external_reserve.py` 61-62), and is rejected again if it is
  repeated. The adapter learns nothing of the hold: it may be over (`lapsed`) or kept (`refused`), as the
  stand-in in `infra/providers/fakes/fake_external.py` 80-81 keeps it.
* Calls with one key are idempotent; a confirmed hold is undone by `unconfirm` only.

`LateArrival` is a reserve that timed out and reaches the provider later. One that ended in another error, or
whose handler died, may do so too; the model has such a call take effect at once, since nothing in the service
looks at its hold between the two moments.

Some paths end where nothing goes on, and the model keeps them as they are:

* Two `RELEASE` tasks with one key (`create_reservation.py` 240) roll TX_final back, and the reservation stays
  `INITIALIZING` with all it holds; two `CONFIRM` tasks with one key (`confirm_reservation.py` 114) roll window 2
  back, and it stays `CONFIRMING`, although providers may have confirmed. A crash does the same. No handler,
  task or sweeper looks for either status. For `INITIALIZING` the documents promise otherwise (the `initializing`
  run); for `CONFIRMING` they promise nothing, and no property here says that it ends.
* A line that is rejected gets no task (`confirm_reservation.py` 102-103): if the provider keeps the hold it
  refused to confirm, nobody gives it back. `NoUntrackedHold` names this exception and no other.
* A `CONFIRM` task that succeeds changes neither the order nor its items (`outbox_worker.py` 64-73), although
  `DESIGN-NOTES.md` 194-196 speaks of retries "to completion". The order waits in `PENDING_FULFILMENT` for good:
  the lifecycle, which the service implements, has no step from there to `CONFIRMED`.

Definitions whose comment begins with "Fault:" are not the code. Each is a slip that a change to
the code could make (a dropped guard, a forgotten line, a wrong comparison); `PROJECT.json` pairs
each property with one of them, and TLC finds that property violated when the slip is put in.

### `ReservationLifecycle`

Statuses and orders only: the first execution to commit takes a key for good; of payment,
cancellation and clock one wins; an order exists exactly for the reservations that were confirmed;
afterwards the background can only hand it to a human. `ReservationService` implements it with the
identity on `resv` and `order` (`LifecycleSpec`).

### `ReservationWorkers`

A worker claims a task in one transaction, calls the provider with no row locked, and commits the answer
in another transaction (`outbox_worker.py` 86-111). In between, anything may happen: another worker may do
the same for the same task, since a lease can end, or for the task that undoes it; a handler may call for
another line on the same hold; the order may go to resolution. `Pool` are the places at the workers, one for
each task of a batch; `hand` is the task in each place with the answer to its call.

| action | code |
|---|---|
| `Claim` | `claim_batch` commits; the lease may be over at once, so no step looks at it |
| `CallProvider` | `process_task`: the call, whatever has become of the row |
| `CommitAnswer` | `DONE`, and what the answer does to the order, in one transaction |
| `ReportFailure` | `mark_failed`, whatever the row says by now: the call raised, or the commit did |
| `Perish` | the worker dies; what it has not committed is gone |
| `Serve` | everything else, as in `ReservationService` |

`ReservationService` has the call and the commit in one step, `DrainDone`. That this loses nothing is no
matter of course: between the two the hold may move. `AnswersStand` says how far: where an answer said
that a hold is, it still is when the answer is committed, or it has moved the one way that the answer
allows. With it, every split turn is a turn of the service: the call is a `DrainFail` (the call took effect, `DONE` is
not committed yet), the commit a `DrainDone` whose call changes nothing any more, a commit after
another worker's `DONE` a stutter, a failure reported late a `Reopen`. So all that is checked and proved of `Spec`
holds of the workers in single steps (`ServiceSpec`).

### `Outbox` and `TaskQueue`

There is no clock in `Outbox`. What the code compares with `now()` is a step that may come at any
time: a backoff is over (`Elapse`), a lease is over (`Lapse`). A lease may therefore end while its worker
is in the middle of its batch, which the numbers of the code permit (20 tasks of up to 5 seconds, one
lease of 60 seconds).

| variable | in the code |
|---|---|
| `status`, `leased` | `outbox.status`; the rows with `locked_until > now()` |
| `due`, `earlier` | the rows with `next_run_at <= now()`, and their order |
| `attempts` | `outbox.attempts`: none, some, or `spent`: the numbers from which the backoff cannot be computed |
| `locked` | the row locks of a claim between its SELECT and its commit |
| `batch`, `said`, `fatal` | in the worker: the tasks it has not marked yet, how `process_task` ended for the one in hand, and which of them it read as `spent` |
| `alive` | which workers run |
| `answered`, `overran` | history: for which tasks `process_task` returned; whose lease ended in a worker's hand |

| action | code |
|---|---|
| `Enqueue` | a use case's transaction with an INSERT commits; `next_run_at` dates from the call of `enqueue` (line 31), so the row may come in before rows that are due already |
| `Select`, `Lease` | `claim_batch`: SELECT ... FOR UPDATE SKIP LOCKED with order and limit; then the UPDATE and the commit |
| `Succeed`, `Raise` | `process_task` returns, whatever the provider's answer was; or raises |
| `MarkDone`, `MarkFailed` | the commit of `DONE`; back to `PENDING` with a later `next_run_at` and no lease, whoever holds it by now |
| `Overflow` | the `OverflowError` of the backoff: it leaves the `except` block, and with it the loop |
| `Die` | the process is killed, or a database error, which nothing catches, ends its loop |
| `Elapse`, `Lapse` | the clock |

Each worker has its own `BatchSize`, since every process reads `OUTBOX_BATCH_SIZE` for itself. The tasks
of a batch are worked on in any order (an UPDATE ... RETURNING promises none). A worker that is started
again is another member of `Worker`. `Poison` are the tasks whose call raises however often it is made.

`TaskQueue` is what the rest of the service takes for granted: a task that was written is never lost; it
is done only if it was carried out; it may be carried out again; it is opened again only after a
lease had ended too early. `Outbox` implements it (`QueueSpec`) with `PENDING` and `PROCESSING` as
open, `answered` as carried out and `overran` as overrun. `DrainDone`, `DrainFail` and `Reopen` of
`ReservationService` are `Finish`, `CarryOut` and `Reopen` with the provider's side added.

What modelling it brought to light:

* A lease has no owner. A stale worker's `mark_failed` clears the lease of the worker that holds the
  task now, so that a third may claim it at once. `overran` is therefore history: once a lease has
  ended in a worker's hand, the task stays exempt from `DisjointUnlessLate`. All effects of this are
  those of a task that runs twice, which the saga's properties allow for.
* A task that always fails meets the overflow of `5.0 * 2 ** (attempts - 1)` after about a thousand attempts
  (43 days at the longest backoff of an hour). The exception ends the worker; the row stays
  `PROCESSING`; when the lease has ended, the next worker claims it and ends too. `docker-compose.yml` has
  no restart policy. The properties of progress say "or no worker is left" for this reason.
* A failed task goes back to `PENDING` (`outbox_repo.py` 103). `DESIGN-NOTES.md` 174 and `BUILD-SPEC.md` 202 say
  "`FAILED` + `next_run_at`", while their own claim (`DESIGN-NOTES.md` 176) looks for `PENDING` and `PROCESSING`
  only: with that status the first failed call would be the last. `Status` has `FAILED`, as the column does; no
  step of the code writes it, and the Fault `MarkFailedAsDocumented` is the documents' version.
* A task for a provider that no longer exists would count as carried out (`outbox_worker.py` 42-44).
  Nothing deletes providers, so this cannot happen and is not modelled.

### `CircuitBreaker`

`keys` are the keys that exist in Redis, `failures` the counter, `"window"` whether it has a time to
live. `at` says which command a caller is about to send. Each command is one action; a caller can be
cancelled before any of them (`Cancel`: a `CancelledError` is no `Exception`), and any key with a time
to live may end at any moment. The five wrapped operations are one call. All counts from the threshold on
compare alike and are one number.

What modelling it brought to light:

* The half-open state of the documents is not there. `BUILD-SPEC.md` 285-287 says "while open, fail fast without
  calling" and "after cooldown allow one half-open trial gated by `SET NX`", and the decorator's own comment
  (`circuit_breaker.py` 6-7) the same. In the code the slot is asked for while the open flag is *there*, so one
  caller goes through as soon as the breaker has opened; and when the flag's time is over, *every* caller goes
  through. No property here speaks of a single probe, since the code keeps none.
* Any caller's success deletes the flag and the slot, also of a call that began before the breaker opened, so
  that several probes may be under way.
* `EXPIRE` after every `INCR` renews the window: what is counted is a run of failures without a longer
  pause, not the failures of 60 seconds.
* A caller cancelled between `INCR` and `EXPIRE` leaves a counter that never ends by itself. The next
  failure gives it a window, the next success deletes it: `HealedRecovers`.

## 3. The properties

Stock:

* `StockBounds` - `0 <= qty_reserved <= qty_on_hand`. Not obvious from the code: `consume` guards
  `qty_reserved` and lowers `qty_on_hand`.
* `StockBacked` - `qty_reserved` is *exactly* what the lines of live reservations ask for. It
  fails if any path releases twice, forgets a release, or releases another client's hold.
* `NoOversell` - units sold and units held never exceed what there was.
* `SoldOnce` - `qty_on_hand` falls by exactly the order items.
* `BackedUnlessDisputed` - with rejected lines in the carts, `qty_reserved` is still exact on every row
  of which no *disputed* line was sold: a line of an order that went to resolution. Confirm releases such
  lines after consuming them (the `oversell` run).
* `OversellBounded` - and the harm this does is bounded: what is sold and held above a row's stock is at
  most what disputed lines were sold of it.

Orders and providers:

* `OrderHonest` - an order that says `CONFIRMED` has every internal line sold and every other line's hold
  confirmed at its provider, for all the units of the first line on that hold. It is silent on the units of
  further lines on one sku, which nobody has set aside (the `partial` run).
* `ForwardDriven` - each external line of an order in `PENDING_FULFILMENT` is confirmed or has a
  task that will try again.
* `NoUntrackedHold` - when a reservation is over, a hold that the service knows of and the
  provider still keeps has a task in the outbox, unless the provider refused to confirm it and the order is in
  resolution.
* `ConfirmedOnlyIfClaimed`, `ReleasedOnlyIfGivenUp` - the provider is told to confirm, or to
  release, only on behalf of the outcome that won.
* `NeverTakenBack` - what a provider has confirmed is undone only for an order that is already in
  resolution: no retry, late answer or second line on the same hold takes it from an order that stands.
* `LifecycleSpec` - statuses and orders move only as the lifecycle says: one winner among payment, cancellation
  and clock, and at most one reservation for each key, however many requests race for it.
* `AnswersStand`, `ServiceSpec` - the workers in single steps (above).

Progress of the service: `GivenUpHoldsEnd`, `DueIsDecided`, `FulfilmentSettles`.

The outbox:

* `DisjointUnlessLate` - two workers have one task in hand only if a lease on it ended while a worker
  was at it. It rests on three things at once: the row locks until the lease is committed, the lease
  until the task is marked, and no batch left over when a worker claims again.
* `QueueSpec` - the outbox is the abstract queue (above).
* `ClaimsInTurn` - a claim takes what is due first of what can be claimed, and leaves a row only when its
  batch is full. This is the fairness between tasks that `TasksEnd` rests on.
* `TasksEnd` - every task that can succeed is done in the end, if a worker is left: a poison task that
  comes round for ever does not keep it from its place in a batch, nor does the lease of a dead worker.
* `NeverGivenUp` - even a poison task comes into a worker's hands again and again.

The breaker:

* `HealedRecovers` - once the provider is back, the breaker closes for good, whichever deletes raced with
  whichever increments, and whoever was cancelled half-way.
* `OutageTrips` - in an outage it opens again and again, whatever deletes the counter in between.

## 4. The runs

| run | question | instance | verdict |
|---|---|---|---|
| `stock` | is the shop's own stock accounted for under contention? | 4 executions, two with one key, one of which asks twice for one sku; an internal row of 3 and a mirrored row of 1, of which the carts want 6 and 2 | holds, 9,360 states |
| `saga` | does a mixed cart end consistently, whatever the providers answer, and how much harm does a rejection do to the stock? | 3 reservations that want 4 of the 3 units of an internal row; one of them asks two providers too (only one can unconfirm), and that one twice for one sku, around the internal line | holds, 227,624 states |
| `progress` | do workers that claim, call and commit in single steps show as the service, and does everything that must end end? | 2 workers, 2 reservations: one asks a provider twice for one sku around an internal line of quantity 2, then a second provider; one asks for more than there is | holds, 32,304 states |
| `outbox` | are tasks neither lost nor starved nor in two hands? | 2 tasks, one of them poison; 2 workers, one with a batch of 1, one with a batch of 2; either may die | holds, 27,506 states |
| `breaker` | does the breaker open in an outage and close when it is over? | 3 callers, a threshold of 2 | holds, 67,018 states |
| `reconcile` | does RECONCILE release by key? | 1 external line | violated |
| `failed_hold` | does an error mean that nothing is held? | 1 external line | violated |
| `initializing` | is a crashed create rolled back? | 1 external line | violated |
| `partial` | is a cart held to the last unit before it can be paid? | 1 cart with two lines on one external sku | violated |
| `paid_expired` | is a late payment handed to resolution? | 1 external line | violated |
| `soft_confirm` | is a soft hold released by confirm? | 1 read-only line | violated |
| `oversell` | is stock safe when a mixed cart is rejected half-way? | 3 reservations, an internal row of 2 | violated |

`PROJECT.json` ("findings") tells each violated run's story, with the sentence of the documents it
contradicts, and two more divergences that passing runs bear on: the status of a failed task (`outbox`) and
what a successful retry does to the order (`saga`).

`StockBacked` and `NoOversell` are checked for carts without external lines. With one, the code
does not keep them: that is the `oversell` run. After a rejection, confirm releases lines that the
same transaction has already consumed, and so takes units from another client's hold. What is left of
them on mixed carts is `BackedUnlessDisputed` and `OversellBounded`, in the `saga` run: the `oversell`
run shows that this path exists, these two that there is no other and how much it can do.
`StockBounds` and `SoldOnce` survive even this.

### Bounds, and why they are enough

The only bounds are the constants: nothing in the models counts without end, so each state space is
finite without constraints, and TLC explores all of it. A retry, a reopened task or a repeated request loops in the
graph instead of counting. Three reservations are needed for the worst stock interleavings (one that
releases too much, one that is robbed, one that takes what was freed). Two lines of one cart show
every partial failure, and a third puts an internal line between two external ones; a fourth, at another
provider, can fail when two lines with one key are held, which is what a collision of keys in TX_final
takes. Two workers are enough for a second one to call, commit or fail between the call and the commit of
the first. Two lines on one sku reach every collision of keys. A line of quantity 2 tells a unit from a line. The outbox needs no
bound, since keys are unique and each key names one task.

For the outbox, one task that succeeds and one that cannot are enough for one to stand in the other's way:
the worker with a batch of 1 must choose, and the one with a batch of 2 has a second task waiting
while its lease runs. Two workers are enough for a stale one, and for a dead one to be survived. A
third task shows nothing new for 30 times the states (918,000 already with batches of 1); the safety
properties are proved for all sizes. For the breaker, two callers can reach the threshold together while a
third is in a call that began before; a threshold of 2 tells a failure from a trip.

Deadlock is not checked for the service or the outbox: when all reservations are over and the outbox is
empty, or all workers have died, there is rightly nothing to do. It is checked for the breaker.

### Fairness

`FairSpec` and `WorkersFairSpec` assume that a handler that has begun and does not crash goes on (`WF` of
`Create` and `Confirm`; the event loop runs ready tasks); that the sweeper loops for ever, as
`run_expiry_sweeper` does, catching every exception; that time passes (`WF` of `Elapse`); and that a provider
asked again and again gives an answer in the end (`WF` of `DrainDone`; a task has no last attempt, since
`OUTBOX_MAX_ATTEMPTS` only changes what is logged). `WF` of `DrainDone` is no assumption about one worker, and in
`ReservationWorkers` it is no action of one: it says that an open task whose call can succeed gets its commit in
the end, by whichever worker. That is what `TasksEnd` shows of the outbox, as long as some worker is left. One
worker may well end: its loop does not catch database errors or the overflow of the backoff.

Nobody is assumed to send a request, a crash is never prevented, and a stale worker may always
reopen a task. `GivenUpHoldsEnd` and `FulfilmentSettles` therefore speak of providers that do not
fail for ever. `FulfilmentSettles` speaks of providers that take reservations: for read-only ones
no such answer exists, which is the `soft_confirm` run.

`Outbox!FairSpec` assumes that a worker that has not died goes on (`WF` of `Run`; the timeout decorator cuts
off a call that hangs), that time passes (`WF` of `Elapse` and `Lapse`), and that a call made again and
again by whichever worker returns in the end, unless the task is poison (`SF` of `Succeed`: between two
calls the task is in nobody's hands). Workers may all die; the properties say so.

`CircuitBreaker!FairSpec` assumes traffic and that calls end (`WF` of `Call`), and that Redis drops the open flag
and the slot in the end when nobody renews them. The ends of the counter's window are not assumed, and
cancellations are never prevented: where a property needs calm or a long window, it says so.

## 5. The proofs

Each theorem holds for every value of its module's constants (reservations, keys, carts, skus, quantities
and providers; tasks, workers and batch sizes; callers and threshold), except where a condition is named:

| theorem | statement | module |
|---|---|---|
| `TypeCorrect` | `Spec => []TypeOK` | `ReservationServiceProofs` |
| `StockAlwaysBounded` | `Spec => []StockBounds` | `ReservationServiceProofs` |
| `OnlyTheClaimedAreConfirmed` | `Spec => []ConfirmedOnlyIfClaimed` | `ReservationProtocolProofs` |
| `OnlyTheGivenUpAreReleased` | `Spec => []ReleasedOnlyIfGivenUp` | `ReservationProtocolProofs` |
| `ServiceImplementsLifecycle` | `Spec => LifecycleSpec` | `ReservationRefinementProofs` |
| `OneReservationPerKey` | `Spec => []OnePerKey` | `ReservationRefinementProofs` |
| `UnitsAreSoldOnce` | `Spec => []SoldOnce` | `ReservationStockProofs` |
| `StockBackedUnlessDisputed` | `Spec => []BackedUnlessDisputed` | `ReservationStockProofs` |
| `NeverOversoldByMore` | `Spec => []OversellBounded` | `ReservationStockProofs` |
| `LoopIsGranted` | a loop of guarded updates, in any order of the lines, has an outcome that `Granted` allows | `ReservationStockProofs` |
| `LocalStockBacked` | `Spec => []StockBacked`, if no provider is external | `ReservationStockProofs` |
| `LocalNeverOversold` | `Spec => []NoOversell`, if no provider is external | `ReservationStockProofs` |
| `OrdersAreHonest` | `Spec => []OrderHonest` | `ReservationOutcomeProofs` |
| `WaitingOrdersAreDriven` | `Spec => []ForwardDriven` | `ReservationOutcomeProofs` |
| `KnownHoldsAreTracked` | `Spec => []NoUntrackedHold` | `ReservationOutcomeProofs` |
| `ConfirmationsStand` | `Spec => NeverTakenBack` | `ReservationOutcomeProofs` |
| `WorkersImplementService` | `WorkersSpec => ServiceSpec` | `ReservationWorkersProofs` |
| `AnswersStandAlways` | `WorkersSpec => []AnswersStand` | `ReservationWorkersProofs` |
| `OutboxTypeCorrect` | `Spec => []TypeOK` | `OutboxProofs` |
| `ClaimsDisjoint` | `Spec => []DisjointUnlessLate` | `OutboxProofs` |
| `ClaimsGoInTurn` | `Spec => ClaimsInTurn` | `OutboxProofs` |
| `OutboxImplementsQueue` | `Spec => QueueSpec` | `OutboxProofs` |
| `BreakerTypeCorrect` | `Spec => []TypeOK` | `CircuitBreakerProofs` |

The assumptions are the named `ASSUME`s of the modules. `ReservationService`: the kinds of providers,
stock that is a natural number, carts of items with a positive quantity (`api/v1/reservations.py` 21),
and finitely many units in all. `Outbox`: batches of at least one, and that poison tasks are tasks.
`CircuitBreaker`: a threshold of at least one.

*Types and rows.* Neither fact is inductive alone. That `qty_on_hand` stays a natural number needs
`qty_reserved <= qty_on_hand`, because `consume` only looks at `qty_reserved`; that bound in turn
needs the types. So the invariant is `TypedStock == TypeOK /\ StockBounds`. Three lemmas carry the
arithmetic: `ReservedSound`, `ReleasedSound` and `ConsumedSound` say that each guarded update maps
sound rows to sound rows, *whichever* of the updates the guards let through (`Granted`). Every
action that touches stock is one of these or, in `ConfirmCommit`, a release after a sale.
`UnitsType` is where finiteness is used.

*Outcomes.* What a provider has done to a hold says nothing by itself about who asked for it; the
calls come from a handler or from a worker, which may act long after the fact. The invariant
`Protocol` adds the reasons. `Owned`: a handler past its first transaction owns the status, so
nobody can have moved it in between (this is what the compare-and-swap and the `INITIALIZING`
status are for). `OrderLast`, `SoldLast`: orders and sales come with `CONFIRMED`. `TaskMeans`: the
kind of an outbox task tells the outcome that created it, and that outcome is final, so a worker
that runs the task late, twice or beside another worker still acts for the right one. One lemma per
step; `DrainRemote` is the one where a worker's call meets the reason for its task.

*The lifecycle.* The state mapping is the identity on `resv` and `order`. With `Protocol` as the
invariant, each step that moves a status or an order is the abstract step named in its lemma, and
all others stutter. The delicate one is `DrainEscalates`: a rejected confirm may be answered again
after the order has turned, and must then stutter; it can never meet a `CONFIRMED` order.

The inductive invariants are theorems themselves: `ProtocolAlways`, `OutcomeAlways`, `CoverAlways`, `LedgerAlways`,
`WorkersInvariant` and `InvAlways` of the outbox.

*Keys.* `OnePerKey`, at most one reservation for each key, is proved of the abstract lifecycle, of which it is
an invariant as it stands, and holds of the service by the refinement. (No run checks it apart from
`LifecycleSpec`, which says more.)

*Units.* Sets of units make sums additive: `UnitsDisjoint`, `UnitsMonotonic` and `UnitsOfLine`
are the whole theory. `SoldOnce` then follows from `SoldLast`: window 2 sells lines that were not
sold before. The rest is `Ledger`, which needs no condition on the shop. Its main part, `Books`, gives each
row's balance: exact where no disputed line was sold of it; otherwise the holds exceed `qty_reserved` by at most
what was. The step that
matters is `GrantedOnRow`: where a row holds what the lines ask of it, none of their guards fails *on that row*,
whatever happens on the others; so a cancel, an expiry or a sale finds all of its units. On a disputed row the
guards may let through any part, and the bound survives because each line that is released was counted
once. In a shop with no external provider nothing is ever disputed (`LocalNeverDisputed`: no provider
answers anything but an error), and `LocalStockBacked` and `LocalNeverOversold` are corollaries. The condition
cannot be dropped, as the `oversell` run shows.

*Guards.* The code runs its guarded updates one line after the other; the model chooses which of them go through
in one step (`Granted`). `LoopIsGranted` shows that the choice leaves nothing out: whatever lines the loop visits, in
whichever order, its outcome is `Granted`. It is an induction on the turns of the loop (`LoopTurn`), written as the
absence of a first turn after which `LoopInv` fails. The lemma `SomethingIsGranted` adds that on sound rows the
relation always leaves a choice (of the sets of lines that the rows can bear, a largest one), so no transaction
of the model is stuck where the code would go on. It is a fact about the model, not about waiting: the
UPDATEs of the code wait for row locks, which are not modelled.

*Holds.* `Outcome` says of each line what is known of its hold and what is promised. `Known`: what a
handler remembers of a call is still true at the provider, though workers and late arrivals touch it
in between, and a hold that the database has was asked for. `Honest`, `Driven` and `Followed` are the
three promises, line by line. They need `Protocol`: a confirmed hold is only undone by the worker of a
`compensate` task, and such a task means that the order has gone to resolution. Two lines on one sku are
why `Known` speaks of the slot at the provider and not of the line. A confirm that was rejected leaves a hold
that is over or `refused`; `Followed` asks for a task in all cases but that one. `Bystander` disposes of the lines a
step leaves alone; `WorkerAnswers` and `WorkerCall` say what a worker's call can do to any hold. The
hardest steps are `ConfirmCommit`, where memory becomes order, sale and tasks at once, and `FinalizeFail`
and `GiveUp`, where every hold that is still there must get its task in the same transaction.

How many units a hold is for is the matter of `Cover`. Create asks for the lines of a sku in their order and
leaves its loop at the first answer that is not a success (`Calling`). So it is the first line on a slot
that finds no hold there, and with a late arrival too the lines before had a success (`InTurn`); the hold is
for the first line's units from the moment it is there (`Backed`), and no later call changes that. With
`Outcome` this gives `OrderHonest` (`CoverMeans`).

`NeverTakenBack` is an action property from the same invariants: of all steps only the run of a `compensate` task can
take a confirmed hold away, and `TaskMeans` says what that task is the trace of.

*Workers.* The mapping forgets `hand`. A call is a `DrainFail`. A commit must be a `DrainDone` whose own call
gives the same answer and leaves the hold where it is, so the invariant must know where it is: `AnswersStand`.
That is not inductive alone. A release that found nothing at the provider could be followed by a
reserve that arrives late, and the hold would be alive after it was given up; so `Sought`: whatever a task
is to undo had been asked for at its provider when the task was written. `TaskIsLast` and `HoldsMoveOn` say that no
handler works on the line any more and that the hold only moves on. Two commits need care. A
confirm that succeeded may have been undone by the time it is committed: it is then a `DrainDone` that was
refused, which changes nothing, since the order is in resolution already. And a commit
after another worker's `DONE` must change no order: of an order that still waits, a confirm task that is `DONE` has
confirmed its hold (`Driven`), and a hold that was refused is not confirmed; so a second refusal finds the order in
resolution (`CommitAfterDone`).

*Claims.* `ClaimInv` follows a row from lock to lease: a locked row is `PENDING`, or `PROCESSING` without a
lease; two claims lock different rows; a task in a worker's batch is `PROCESSING` under a live lease,
unless a lease on it was overrun. So no claim can select what another worker has. `SaidInv` adds that
what a worker is about to mark it has in its batch, and that `ok` means answered; with these, every
step of the outbox is one step of the queue or a stutter; a claim, of however many rows, is a stutter.

*Turns.* `OrderInv`: `earlier` is a strict total order of exactly the due rows, and these are finitely many.
The model's filter (fewer than a batch of rows before this one) is then the code's `ORDER BY` with `LIMIT`
(`FirstRowsInTurn`): what it takes is closed downward; its last row bounds its size from above, the first row that it
leaves bounds it from below. Both come from `FirstElement`, that a finite set with a strict order has a first
element, which is proved from the library's theorem that subsets of a finite set are well-founded.

Only model-checked: all progress properties, since liveness under fairness is out of the prover's reach.
Every invariant and every action property of
the passing runs is proved, `StockBacked` and `NoOversell` for shops without external providers; beyond them
the `oversell` run refutes these two, and `BackedUnlessDisputed` and `OversellBounded` say what is left.

## 6. What is not modelled

* The retry decorator: injected nowhere and without state. Repeating an idempotent call is within what
  a call may do in `ReservationService`. It would retry a `TimeoutError` too, which is an `OSError`,
  although its comment says it does not (`retry.py` 3 and 12).
* Redis errors inside the breaker, which is injected nowhere (`ARCHITECTURE.md` 65).
* Lengths of time: how long a lease, a backoff or a window is. Every order of their ends is modelled.
* The siblings of a line whose confirm is rejected on a retry: the code does nothing about them
  (`outbox_worker.py` 66), so there is no behaviour to model; the order goes to a human.
* Availability sync: it assigns to an object that belongs to no session, so nothing is written.
* Row locks and deadlocks of the database, outside the claims of the outbox: a victim is rolled back, which
  the model has as `Crash`.
* Routing, serialisation, credentials, metrics, migrations, seed data: no state of the protocol.
* Inputs that cannot be stored or found (an unknown provider or product): the request fails and
  changes nothing.

## 7. The plan

1. Locks of confirm's window 2, which are held across HTTP calls although `BUILD-SPEC.md` 172 and
   `ARCHITECTURE.md` 35 rule it out: how long others wait, and the order in which carts lock their rows. It
   needs a module with lines locked one by one, to be shown to implement the one-step transaction of
   `ReservationService`.
2. The breaker and the retry around the calls of the service, once the code injects them: what a
   refused call means to a create that has recorded its intent.
3. If a lease gets an owner: `DisjointUnlessLate` without its exemption.
