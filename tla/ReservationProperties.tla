----------------------- MODULE ReservationProperties ------------------------
(***************************************************************************)
(* What the reservation service promises, about the stock, the orders and  *)
(* the holds at the providers.                                             *)
(***************************************************************************)
EXTENDS ReservationService

-----------------------------------------------------------------------------
(* Stock.                                                                  *)

\* No interleaving of reservations, releases and sales reserves more of a row
\* than is on hand (the CHECK constraints of the inventory table, which the
\* guarded updates must never make the database refuse).
StockBounds ==
    \A s \in Sku : inv[s].reserved >= 0 /\ inv[s].reserved <= inv[s].onHand

\* The lines whose units are set aside for a client who may still get them: held
\* in the database by a reservation that is not over.  A soft hold is never
\* given back once its reservation is confirmed.
Claiming(l) ==
    /\ Local(l) /\ hold[l] = "HELD"
    /\ \/ resv[Owner(l)] \in {"INITIALIZING", "PENDING", "CONFIRMING"}
       \/ resv[Owner(l)] = "CONFIRMED" /\ ~Internal(l)

Holding == {l \in Line : Claiming(l)}

\* qty_reserved of every row is exactly what those lines ask for, whatever the
\* order of create, confirm, cancel, expiry and crashes: nothing is released
\* twice, forgotten, or taken from another client's hold.
StockBacked == \A s \in Sku : inv[s].reserved = Units(Holding, s)

\* Never more units sold and held than the shop had to begin with.
NoOversell ==
    \A s \in Sku : Kind[s] # "external" => Units(sold, s) + Units(Holding, s) <= OnHand[s]

\* The lines sold on an order that went to resolution.  Window 2 of confirm, when
\* a line was rejected, releases what the same transaction has consumed, and so
\* takes the units out of qty_reserved a second time.
Disputed == {l \in sold : order[Owner(l)] = "NEEDS_RESOLUTION"}

\* That is the only way a row gets out of step: as long as no disputed line is on
\* it, qty_reserved is exactly what the live holds ask for, whatever becomes of
\* the other rows of the same carts.
BackedUnlessDisputed ==
    \A s \in Sku : (\A l \in Disputed : SkuOf(l) # s)
                       => inv[s].reserved = Units(Holding, s)

\* And it does no more harm than that: what is sold and held above the stock of a
\* row is at most what disputed lines were sold of it, with any number of carts,
\* crashes and rejections.
OversellBounded ==
    \A s \in Sku : Kind[s] # "external" =>
        Units(sold, s) + Units(Holding, s) <= OnHand[s] + Units(Disputed, s)

\* A unit leaves qty_on_hand when, and only when, an order item records it.
SoldOnce ==
    \A s \in Sku : Kind[s] = "internal" => inv[s].onHand + Units(sold, s) = OnHand[s]

-----------------------------------------------------------------------------
(* Orders and holds at the providers.                                      *)

\* The line that asked its provider first, of those on one hold.
FirstOnSlot(l) == \A m \in Lines(Owner(l)) : Slot(m) = Slot(l) => l[2] <= m[2]

\* Behind an order that says CONFIRMED to the client stand a sale of every internal
\* line and a confirmed hold of every other one, for all the units of the first
\* line on it.  (The further lines on a sku share that hold and nobody has set
\* their units aside: see AllOrNothing.)
OrderHonest ==
    \A l \in Line : order[Owner(l)] = "CONFIRMED" =>
        IF Internal(l) THEN l \in sold
        ELSE /\ remote[Slot(l)] = "confirmed"
             /\ FirstOnSlot(l) /\ ~Local(l) => covers[Slot(l)] = Qty(l)

\* An order waiting for fulfilment is still driven forward: each of its lines
\* at a provider is confirmed there or has a CONFIRM task to run.
ForwardDriven ==
    \A l \in Line :
        order[Owner(l)] = "PENDING_FULFILMENT" /\ ~Internal(l)
            => \/ remote[Slot(l)] = "confirmed"
               \/ outbox[<<"confirm", l>>] = "PENDING"

Tracked == {"release", "cancel", "expired", "confirm", "compensate"}

\* A hold that a provider keeps for a reservation that is over, and whose reserve
\* call had a known answer, has a task in the outbox that will end it.  The one
\* exception: when the provider keeps what it refused to confirm, no task gives it
\* back, and it is left to whoever resolves the order (confirm_reservation.py 103).
NoUntrackedHold ==
    \A l \in Line :
        /\ remote[Slot(l)] \in Kept
        /\ resv[Owner(l)] \in {"CONFIRMED", "CANCELLED", "EXPIRED", "FAILED"}
        /\ hold[l] \in {"HELD", "RELEASED"}
        => \/ \E w \in Tracked : outbox[<<w, l>>] = "PENDING"
           \/ remote[Slot(l)] = "refused" /\ order[Owner(l)] = "NEEDS_RESOLUTION"

\* A provider is told to confirm only for the winner of the compare-and-swap: a
\* cancelled or expired reservation never ends up confirmed over there.
ConfirmedOnlyIfClaimed ==
    \A l \in Line : remote[Slot(l)] = "confirmed"
                        => resv[Owner(l)] \in {"CONFIRMING", "CONFIRMED"}

\* A hold is released at the provider only after its reservation was given up,
\* or its order was handed to resolution.
ReleasedOnlyIfGivenUp ==
    \A l \in Line : remote[Slot(l)] = "released"
                        => \/ resv[Owner(l)] \in {"FAILED", "CANCELLED", "EXPIRED"}
                           \/ order[Owner(l)] = "NEEDS_RESOLUTION"

\* What a provider has confirmed is only ever undone for an order that is in
\* resolution by then: no retry, late answer or second line on the same hold takes
\* it from a client whose order stands (compensate, UNCONFIRM).
NeverTakenBack ==
    [][\A l \in Line : remote[Slot(l)] = "confirmed" =>
          \/ remote'[Slot(l)] = "confirmed"
          \/ order[Owner(l)] = "NEEDS_RESOLUTION"]_vars

-----------------------------------------------------------------------------
(* Progress, under the fairness of ReservationService.                     *)

\* A hold that a failed create compensated, or whose reservation was cancelled or
\* expired, is given back to the provider, whatever calls fail on the way (the
\* RELEASE tasks).
GivenUpHoldsEnd ==
    \A l \in Line :
        hold[l] = "RELEASED" \/ resv[Owner(l)] \in {"CANCELLED", "EXPIRED"}
            ~> remote[Slot(l)] \notin Kept

\* A reservation past its expires_at does not stay PENDING (the sweeper).
DueIsDecided ==
    \A r \in Resv : resv[r] = "PENDING" /\ r \in late ~> resv[r] # "PENDING"

\* What a paid order still waits for from a provider that takes reservations is
\* confirmed over there in the end, or the order goes to resolution (the worker's
\* retries of CONFIRM).
FulfilmentSettles ==
    \A l \in Line :
        order[Owner(l)] = "PENDING_FULFILMENT" /\ ~Local(l)
            ~> remote[Slot(l)] = "confirmed" \/ order[Owner(l)] = "NEEDS_RESOLUTION"

-----------------------------------------------------------------------------
(* What the documents say and the code does not do.                        *)

\* ARCHITECTURE.md 43: the RECONCILE task "releases by idempotency key - safe
\* no-op if nothing was held, release if something was".
ReconcileReleases ==
    \A l \in Line : outbox[<<"reconcile", l>>] = "DONE" => remote[Slot(l)] # "held"

\* create_reservation.py 163, on any exception but TimeoutError: "Definitive
\* failure - no hold placed, no orphan possible."
FailedMeansNoHold ==
    \A l \in Line : hold[l] = "FAILED" => remote[Slot(l)] # "held"

\* README.md 19: "An INITIALIZING reservation past its creation_deadline is rolled
\* back by the expiry sweeper" (config.py 16 and models.py 94 say so too).
InitializingEnds == \A r \in Resv : resv[r] = "INITIALIZING" ~> resv[r] # "INITIALIZING"

\* ARCHITECTURE.md 77, "All-or-nothing reservations", and DESIGN-NOTES.md 272, "no
\* partials": what waits to be paid is held to the last unit, so the hold of an
\* external sku is for all the units that the cart asks of it.
AllOrNothing ==
    \A l \in Line :
        resv[Owner(l)] = "PENDING" /\ ~Local(l)
            => covers[Slot(l)] >= Units(Lines(Owner(l)), SkuOf(l))

\* DESIGN-NOTES.md 166-167: "If expiry wins first, confirm's CAS fails ->
\* paid-but-expired edge -> NEEDS_RESOLUTION".
PaidButExpiredIsResolved ==
    \A r \in Resv : r \in paidLate ~> order[r] = "NEEDS_RESOLUTION"

\* soft_hold.py 57: "Confirm = release the soft hold": once no reservation with a
\* line on the mirrored row is under way, the row is free again.
SoftConfirmReleases ==
    \A s \in Sku :
        /\ Kind[s] = "soft"
        /\ \A l \in Line : SkuOf(l) = s =>
              resv[Owner(l)] \notin {"INITIALIZING", "PENDING", "CONFIRMING"}
        ~> inv[s].reserved = 0

-----------------------------------------------------------------------------
(* The abstract lifecycle.                                                 *)

Lifecycle == INSTANCE ReservationLifecycle WITH
    Resv <- Resv, KeyOf <- KeyOf, resv <- resv, order <- order

\* Statuses and orders move as the lifecycle says, one reservation for each key:
\* no handler, worker or sweeper moves them any other way.
LifecycleSpec == Lifecycle!Spec

\* However often a client sends its request, and however many of them are under
\* way at once: one reservation at most has its key, for ever (the unique index and
\* the two lookups of create).
OnePerKey ==
    \A q, r \in Resv : q # r /\ KeyOf[q] = KeyOf[r] => resv[q] = "NONE" \/ resv[r] = "NONE"
=============================================================================
