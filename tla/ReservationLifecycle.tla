------------------------ MODULE ReservationLifecycle ------------------------
(***************************************************************************)
(* What a reservation and its order promise to their clients, with no      *)
(* stock, provider, outbox or handler in sight: one reservation for each   *)
(* idempotency key, statuses that only move along the state machine, and   *)
(* an order exactly for the reservations that were confirmed.              *)
(***************************************************************************)
CONSTANTS Resv, KeyOf

VARIABLES resv, order

vars == <<resv, order>>

Status      == {"NONE", "INITIALIZING", "PENDING", "CONFIRMING", "CONFIRMED",
                "CANCELLED", "EXPIRED", "FAILED"}
OrderStatus == {"NONE", "CONFIRMED", "PENDING_FULFILMENT", "NEEDS_RESOLUTION"}

Init ==
    /\ resv  = [r \in Resv |-> "NONE"]
    /\ order = [r \in Resv |-> "NONE"]

\* One step of the status, the order left alone.
Move(r, from, to) ==
    /\ resv[r] = from
    /\ resv' = [resv EXCEPT ![r] = to]
    /\ UNCHANGED order

\* The first execution to commit takes the key for good.
Begin(r) ==
    /\ \A q \in Resv : KeyOf[q] = KeyOf[r] => resv[q] = "NONE"
    /\ Move(r, "NONE", "INITIALIZING")

Settle(r) == Move(r, "INITIALIZING", "PENDING") \/ Move(r, "INITIALIZING", "FAILED")

\* Of a payment, a cancellation and the clock, one wins.
Claim(r)  == Move(r, "PENDING", "CONFIRMING")
Cancel(r) == Move(r, "PENDING", "CANCELLED")

Expire(S) ==
    /\ S # {} /\ \A r \in S : resv[r] = "PENDING"
    /\ resv' = [r \in Resv |-> IF r \in S THEN "EXPIRED" ELSE resv[r]]
    /\ UNCHANGED order

Fulfil(r) ==
    /\ resv[r] = "CONFIRMING" /\ order[r] = "NONE"
    /\ resv' = [resv EXCEPT ![r] = "CONFIRMED"]
    /\ \E o \in OrderStatus \ {"NONE"} : order' = [order EXCEPT ![r] = o]

\* The background only ever hands an unfinished order to a human.
Escalate(r) ==
    /\ order[r] = "PENDING_FULFILMENT"
    /\ order' = [order EXCEPT ![r] = "NEEDS_RESOLUTION"]
    /\ UNCHANGED resv

Next ==
    \/ \E r \in Resv : \/ Begin(r) \/ Settle(r) \/ Claim(r) \/ Cancel(r)
                       \/ Fulfil(r) \/ Escalate(r)
    \/ \E S \in SUBSET Resv : Expire(S)

Spec == Init /\ [][Next]_vars
=============================================================================
