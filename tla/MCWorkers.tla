----------------------------- MODULE MCWorkers ------------------------------
(* One cart that mixes a line of the shop's own with two providers, asks    *)
(* one of them twice for one sku, and is followed to its end; one that asks *)
(* for more than there is; and two workers.                                 *)
EXTENDS ReservationWorkers, TLC

CONSTANTS r1, r2, i, e, f, w1, w2

MCResv   == {r1, r2}
MCKeyOf  == r1 :> "k1" @@ r2 :> "k2"
MCSku    == {i, e, f}
MCKind   == i :> "internal" @@ e :> "external" @@ f :> "external"
MCOnHand == i :> 2 @@ e :> 0 @@ f :> 0
MCUnconfirm == {e}
MCPool   == {w1, w2}

Item(k, n) == [sku |-> k, qty |-> n]
MCCart == r1 :> <<Item(e, 1), Item(i, 2), Item(e, 2), Item(f, 1)>> @@ r2 :> <<Item(i, 3)>>
=============================================================================
