------------------------------ MODULE MCStock -------------------------------
(* Three clients and two local rows: an internal one that is too small for  *)
(* all, a soft one; two requests carry the same idempotency key.            *)
EXTENDS ReservationProperties, TLC

CONSTANTS r1, r2, r3, r4, i, s

MCResv   == {r1, r2, r3, r4}
MCKeyOf  == r1 :> "k1" @@ r2 :> "k2" @@ r3 :> "k1" @@ r4 :> "k4"
MCSku    == {i, s}
MCKind   == i :> "internal" @@ s :> "soft"
MCOnHand == i :> 3 @@ s :> 1
MCUnconfirm == {}

Item(k, n) == [sku |-> k, qty |-> n]
MCCart == r1 :> <<Item(i, 1), Item(i, 1)>> @@ r2 :> <<Item(i, 2), Item(s, 1)>>
            @@ r3 :> <<Item(i, 1)>> @@ r4 :> <<Item(s, 1), Item(i, 1)>>
=============================================================================
