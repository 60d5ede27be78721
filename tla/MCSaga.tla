------------------------------- MODULE MCSaga -------------------------------
(* Carts that compete for one row of the shop; one of them asks two        *)
(* providers too, one of which offers `unconfirm`, and that one twice.      *)
EXTENDS ReservationProperties, TLC

CONSTANTS r1, r2, r3, i, e, f

MCResv   == {r1, r2, r3}
MCKeyOf  == r1 :> "k1" @@ r2 :> "k2" @@ r3 :> "k3"
MCSku    == {i, e, f}
MCKind   == i :> "internal" @@ e :> "external" @@ f :> "external"
MCOnHand == i :> 3 @@ e :> 0 @@ f :> 0
MCUnconfirm == {e}

Item(k, n) == [sku |-> k, qty |-> n]
MCCart == r1 :> <<Item(i, 2)>> @@ r2 :> <<Item(e, 1), Item(i, 1), Item(e, 2), Item(f, 1)>>
            @@ r3 :> <<Item(i, 1)>>
=============================================================================
