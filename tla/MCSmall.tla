------------------------------ MODULE MCSmall -------------------------------
(* The smallest carts for what the code does not keep.                      *)
EXTENDS ReservationProperties, TLC

CONSTANTS r1, r2, r3, i, s, e, f

MCSku    == {i, s, e, f}
MCKind   == i :> "internal" @@ s :> "soft" @@ e :> "external" @@ f :> "external"
MCOnHand == i :> 2 @@ s :> 1 @@ e :> 0 @@ f :> 0
MCUnconfirm == {e}

OneResv   == {r1}
OneKey    == r1 :> "k1"
ThreeResv == {r1, r2, r3}
ThreeKeys == r1 :> "k1" @@ r2 :> "k2" @@ r3 :> "k3"

Item(k, n) == [sku |-> k, qty |-> n]
Twice    == r1 :> <<Item(e, 1), Item(e, 1)>>
External == r1 :> <<Item(e, 1)>>
SoftOnly == r1 :> <<Item(s, 1)>>
Contended == r1 :> <<Item(i, 1), Item(e, 1)>> @@ r2 :> <<Item(i, 1)>> @@ r3 :> <<Item(i, 1)>>
=============================================================================
