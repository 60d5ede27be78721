CONSTANTS
    r1 = r1
    r2 = r2
    r3 = r3
    e = e
    i = i
    f = f
    Resv <- MCResv
    KeyOf <- MCKeyOf
    Sku <- MCSku
    Kind <- MCKind
    CanUnconfirm <- MCUnconfirm
    OnHand <- MCOnHand
    Cart <- MCCart
SPECIFICATION Spec
INVARIANTS StockBounds BackedUnlessDisputed OversellBounded SoldOnce OrderHonest ForwardDriven NoUntrackedHold ConfirmedOnlyIfClaimed ReleasedOnlyIfGivenUp
PROPERTIES LifecycleSpec NeverTakenBack
CHECK_DEADLOCK FALSE
