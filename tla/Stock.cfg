CONSTANTS
    r1 = r1
    r2 = r2
    r3 = r3
    r4 = r4
    i = i
    s = s
    Resv <- MCResv
    KeyOf <- MCKeyOf
    Sku <- MCSku
    Kind <- MCKind
    CanUnconfirm <- MCUnconfirm
    OnHand <- MCOnHand
    Cart <- MCCart
SPECIFICATION Spec
INVARIANTS TypeOK StockBacked NoOversell
PROPERTY LifecycleSpec
CHECK_DEADLOCK FALSE
