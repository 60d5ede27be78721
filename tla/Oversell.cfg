CONSTANTS
    r1 = r1
    r2 = r2
    r3 = r3
    i = i
    s = s
    e = e
    f = f
    Sku <- MCSku
    Kind <- MCKind
    CanUnconfirm <- MCUnconfirm
    OnHand <- MCOnHand
    Resv <- ThreeResv
    KeyOf <- ThreeKeys
    Cart <- Contended
SPECIFICATION Spec
INVARIANT NoOversell
CHECK_DEADLOCK FALSE
