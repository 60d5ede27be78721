CONSTANTS
    r1 = r1
    r2 = r2
    i = i
    e = e
    f = f
    w1 = w1
    w2 = w2
    Resv <- MCResv
    KeyOf <- MCKeyOf
    Sku <- MCSku
    Kind <- MCKind
    CanUnconfirm <- MCUnconfirm
    OnHand <- MCOnHand
    Cart <- MCCart
    Pool <- MCPool
SPECIFICATION WorkersFairSpec
INVARIANT AnswersStand
PROPERTIES ServiceSpec GivenUpHoldsEnd DueIsDecided FulfilmentSettles
CHECK_DEADLOCK FALSE
