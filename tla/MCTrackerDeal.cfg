CONSTANTS
    t1 = t1  t2 = t2
    a1 = a1  a2 = a2  d1 = d1
    imp1 = imp1
    Threads = {t1}
    Ads = {a1, d1}
    Imps = {imp1}
    Deals = {d1}
    Prices = {3, 5}
    MaxCopies = 1
    ImpOf <- OneImp
    FixPrice <- FixImp
SPECIFICATION Spec
CHECK_DEADLOCK FALSE
INVARIANT ChargedPriceWasWon
