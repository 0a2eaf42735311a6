CONSTANTS
    t1 = t1  t2 = t2
    a1 = a1  a2 = a2  d1 = d1
    imp1 = imp1
    Threads = {t1, t2}
    Ads = {a1}
    Imps = {imp1}
    Deals = {}
    Prices = {5}
    MaxCopies = 2
    ImpOf <- OneImp
    FixPrice <- FixImp
SPECIFICATION Spec
SYMMETRY Symmetry
CHECK_DEADLOCK FALSE
INVARIANTS TypeOK ValidOnceIfSerial ClickNeedsShow ValidIsHandledOnce ChargedPriceWasWon
PROPERTY BitsStayIfSerial
