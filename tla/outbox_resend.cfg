SPECIFICATION Spec
CONSTANTS
    rm = rm  rp = rp  tm = tm  tp = tp  tq = tq  qm = qm  cm = cm  fm = fm  fp = fp
    None = None
    After <- MCAfter
    Delivery <- MCDelivery
    Kind <- MCKind
    Notes = {rm}
    Refusals <- MarkedRefusals
    MaxAttempts = 3
    MaxCrashes = 1
CHECK_DEADLOCK FALSE
INVARIANT AtMostOnce
