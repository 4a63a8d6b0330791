SPECIFICATION OneGroupSpec
CONSTANTS
    rm = rm  rp = rp  tm = tm  tp = tp  tq = tq  qm = qm  cm = cm  fm = fm  fp = fp
    None = None
    After <- MCAfter
    Delivery <- MCDelivery
    Kind <- MCKind
    Notes = {rm, rp, tm, tp, tq, qm, cm, fm, fp}
    Refusals <- MCRefusals
    MaxAttempts = 2
    MaxCrashes = 2
CHECK_DEADLOCK FALSE
INVARIANTS TypeOK AtMostOnce StartNotBurnt
PROPERTY ImplementsSender
