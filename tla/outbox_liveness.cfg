SPECIFICATION FaultsApartSpec
CONSTANTS
    rm = rm  rp = rp  tm = tm  tp = tp  tq = tq  qm = qm  cm = cm  fm = fm  fp = fp
    None = None
    After <- MCAfter
    Delivery <- MCDelivery
    Kind <- MCKind
    Notes = {rm, rp}
    Refusals <- MCRefusals
    MaxAttempts = 3
    MaxCrashes = 1
CHECK_DEADLOCK FALSE
PROPERTIES SendSettles DeliveryConfirmed
