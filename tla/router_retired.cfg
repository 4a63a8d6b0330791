SPECIFICATION FairSpec
CONSTANTS
    m1 = m1  m2 = m2  a1 = a1  f1 = f1
    Messages = {m1}
    Facts = {}
    Arrangements = {}
    None = None
    OwnMessages = {m1}
    Faults = {}
    MaxVersion = 1
    MaxOps = 1
    MaxDecisions = 1
    MaxPrereq = 1
    MaxCrashes = 0
CHECK_DEADLOCK FALSE
PROPERTY BarrierLifts
