SPECIFICATION LivenessSpec
CONSTANTS
    m1 = m1  m2 = m2  a1 = a1  f1 = f1
    Messages = {m1, m2}
    Facts = {}
    Arrangements = {}
    None = None
    OwnMessages = {}
    Faults = {"apply", "turn"}
    MaxVersion = 2
    MaxOps = 4
    MaxDecisions = 4
    MaxPrereq = 2
    MaxCrashes = 1
CHECK_DEADLOCK FALSE
PROPERTY SourceSettles
