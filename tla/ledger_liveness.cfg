SPECIFICATION FairSpec
CONSTANTS
    t1 = t1  e1 = e1  e2 = e2  o1 = o1  o2 = o2  k1 = k1  k2 = k2
    Tasks = {t1}
    Executions = {e1, e2}
    Operations = {}
    Keys = {k1, k2}
    KeySets <- BothKeys
    TaskOf <- MCTaskOf
    ExecOf <- MCExecOf
    Nobody = Nobody
    FeedbackKinds = {"owner"}
    Controls = {}
    Faults = {"execution"}
    MaxRevision = 1
    MaxContext = 0
    MaxTurns = 1
    MaxRuns = 2
    MaxInputs = 1
    MaxCrashes = 1
CHECK_DEADLOCK FALSE
PROPERTIES ContendersProceed ImplementsLeases
