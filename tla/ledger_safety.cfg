SPECIFICATION SafetySpec
CONSTANTS
    t1 = t1  e1 = e1  e2 = e2  o1 = o1  o2 = o2  k1 = k1  k2 = k2
    Tasks = {t1}
    Executions = {e1, e2}
    Operations = {o1, o2}
    Keys = {k1}
    KeySets <- AnyKeys
    TaskOf <- MCTaskOf
    ExecOf <- MCExecOf
    Nobody = Nobody
    FeedbackKinds = {"owner", "peer"}
    Controls = {"cancelled", "active", "paused"}
    Faults = {"owner", "execution"}
    MaxRevision = 3
    MaxContext = 1
    MaxTurns = 3
    MaxRuns = 2
    MaxInputs = 2
    MaxCrashes = 1
CONSTRAINT Within
CHECK_DEADLOCK FALSE
INVARIANTS TypeOK RestartAdmissible EffectsUnderLock CompletionQuiescent NoLostResult GateReadOnly
PROPERTIES DispatchedOnce ImplementsLeases
