SPECIFICATION SafetySpec
CONSTANTS
    m1 = m1  m2 = m2  a1 = a1  f1 = f1
    Messages = {m1, m2}
    Facts = {f1}
    Arrangements = {a1}
    None = None
    OwnMessages = {m1}
    Faults = {"triage", "reply", "apply", "turn"}
    MaxVersion = 2
    MaxOps = 3
    MaxDecisions = 4
    MaxPrereq = 2
    MaxCrashes = 1
CHECK_DEADLOCK FALSE
INVARIANTS TypeOK RecordsAgree ArrangedOnce RoutedIsDone
PROPERTY ImplementsInbox
