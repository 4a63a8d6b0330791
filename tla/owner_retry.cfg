SPECIFICATION Spec
CONSTANTS
    m1 = m1  s1 = s1  s2 = s2
    Messages = {m1}
    Sources = {s1}
    Audiences = {"group"}
    Retries = 2
    Faults = FALSE
    MaxQuestions = 1
    MaxOutside = 0
CHECK_DEADLOCK FALSE
INVARIANT SuspendedMeansExhausted
