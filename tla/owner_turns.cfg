SPECIFICATION FairSpec
CONSTANTS
    m1 = m1  s1 = s1  s2 = s2
    Messages = {m1}
    Sources = {s1, s2}
    Audiences = {"operator", "group", "executions"}
    Retries = 2
    Faults = TRUE
    MaxQuestions = 1
    MaxOutside = 2
CHECK_DEADLOCK FALSE
INVARIANTS TypeOK RetryBounded CandidateKept
PROPERTIES DialogueReplied CandidateReviewed AnswerResumes
