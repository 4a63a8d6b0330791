-------------------------- MODULE OwnerTurnsProofs --------------------------
(* Proofs about OwnerTurns, for any messages, sources and number of delays.  *)
EXTENDS OwnerTurns, TLAPS

-----------------------------------------------------------------------------
(* The inductive invariants.                                                 *)

\* a retry that is scheduled has admitted fewer turns than the provider has failed
RetryInv ==
    /\ retry.attempts = 0 => tries = 0
    /\ retry.next # "none" => tries < retry.attempts /\ retry.attempts <= Retries
    /\ tries <= retry.attempts
    /\ tries <= Retries

Pending(s) == review[s] \in {"candidate", "failed"}

TaskWide == Waiting /\ question.audience # "executions"

\* only the turn holds claimed wakes, and a dialogue turn holds nothing else than dialogue
ClaimsOK ==
    /\ intent # "none" => turn.kind = "none"
    /\ turn.kind = "none" => \A w \in wake : ~w.claimed
    /\ turn.kind = "dialogue" => \A w \in wake : w.claimed => w.kind = "dialogue"

\* no ordinary turn decides while the task as a whole waits
OrdinaryOK == turn.kind = "ordinary" /\ turn.phase = "running" => ~TaskWide

\* a question whose notice failed is the operator's, and no group message waits for it
AskedOK == AskedInVain /\ Waiting => question.audience = "operator" /\ \A s \in Sources : ~Pending(s)

\* a review has something to judge that did not fail before
ReviewOK ==
    turn.kind = "review" /\ turn.phase = "running" /\ Waiting =>
        \E w \in wake : w.claimed /\ w \in Candidates(wake) /\ w.of \notin question.failed

RepliedOK == \A s \in question.replied : s \in refs /\ review[s] = "judged"

SourcesOK == \A w \in wake : w.kind = "review" => w.of \subseteq refs

\* the wake of a candidate survives the ack of the turn
Survives(w) ==
    \/ ~w.claimed \/ turn.phase # "submitted"
    \/ turn.kind = "review" /\ turn.replied # {} /\ w.of \ question.replied # {}

Carries(w, s) == w.kind = "review" /\ w.question = question.n /\ s \in w.of

KeptOK == TaskWide => \A s \in Sources : Pending(s) => \E w \in wake : Carries(w, s) /\ Survives(w)

KeptInv == ClaimsOK /\ OrdinaryOK /\ AskedOK /\ ReviewOK /\ RepliedOK /\ SourcesOK /\ KeptOK

-----------------------------------------------------------------------------
(* Types.                                                                    *)

LEMMA WakeType ==
    ASSUME NEW kind \in {"work", "answer", "dialogue", "review"}, NEW n \in Nat,
           NEW of \in SUBSET (Messages \cup Sources)
    PROVE  /\ Wake(kind, n, of) \in WakeRow /\ ~Wake(kind, n, of).claimed
           /\ [Wake(kind, n, of) EXCEPT !.claimed = TRUE] \in WakeRow
           /\ Work \in WakeRow /\ ~Work.claimed /\ Work.kind = "work"
BY DEF Wake, Work, WakeRow

LEMMA NullTypes ==
    /\ NoRetry \in RetryRow /\ NoRetry.attempts = 0 /\ NoRetry.next = "none"
    /\ NoTurn \in TurnRow /\ NoTurn.kind = "none"
    /\ NoQuestion \in QuestionRow
BY DEF NoRetry, RetryRow, NoTurn, TurnRow, NoQuestion, QuestionRow

LEMMA QuestionFields ==
    ASSUME TypeOK
    PROVE  /\ question.n \in Nat /\ question.replied \in SUBSET Sources
           /\ question.audience \in Audiences \cup {"none"}
BY DEF TypeOK, QuestionRow

LEMMA WakeFields ==
    ASSUME TypeOK, NEW w \in wake
    PROVE  /\ w \in WakeRow /\ w.of \in SUBSET (Messages \cup Sources) /\ w.claimed \in BOOLEAN
           /\ w.kind \in {"work", "answer", "dialogue", "review"} /\ w.question \in Nat
           /\ \A b \in BOOLEAN : /\ [w EXCEPT !.claimed = b] \in WakeRow
                                 /\ [w EXCEPT !.claimed = b].claimed = b
                                 /\ [w EXCEPT !.claimed = b].kind = w.kind
                                 /\ [w EXCEPT !.claimed = b].question = w.question
                                 /\ [w EXCEPT !.claimed = b].of = w.of
BY DEF TypeOK, WakeRow

LEMMA TaskFields ==
    ASSUME TypeOK
    PROVE  /\ task.req \in Nat /\ task.ctx \in Nat
           /\ [task EXCEPT !.ctx = @ + 1] \in TaskRow
           /\ [task EXCEPT !.req = @ + 1] \in TaskRow
           /\ [task EXCEPT !.req = @ + 1, !.status = "active"] \in TaskRow
           /\ \A st \in {"completed", "cancelled"} : [task EXCEPT !.status = st] \in TaskRow
           /\ [task EXCEPT !.drained = FALSE, !.recovering = FALSE] \in TaskRow
           /\ [task EXCEPT !.drained = TRUE, !.recovering = FALSE] \in TaskRow
           /\ [task EXCEPT !.recovering = ~task.drained] \in TaskRow
<1>1. task \in TaskRow
    BY DEF TypeOK
<1>2. /\ task.req \in Nat /\ task.ctx \in Nat /\ task.drained \in BOOLEAN
      /\ [task EXCEPT !.ctx = @ + 1] \in TaskRow
    BY <1>1 DEF TaskRow
<1>3. [task EXCEPT !.req = @ + 1] \in TaskRow
    BY <1>1 DEF TaskRow
<1>4. [task EXCEPT !.req = @ + 1, !.status = "active"] \in TaskRow
  <2>1. [task EXCEPT !.req = @ + 1, !.status = "active"] = [[task EXCEPT !.req = @ + 1] EXCEPT !.status = "active"]
    BY <1>1 DEF TaskRow
  <2> QED
    BY <1>3, <2>1 DEF TaskRow
<1>5. \A st \in {"completed", "cancelled"} : [task EXCEPT !.status = st] \in TaskRow
    BY <1>1 DEF TaskRow
<1>6. /\ [task EXCEPT !.drained = FALSE, !.recovering = FALSE] \in TaskRow
      /\ [task EXCEPT !.drained = TRUE, !.recovering = FALSE] \in TaskRow
    BY <1>1 DEF TaskRow
<1>7. [task EXCEPT !.recovering = ~task.drained] \in TaskRow
    BY <1>1, <1>2 DEF TaskRow
<1> QED
    BY <1>2, <1>3, <1>4, <1>5, <1>6, <1>7

LEMMA UnclaimedType ==
    ASSUME TypeOK, NEW v \in Unclaimed
    PROVE  v \in WakeRow /\ ~v.claimed
<1>1. PICK w \in wake : v = [w EXCEPT !.claimed = FALSE]
    BY DEF Unclaimed
<1>2. v \in WakeRow /\ v.claimed = FALSE
    BY <1>1, WakeFields
<1> QED
    BY <1>2

\* a claim marks the wakes it takes and changes nothing else of them
LEMMA ClaimMarks ==
    ASSUME TypeOK, NEW W \in SUBSET wake,
           wake' = (wake \ W) \cup {[w EXCEPT !.claimed = TRUE] : w \in W}
    PROVE  /\ wake' \subseteq WakeRow
           /\ \A v \in wake' : v \in wake \/ \E w \in W : v = [w EXCEPT !.claimed = TRUE]
<1>1. ASSUME NEW v \in wake' PROVE v \in wake \/ \E w \in W : v = [w EXCEPT !.claimed = TRUE]
    BY <1>1
<1>2. ASSUME NEW v \in wake' PROVE v \in WakeRow
  <2>1. CASE v \in wake
    BY <2>1 DEF TypeOK
  <2>2. ASSUME NEW w \in W, v = [w EXCEPT !.claimed = TRUE] PROVE v \in WakeRow
    BY <2>2, WakeFields
  <2> QED
    BY <1>1, <1>2, <2>1, <2>2
<1> QED
    BY <1>1, <1>2

LEMMA ClaimsAreWakes ==
    ASSUME NEW kind \in TurnKinds, NEW W \in Claims(kind)
    PROVE  W \in SUBSET wake
BY DEF Claims, TurnKinds, pendingTaskHumanReview, Candidates

LEMMA SupersedeType ==
    ASSUME TypeOK, NEW row, Supersede(row), task' \in TaskRow
    PROVE  TypeOK'
<1>1. wake' \subseteq WakeRow
    BY WakeType DEF Supersede, TypeOK
<1>2. question' \in QuestionRow
    BY DEF Supersede, TypeOK, QuestionRow
<1>3. tries' \in Nat /\ outside' \in Nat
    BY DEF Supersede, TypeOK, Outside
<1> QED
    BY <1>1, <1>2, <1>3 DEF Supersede, TypeOK

LEMMA TypeInit == Init => TypeOK
<1> SUFFICES ASSUME Init PROVE TypeOK
    OBVIOUS
<1>1. task \in TaskRow
    BY DEF Init, TaskRow
<1>2. wake \subseteq WakeRow
    BY WakeType DEF Init
<1> QED
    BY <1>1, <1>2, NullTypes DEF Init, TypeOK

LEMMA TypeStep == TypeOK /\ [Next]_vars => TypeOK'
<1> SUFFICES ASSUME TypeOK, [Next]_vars PROVE TypeOK'
    OBVIOUS
<1> USE WakeType, NullTypes, QuestionFields
<1>1. CASE TaskWake
    BY <1>1 DEF TaskWake, TypeOK
<1>2. ASSUME NEW m \in Messages, DialogueAdd(m) PROVE TypeOK'
  <2>1. Wake("dialogue", 0, {m}) \in WakeRow
    BY {m} \in SUBSET (Messages \cup Sources), 0 \in Nat, "dialogue" \in {"work", "answer", "dialogue", "review"}, WakeType
  <2>2. wake' \subseteq WakeRow
    BY <1>2, <2>1 DEF DialogueAdd, TypeOK
  <2> QED
    BY <1>2, <2>2 DEF DialogueAdd, TypeOK
<1>3. ASSUME NEW S \in SUBSET Sources, TaskSupplement(S) PROVE TypeOK'
  <2>1. wake' \subseteq WakeRow
    BY <1>3 DEF TaskSupplement, TypeOK
  <2>2. review' \in [Sources -> {"no", "candidate", "failed", "judged"}]
    BY <1>3 DEF TaskSupplement, TypeOK
  <2>3. task' \in TaskRow /\ refs' \subseteq Sources /\ outside' \in Nat
    BY <1>3, TaskFields DEF TaskSupplement, TypeOK, Outside
  <2> QED
    BY <1>3, <2>1, <2>2, <2>3 DEF TaskSupplement, TypeOK
<1>4. CASE TaskRevise
  <2>1. task' \in TaskRow
    BY <1>4, TaskFields DEF TaskRevise, Supersede
  <2> QED
    BY <1>4, <2>1, SupersedeType DEF TaskRevise
<1>5. CASE TaskReopen
  <2>1. task' \in TaskRow
    BY <1>5, TaskFields DEF TaskReopen, Supersede
  <2> QED
    BY <1>5, <2>1, SupersedeType DEF TaskReopen
<1>6. CASE TaskCancel
  <2>1. task' \in TaskRow
    BY <1>6, TaskFields DEF TaskCancel, Supersede
  <2> QED
    BY <1>6, <2>1, SupersedeType DEF TaskCancel
<1>7. CASE HumanRespond
    BY <1>7, ZenonT(30) DEF HumanRespond, TypeOK, Answer, QuestionRow
<1>8. ASSUME NEW kind \in TurnKinds, KickTask(kind) PROVE TypeOK'
    BY <1>8 DEF KickTask, TypeOK
<1>9. CASE TaskClaim
  <2>1. intent \in TurnKinds
    BY <1>9 DEF TaskClaim, TypeOK
  <2>2. PICK W \in Claims(intent) : wake' = (wake \ W) \cup {[w EXCEPT !.claimed = TRUE] : w \in W}
    BY <1>9 DEF TaskClaim
  <2>3. wake' \subseteq WakeRow
    BY <2>1, <2>2, ClaimsAreWakes, ClaimMarks
  <2>4. task' \in TaskRow /\ turn' \in TurnRow
    BY <1>9, <2>1, TaskFields DEF TaskClaim, TurnRow
  <2>5. retry' \in RetryRow /\ (retry'.attempts = 0 => retry' = NoRetry)
    BY <1>9, TaskFields DEF TaskClaim, Consume, TypeOK, RetryRow
  <2>6. tries' \in Nat
    BY <1>9 DEF TaskClaim, TypeOK
  <2> QED
    BY <1>9, <2>3, <2>4, <2>5, <2>6 DEF TaskClaim, TypeOK
<1>10. CASE ClaimRefused
    BY <1>10 DEF ClaimRefused, TypeOK
<1>11. ASSUME NEW m \in Messages, DialogueReply(m) PROVE TypeOK'
    BY <1>11 DEF DialogueReply, TypeOK, Submit, TurnRow
<1>12. CASE TaskWait
    BY <1>12 DEF TaskWait, TypeOK, Decided, Submit, TurnRow
<1>13. ASSUME NEW a \in Audiences, TaskAsk(a) PROVE TypeOK'
  <2>1. question' = [n |-> question.n + 1, state |-> "waiting", audience |-> a, replied |-> {}, failed |-> {}]
    BY <1>13 DEF TaskAsk, NoQuestion
  <2>3. question' \in QuestionRow
    BY <2>1 DEF QuestionRow
  <2>2. turn' \in TurnRow
    BY <1>13 DEF TaskAsk, Submit, TypeOK, TurnRow
  <2> QED
    BY <1>13, <2>2, <2>3 DEF TaskAsk, Decided, TypeOK
<1>14. CASE TaskComplete
    BY <1>14 DEF TaskComplete, TypeOK, Decided, Submit, TurnRow, TaskRow
<1>15. ASSUME NEW s \in Sources, HumanResolve(s) PROVE TypeOK'
    BY <1>15, ZenonT(30) DEF HumanResolve, TypeOK, Answer, QuestionRow
<1>16. ASSUME NEW s \in Sources, ReviewReply(s) PROVE TypeOK'
    BY <1>16 DEF ReviewReply, TypeOK, Decided, TurnRow, QuestionRow
<1>17. CASE ReviewWait
    BY <1>17 DEF ReviewWait, TypeOK, Decided, Submit, TurnRow
<1>18. CASE ReviewFailed
    BY <1>18, WakeFields DEF ReviewFailed, TypeOK, Claimed, TurnRow, QuestionRow
<1>19. CASE ProviderFailure
    BY <1>19 DEF ProviderFailure, TypeOK, NextAttempt, RetryRow, TurnRow
<1>20. CASE WakeAck
    BY <1>20, WakeFields DEF WakeAck, TypeOK, Claimed, KeptAfterReply, TurnRow
<1>21. CASE TaskDrained
    BY <1>21, UnclaimedType, TaskFields DEF TaskDrained, TypeOK
<1>22. CASE RetryDue
    BY <1>22 DEF RetryDue, TypeOK, RetryRow, NoRetry
<1>23. CASE Crash
    BY <1>23, UnclaimedType, TaskFields DEF Crash, TypeOK, Outside
<1>24. CASE RecoverTask
    BY <1>24 DEF RecoverTask, TypeOK, TaskRow
<1>25. CASE UNCHANGED vars
    BY <1>25 DEF vars, TypeOK
<1>26. CASE AskAgain
    BY <1>26 DEF AskAgain, Submit, TypeOK, TurnRow
<1> QED
    BY <1>1, <1>2, <1>3, <1>4, <1>5, <1>6, <1>7, <1>8, <1>9, <1>10, <1>11, <1>12, <1>13, <1>14, <1>15, <1>16, <1>17, <1>18, <1>19, <1>20, <1>21, <1>22, <1>23, <1>24, <1>25, <1>26
    DEF Next, Host, Turn, Environment

\* Every row is one the code can write, in every behaviour.
THEOREM TypeCorrect == Spec => []TypeOK
<1> QED
    BY TypeInit, TypeStep, PTL DEF Spec

-----------------------------------------------------------------------------
(* The retries of a provider failure are bounded.                            *)

LEMMA RetryFields ==
    ASSUME TypeOK
    PROVE  /\ retry \in RetryRow /\ retry.attempts \in Nat /\ retry.next \in {"none", "later", "due"}
           /\ tries \in Nat /\ (retry.next # "none" => retry.attempts > 0)
BY NullTypes DEF TypeOK, RetryRow

LEMMA RetryStep == TypeOK /\ RetryInv /\ [Next]_vars => RetryInv'
<1> SUFFICES ASSUME TypeOK, RetryInv, [Next]_vars PROVE RetryInv'
    OBVIOUS
<1> USE RetryFields, ConstantsAssumption
<1>1. CASE UNCHANGED <<retry, tries>>
    BY <1>1 DEF RetryInv
<1>2. CASE retry' = NoRetry /\ tries' = 0
    BY <1>2, NullTypes DEF RetryInv
<1>3. CASE retry' = retry /\ tries' = 0
    BY <1>3 DEF RetryInv
<1>4. CASE TaskClaim
  <2>1. /\ retry'.attempts = retry.attempts
        /\ retry.attempts > 0 => retry'.next = "none"
        /\ retry.attempts = 0 => retry'.next = retry.next
    BY <1>4 DEF TaskClaim, Consume, RetryRow
  <2>2. CASE retry.attempts > 0 /\ retry.req = task.req
    <3>1. retry.next = "due" /\ tries' = tries + 1
      BY <1>4, <2>2 DEF TaskClaim, Admitted, retryReady
    <3> QED
      BY <2>1, <2>2, <3>1 DEF RetryInv
  <2>3. CASE ~(retry.attempts > 0 /\ retry.req = task.req)
    <3>1. tries' = tries
      BY <1>4, <2>3 DEF TaskClaim
    <3> QED
      BY <2>1, <3>1 DEF RetryInv
  <2> QED
    BY <2>2, <2>3
<1>5. CASE ProviderFailure
  <2>1. /\ retry'.attempts = retry.attempts + 1 /\ tries' = tries
        /\ retry'.next = NextAttempt(retry.attempts + 1)
    BY <1>5 DEF ProviderFailure
  <2>2. retry'.next # "none" => retry.attempts + 1 <= Retries
    BY <2>1 DEF NextAttempt
  <2> QED
    BY <2>1, <2>2 DEF RetryInv
<1>6. CASE RetryDue
  <2>1. retry'.attempts = retry.attempts /\ tries' = tries /\ retry.next # "none"
    BY <1>6 DEF RetryDue, RetryRow
  <2> QED
    BY <2>1 DEF RetryInv
<1>7. ASSUME NEW row, Supersede(row) PROVE UNCHANGED <<retry, tries>> \/ (retry' = retry /\ tries' = 0)
    BY <1>7 DEF Supersede
<1>8. CASE TaskRevise \/ TaskReopen \/ TaskCancel
    BY <1>8, <1>7, <1>1, <1>3 DEF TaskRevise, TaskReopen, TaskCancel
<1>9. CASE \/ TaskWait \/ TaskComplete \/ ReviewWait
           \/ \E a \in Audiences : TaskAsk(a)
           \/ \E s \in Sources : ReviewReply(s)
    BY <1>9, <1>2 DEF TaskWait, TaskComplete, ReviewWait, TaskAsk, ReviewReply, Decided
<1>10. CASE \/ TaskWake \/ HumanRespond \/ Crash \/ ClaimRefused \/ RecoverTask \/ ReviewFailed \/ WakeAck \/ TaskDrained
            \/ AskAgain
            \/ \E m \in Messages : DialogueAdd(m) \/ DialogueReply(m)
            \/ \E S \in SUBSET Sources : TaskSupplement(S)
            \/ \E kind \in TurnKinds : KickTask(kind)
            \/ \E s \in Sources : HumanResolve(s)
    BY <1>10, <1>1 DEF TaskWake, HumanRespond, Crash, ClaimRefused, RecoverTask, ReviewFailed, WakeAck, TaskDrained,
                       AskAgain, DialogueAdd, DialogueReply, TaskSupplement, KickTask, HumanResolve
<1>11. CASE UNCHANGED vars
    BY <1>11, <1>1 DEF vars
<1> QED
    BY <1>4, <1>5, <1>6, <1>8, <1>9, <1>10, <1>11 DEF Next, Host, Turn, Environment

\* From the first provider failure to the next decision on the same requirement, the
\* retry admits at most as many turns as it has delays, however those turns end.
THEOREM RetriesBounded == Spec => []RetryBounded
<1>1. Init => RetryInv
    BY NullTypes, ConstantsAssumption DEF Init, RetryInv, NoRetry
<1>2. RetryInv => RetryBounded
    BY DEF RetryInv, RetryBounded
<1> QED
    BY <1>1, <1>2, RetryStep, TypeCorrect, PTL DEF Spec

-----------------------------------------------------------------------------
(* The candidates of a task-wide question stay in the queue.                 *)

\* the wakes other actors leave behind are new ones, which no turn has claimed
Arrivals == \A v \in wake' : v \in wake \/ (~v.claimed /\ (v.kind = "review" => v.of \subseteq refs'))

LEMMA Arriving ==
    ASSUME TypeOK, NEW kind \in {"work", "answer", "dialogue", "review"}, NEW n \in Nat,
           NEW of \in SUBSET (Messages \cup Sources)
    PROVE  /\ ~Wake(kind, n, of).claimed /\ Wake(kind, n, of).kind = kind
           /\ Wake(kind, n, of).question = n /\ Wake(kind, n, of).of = of
BY DEF Wake

LEMMA OutsideArrivals ==
    ASSUME TypeOK,
           \/ TaskWake \/ TaskRevise \/ TaskReopen \/ TaskCancel \/ HumanRespond
           \/ \E m \in Messages : DialogueAdd(m)
           \/ \E S \in SUBSET Sources : TaskSupplement(S)
           \/ \E s \in Sources : HumanResolve(s)
    PROVE  Arrivals /\ wake \subseteq wake' /\ UNCHANGED <<turn, intent>>
<1> USE QuestionFields
<1>1. ~Work.claimed /\ Work.kind = "work"
    BY WakeType, QuestionFields
<1>2. ~Wake("answer", question.n, {}).claimed /\ Wake("answer", question.n, {}).kind = "answer"
    BY Arriving
<1>3. CASE TaskWake \/ TaskRevise \/ TaskReopen \/ TaskCancel
    BY <1>1, <1>3 DEF TaskWake, TaskRevise, TaskReopen, TaskCancel, Supersede, Arrivals
<1>4. CASE HumanRespond \/ \E s \in Sources : HumanResolve(s)
    BY <1>2, <1>4 DEF HumanRespond, HumanResolve, Answer, Arrivals
<1>5. ASSUME NEW m \in Messages, DialogueAdd(m) PROVE Arrivals /\ wake \subseteq wake' /\ UNCHANGED <<turn, intent>>
  <2>1. ~Wake("dialogue", 0, {m}).claimed /\ Wake("dialogue", 0, {m}).kind = "dialogue"
    BY {m} \in SUBSET (Messages \cup Sources), Arriving
  <2> QED
    BY <1>5, <2>1 DEF DialogueAdd, Arrivals
<1>6. ASSUME NEW S \in SUBSET Sources, TaskSupplement(S) PROVE Arrivals /\ wake \subseteq wake' /\ UNCHANGED <<turn, intent>>
  <2>1. /\ ~Wake("review", question.n, S).claimed /\ Wake("review", question.n, S).kind = "review"
        /\ Wake("review", question.n, S).of = S
    BY Arriving
  <2> QED
    BY <1>1, <1>6, <2>1 DEF TaskSupplement, Arrivals
<1> QED
    BY <1>3, <1>4, <1>5, <1>6

\* what a turn and the host do with the queue, claims and finalizers apart, takes wakes out
LEMMA TurnDepartures ==
    ASSUME TypeOK,
           \/ TaskWait \/ TaskComplete \/ ReviewWait \/ ReviewFailed \/ ProviderFailure \/ WakeAck
           \/ RetryDue \/ RecoverTask \/ AskAgain
           \/ \E m \in Messages : DialogueReply(m)
           \/ \E a \in Audiences : TaskAsk(a)
           \/ \E s \in Sources : ReviewReply(s)
    PROVE  wake' \subseteq wake /\ turn'.kind = turn.kind /\ intent' = intent
<1>1. turn \in TurnRow
    BY DEF TypeOK
<1>2. CASE TaskWait \/ TaskComplete \/ ReviewWait \/ ReviewFailed \/ ProviderFailure \/ RetryDue \/ RecoverTask \/ AskAgain
    BY <1>1, <1>2 DEF TaskWait, TaskComplete, ReviewWait, ReviewFailed, ProviderFailure, RetryDue, RecoverTask,
                      AskAgain, Submit, TurnRow
<1>3. CASE WakeAck
    BY <1>1, <1>3 DEF WakeAck, Claimed, KeptAfterReply, TurnRow
<1>4. CASE \/ \E m \in Messages : DialogueReply(m)
           \/ \E a \in Audiences : TaskAsk(a)
           \/ \E s \in Sources : ReviewReply(s)
    BY <1>1, <1>4 DEF DialogueReply, TaskAsk, ReviewReply, Submit, TurnRow
<1> QED
    BY <1>2, <1>3, <1>4

LEMMA ClaimsStep == TypeOK /\ ClaimsOK /\ [Next]_vars => ClaimsOK'
<1> SUFFICES ASSUME TypeOK, ClaimsOK, [Next]_vars PROVE ClaimsOK'
    OBVIOUS
<1>1. CASE \/ TaskWake \/ TaskRevise \/ TaskReopen \/ TaskCancel \/ HumanRespond
           \/ \E m \in Messages : DialogueAdd(m)
           \/ \E S \in SUBSET Sources : TaskSupplement(S)
           \/ \E s \in Sources : HumanResolve(s)
    BY <1>1, OutsideArrivals DEF Arrivals, ClaimsOK
<1>2. CASE \/ TaskWait \/ TaskComplete \/ ReviewWait \/ ReviewFailed \/ ProviderFailure \/ WakeAck
           \/ RetryDue \/ RecoverTask \/ AskAgain
           \/ \E m \in Messages : DialogueReply(m)
           \/ \E a \in Audiences : TaskAsk(a)
           \/ \E s \in Sources : ReviewReply(s)
    BY <1>2, TurnDepartures DEF ClaimsOK
<1>3. CASE ClaimRefused \/ \E kind \in TurnKinds : KickTask(kind)
    BY <1>3 DEF ClaimRefused, KickTask, ClaimsOK
<1>4. CASE TaskClaim
  <2>1. intent \in TurnKinds /\ turn.kind = "none" /\ turn'.kind = intent /\ intent' = "none"
    BY <1>4 DEF TaskClaim, TypeOK, ClaimsOK
  <2>2. PICK W \in Claims(intent) : wake' = (wake \ W) \cup {[w EXCEPT !.claimed = TRUE] : w \in W}
    BY <1>4 DEF TaskClaim
  <2>3. W \in SUBSET wake
    BY <2>1, ClaimsAreWakes
  <2>4. ASSUME intent = "dialogue", NEW v \in wake', v.claimed PROVE v.kind = "dialogue"
    <3>1. v \in wake \/ \E w \in W : v = [w EXCEPT !.claimed = TRUE]
      BY <2>2, <2>3, ClaimMarks
    <3>2. ~(v \in wake)
      BY <2>1, <2>4 DEF ClaimsOK
    <3>3. PICK w \in W : v = [w EXCEPT !.claimed = TRUE]
      BY <3>1, <3>2
    <3>4. w.kind = "dialogue"
      BY <2>4 DEF Claims
    <3> QED
      BY <2>3, <3>3, <3>4, WakeFields
  <2>5. turn'.kind \in TurnKinds
    BY <2>1
  <2> QED
    BY <2>1, <2>4, <2>5 DEF ClaimsOK, TurnKinds
<1>5. CASE TaskDrained \/ Crash
  <2>1. wake' = Unclaimed /\ turn' = NoTurn
    BY <1>5 DEF TaskDrained, Crash
  <2> QED
    BY <2>1, UnclaimedType, NullTypes DEF ClaimsOK
<1>6. CASE UNCHANGED vars
    BY <1>6 DEF vars, ClaimsOK
<1> QED
    BY <1>1, <1>2, <1>3, <1>4, <1>5, <1>6 DEF Next, Host, Turn, Environment

\* what a claim, a drain or a crash does to a wake leaves all but its mark alone
Remarked(v, w) == v.kind = w.kind /\ v.question = w.question /\ v.of = w.of

LEMMA Remarking ==
    ASSUME TypeOK, TaskClaim \/ TaskDrained \/ Crash
    PROVE  /\ \A v \in wake' : \E w \in wake : Remarked(v, w)
           /\ \A w \in wake : \E v \in wake' : Remarked(v, w)
           /\ UNCHANGED <<question, refs, review>>
<1>1. CASE TaskClaim
  <2>1. intent \in TurnKinds
    BY <1>1 DEF TaskClaim, TypeOK
  <2>2. PICK W \in Claims(intent) : wake' = (wake \ W) \cup {[w EXCEPT !.claimed = TRUE] : w \in W}
    BY <1>1 DEF TaskClaim
  <2>3. W \in SUBSET wake
    BY <2>1, ClaimsAreWakes
  <2>4. ASSUME NEW v \in wake' PROVE \E w \in wake : Remarked(v, w)
    <3>1. v \in wake \/ \E w \in W : v = [w EXCEPT !.claimed = TRUE]
      BY <2>2, <2>3, ClaimMarks
    <3>2. CASE v \in wake
      BY <3>2 DEF Remarked
    <3>3. ASSUME NEW w \in W, v = [w EXCEPT !.claimed = TRUE] PROVE Remarked(v, w)
      BY <2>3, <3>3, WakeFields DEF Remarked
    <3> QED
      BY <2>3, <3>1, <3>2, <3>3
  <2>5. ASSUME NEW w \in wake PROVE \E v \in wake' : Remarked(v, w)
    <3>1. [w EXCEPT !.claimed = TRUE] \in wake' \/ w \in wake'
      BY <2>2
    <3> QED
      BY <3>1, WakeFields DEF Remarked
  <2> QED
    BY <1>1, <2>4, <2>5 DEF TaskClaim
<1>2. CASE TaskDrained \/ Crash
  <2>1. wake' = {[w EXCEPT !.claimed = FALSE] : w \in wake} /\ UNCHANGED <<question, refs, review>>
    BY <1>2 DEF TaskDrained, Crash, Unclaimed
  <2>2. ASSUME NEW w \in wake PROVE Remarked([w EXCEPT !.claimed = FALSE], w)
    BY WakeFields DEF Remarked
  <2> QED
    BY <2>1, <2>2
<1> QED
    BY <1>1, <1>2

LEMMA SourcesStep == TypeOK /\ SourcesOK /\ [Next]_vars => SourcesOK'
<1> SUFFICES ASSUME TypeOK, SourcesOK, [Next]_vars PROVE SourcesOK'
    OBVIOUS
<1>1. refs \subseteq refs'
    BY DEF Next, Host, Turn, Environment, TaskWake, DialogueAdd, TaskSupplement, TaskRevise, TaskReopen, TaskCancel,
           Supersede, HumanRespond, KickTask, TaskClaim, ClaimRefused, DialogueReply, TaskWait, TaskAsk, TaskComplete,
           HumanResolve, ReviewReply, ReviewWait, ReviewFailed, ProviderFailure, WakeAck, TaskDrained, RetryDue, Crash,
           RecoverTask, AskAgain, vars
<1>2. CASE \/ TaskWake \/ TaskRevise \/ TaskReopen \/ TaskCancel \/ HumanRespond
           \/ \E m \in Messages : DialogueAdd(m)
           \/ \E S \in SUBSET Sources : TaskSupplement(S)
           \/ \E s \in Sources : HumanResolve(s)
    BY <1>1, <1>2, OutsideArrivals DEF Arrivals, SourcesOK
<1>3. CASE \/ TaskWait \/ TaskComplete \/ ReviewWait \/ ReviewFailed \/ ProviderFailure \/ WakeAck
           \/ RetryDue \/ RecoverTask \/ AskAgain
           \/ \E m \in Messages : DialogueReply(m)
           \/ \E a \in Audiences : TaskAsk(a)
           \/ \E s \in Sources : ReviewReply(s)
    BY <1>1, <1>3, TurnDepartures DEF SourcesOK
<1>4. CASE TaskClaim \/ TaskDrained \/ Crash
    BY <1>4, Remarking DEF Remarked, SourcesOK
<1>5. CASE ClaimRefused \/ (\E kind \in TurnKinds : KickTask(kind)) \/ UNCHANGED vars
    BY <1>5 DEF ClaimRefused, KickTask, vars, SourcesOK
<1> QED
    BY <1>2, <1>3, <1>4, <1>5 DEF Next, Host, Turn, Environment

LEMMA ReviewedInRefs ==
    ASSUME TypeOK, SourcesOK, NEW s \in Reviewed
    PROVE  s \in refs /\ s \notin question.replied
<1> DEFINE W == pendingTaskHumanReview(Claimed)
<1>0. s \in (UNION {w.of : w \in W}) /\ s \notin question.replied
    BY DEF Reviewed, SourcesOf, W
<1> HIDE DEF W
<1>1. PICK w \in W : s \in w.of
    BY <1>0
<1>3. w \in Candidates(Claimed)
    BY <1>1 DEF W, pendingTaskHumanReview
<1>4. w \in wake /\ w.kind = "review"
    BY <1>3 DEF Candidates, Claimed
<1> QED
    BY <1>0, <1>1, <1>4 DEF SourcesOK

LEMMA RepliedStep == TypeOK /\ SourcesOK /\ RepliedOK /\ [Next]_vars => RepliedOK'
<1> SUFFICES ASSUME TypeOK, SourcesOK, RepliedOK, [Next]_vars PROVE RepliedOK'
    OBVIOUS
<1> USE DEF RepliedOK
<1>0. question \in QuestionRow /\ question.replied \subseteq Sources /\ review \in [Sources -> {"no", "candidate", "failed", "judged"}]
    BY QuestionFields DEF TypeOK
<1>1. CASE UNCHANGED <<question, refs, review>>
    BY <1>1
<1>2. ASSUME NEW S \in SUBSET Sources, TaskSupplement(S) PROVE RepliedOK'
    BY <1>0, <1>2 DEF TaskSupplement
<1>3. CASE TaskRevise \/ TaskReopen \/ TaskCancel
    BY <1>0, <1>3 DEF TaskRevise, TaskReopen, TaskCancel, Supersede, QuestionRow
<1>4. CASE HumanRespond \/ \E s \in Sources : HumanResolve(s)
    BY <1>0, <1>4 DEF HumanRespond, HumanResolve, Answer, QuestionRow
<1>5. ASSUME NEW a \in Audiences, TaskAsk(a) PROVE RepliedOK'
    BY <1>5 DEF TaskAsk, NoQuestion
<1>6. ASSUME NEW s \in Sources, ReviewReply(s) PROVE RepliedOK'
  <2>1. question'.replied = question.replied \cup {s} /\ refs' = refs /\ s \in refs
    BY <1>0, <1>6, ReviewedInRefs DEF ReviewReply, QuestionRow
  <2> QED
    BY <1>0, <1>6, <2>1 DEF ReviewReply
<1>7. CASE ReviewWait \/ ReviewFailed
    BY <1>0, <1>7 DEF ReviewWait, ReviewFailed, QuestionRow
<1>8. CASE TaskClaim \/ TaskDrained \/ Crash
    BY <1>1, <1>8, Remarking
<1>9. CASE \/ TaskWake \/ ClaimRefused \/ TaskWait \/ TaskComplete \/ ProviderFailure \/ WakeAck \/ RetryDue \/ RecoverTask
           \/ AskAgain \/ UNCHANGED vars
           \/ \E m \in Messages : DialogueAdd(m) \/ DialogueReply(m)
           \/ \E kind \in TurnKinds : KickTask(kind)
    BY <1>1, <1>9 DEF TaskWake, ClaimRefused, TaskWait, TaskComplete, ProviderFailure, WakeAck, RetryDue, RecoverTask,
                      AskAgain, vars, DialogueAdd, DialogueReply, KickTask
<1> QED
    BY <1>2, <1>3, <1>4, <1>5, <1>6, <1>7, <1>8, <1>9 DEF Next, Host, Turn, Environment

\* an open question comes from an ordinary turn and is not changed until it is closed
LEMMA QuestionStays ==
    ASSUME TypeOK, [Next]_vars, Waiting'
    PROVE  \/ \E a \in Audiences : TaskAsk(a)
           \/ /\ Waiting /\ question'.n = question.n /\ question'.audience = question.audience
              /\ question'.replied = question.replied \/ \E s \in Sources : ReviewReply(s)
              /\ question'.failed = question.failed \/ ReviewFailed
<1> USE DEF Waiting
<1>0. question \in QuestionRow
    BY DEF TypeOK
<1>1. CASE UNCHANGED question
    BY <1>1
<1>2. ASSUME NEW row, Supersede(row) PROVE FALSE
    BY <1>0, <1>2 DEF Supersede, QuestionRow
<1>3. CASE TaskRevise \/ TaskReopen \/ TaskCancel
    BY <1>2, <1>3 DEF TaskRevise, TaskReopen, TaskCancel
<1>4. CASE HumanRespond \/ \E s \in Sources : HumanResolve(s)
    BY <1>0, <1>4 DEF HumanRespond, HumanResolve, Answer, QuestionRow
<1>5. CASE \E s \in Sources : ReviewReply(s)
    BY <1>0, <1>5 DEF ReviewReply, QuestionRow
<1>6. CASE ReviewFailed
    BY <1>0, <1>6 DEF ReviewFailed, QuestionRow
<1>7. CASE \/ TaskWake \/ ClaimRefused \/ TaskWait \/ TaskComplete \/ ProviderFailure \/ WakeAck \/ RetryDue \/ RecoverTask
           \/ ReviewWait \/ TaskClaim \/ TaskDrained \/ Crash \/ AskAgain \/ UNCHANGED vars
           \/ \E m \in Messages : DialogueAdd(m) \/ DialogueReply(m)
           \/ \E S \in SUBSET Sources : TaskSupplement(S)
           \/ \E kind \in TurnKinds : KickTask(kind)
    BY <1>1, <1>7 DEF TaskWake, ClaimRefused, TaskWait, TaskComplete, ProviderFailure, WakeAck, RetryDue, RecoverTask,
                      ReviewWait, TaskClaim, TaskDrained, Crash, AskAgain, vars, DialogueAdd, DialogueReply, TaskSupplement, KickTask
<1> QED
    BY <1>3, <1>4, <1>5, <1>6, <1>7 DEF Next, Host, Turn, Environment

\* a turn runs from its claim on, and everything it sends but human.resolve ends that
LEMMA RunningStays ==
    ASSUME TypeOK, [Next]_vars, turn'.phase = "running"
    PROVE  \/ TaskClaim /\ turn'.kind = intent
           \/ /\ turn' = turn /\ wake \subseteq wake'
              /\ ~ReviewFailed /\ (\A a \in Audiences : ~TaskAsk(a)) /\ (\A s \in Sources : ~ReviewReply(s))
<1>0. turn \in TurnRow /\ NoTurn.phase # "running"
    BY DEF TypeOK, NoTurn
<1>1. CASE TaskClaim
    BY <1>1 DEF TaskClaim
<1>2. CASE \/ TaskWait \/ TaskComplete \/ ReviewWait \/ ReviewFailed \/ ProviderFailure \/ WakeAck \/ TaskDrained \/ Crash
           \/ AskAgain
           \/ \E m \in Messages : DialogueReply(m)
           \/ \E a \in Audiences : TaskAsk(a)
           \/ \E s \in Sources : ReviewReply(s)
    BY <1>0, <1>2 DEF TaskWait, TaskComplete, ReviewWait, ReviewFailed, ProviderFailure, WakeAck, TaskDrained, Crash,
                      AskAgain, DialogueReply, TaskAsk, ReviewReply, Submit, TurnRow
<1>3. ASSUME turn' = turn PROVE ~ReviewFailed /\ (\A a \in Audiences : ~TaskAsk(a)) /\ (\A s \in Sources : ~ReviewReply(s))
    BY <1>0, <1>3 DEF ReviewFailed, TaskAsk, ReviewReply, Submit, TurnRow
<1>4. CASE \/ TaskWake \/ TaskRevise \/ TaskReopen \/ TaskCancel \/ HumanRespond
           \/ \E m \in Messages : DialogueAdd(m)
           \/ \E S \in SUBSET Sources : TaskSupplement(S)
           \/ \E s \in Sources : HumanResolve(s)
    BY <1>3, <1>4, OutsideArrivals
<1>5. CASE ClaimRefused \/ RetryDue \/ RecoverTask \/ (\E kind \in TurnKinds : KickTask(kind)) \/ UNCHANGED vars
    BY <1>3, <1>5 DEF ClaimRefused, RetryDue, RecoverTask, KickTask, vars
<1> QED
    BY <1>1, <1>2, <1>4, <1>5 DEF Next, Host, Turn, Environment

\* a notice that failed: the turn asked the operator just now, or nothing of it changed since
LEMMA AskedStep == TypeOK /\ AskedOK /\ [Next]_vars => AskedOK'
<1> SUFFICES ASSUME TypeOK, AskedOK, [Next]_vars, AskedInVain', Waiting'
             PROVE  (question.audience = "operator" /\ \A s \in Sources : ~Pending(s))'
    BY DEF AskedOK
<1>0. turn \in TurnRow /\ NoTurn.phase # "asked" /\ review \in [Sources -> {"no", "candidate", "failed", "judged"}]
    BY DEF TypeOK, NoTurn
<1>1. ASSUME NEW a \in Audiences, TaskAsk(a)
      PROVE  (question.audience = "operator" /\ \A s \in Sources : ~Pending(s))'
  <2>1. a = "operator"
    BY <1>0, <1>1 DEF TaskAsk, Submit, TurnRow, AskedInVain
  <2> QED
    BY <1>1, <2>1 DEF TaskAsk, NoQuestion, Pending
<1>2. CASE turn' = turn /\ review' = review /\ \A a \in Audiences : ~TaskAsk(a)
    BY <1>2, QuestionStays DEF AskedOK, AskedInVain, Pending
<1>3. ASSUME NEW S \in SUBSET Sources, TaskSupplement(S)
      PROVE  (question.audience = "operator" /\ \A s \in Sources : ~Pending(s))'
  <2>1. question' = question /\ turn' = turn
    BY <1>3 DEF TaskSupplement
  <2>2. question.audience = "operator" /\ \A s \in Sources : ~Pending(s)
    BY <2>1 DEF AskedOK, AskedInVain, Waiting
  <2>3. review' = review
    BY <1>0, <1>3, <2>2 DEF TaskSupplement
  <2> QED
    BY <2>1, <2>2, <2>3 DEF Pending
<1>4. CASE \/ TaskWait \/ TaskComplete \/ AskAgain \/ ReviewWait \/ ReviewFailed \/ ProviderFailure \/ WakeAck
           \/ TaskDrained \/ Crash \/ TaskClaim
           \/ \E m \in Messages : DialogueReply(m)
           \/ \E s \in Sources : ReviewReply(s)
  <2>1. CASE \/ TaskWait \/ TaskComplete \/ AskAgain \/ ReviewWait \/ ReviewFailed \/ ProviderFailure \/ WakeAck
             \/ \E m \in Messages : DialogueReply(m)
             \/ \E s \in Sources : ReviewReply(s)
    <3>1. turn'.phase \in {"submitted", "failed", "acked"}
      BY <1>0, <2>1 DEF TaskWait, TaskComplete, AskAgain, ReviewWait, ReviewFailed, ProviderFailure, WakeAck,
                        DialogueReply, ReviewReply, Submit, TurnRow
    <3> QED
      BY <3>1 DEF AskedInVain
  <2>2. CASE TaskDrained \/ Crash
    BY <1>0, <2>2 DEF TaskDrained, Crash, AskedInVain
  <2>3. CASE TaskClaim
    BY <2>3 DEF TaskClaim, AskedInVain
  <2> QED
    BY <1>4, <2>1, <2>2, <2>3
<1>5. CASE \/ TaskWake \/ TaskRevise \/ TaskReopen \/ TaskCancel \/ HumanRespond
           \/ ClaimRefused \/ RetryDue \/ RecoverTask \/ UNCHANGED vars
           \/ \E m \in Messages : DialogueAdd(m)
           \/ \E s \in Sources : HumanResolve(s)
           \/ \E kind \in TurnKinds : KickTask(kind)
  <2>1. turn' = turn /\ review' = review
    BY <1>5 DEF TaskWake, TaskRevise, TaskReopen, TaskCancel, Supersede, HumanRespond, ClaimRefused, RetryDue,
                RecoverTask, DialogueAdd, HumanResolve, KickTask, vars
  <2> QED
    BY <1>1, <1>2, <2>1
<1> QED
    BY <1>1, <1>3, <1>4, <1>5 DEF Next, Host, Turn, Environment

LEMMA OrdinaryStep == TypeOK /\ OrdinaryOK /\ [Next]_vars => OrdinaryOK'
<1> SUFFICES ASSUME TypeOK, OrdinaryOK, [Next]_vars, (turn.kind = "ordinary" /\ turn.phase = "running")', TaskWide' PROVE FALSE
    BY DEF OrdinaryOK
<1>1. CASE TaskClaim
    BY <1>1 DEF TaskClaim, Admitted, taskHumanWait, TaskWide, Waiting
<1>2. CASE turn' = turn /\ (\A a \in Audiences : ~TaskAsk(a))
    BY <1>2, QuestionStays DEF TaskWide, OrdinaryOK
<1> QED
    BY <1>1, <1>2, RunningStays

LEMMA ReviewStep == TypeOK /\ ReviewOK /\ [Next]_vars => ReviewOK'
<1> SUFFICES ASSUME TypeOK, ReviewOK, [Next]_vars, (turn.kind = "review" /\ turn.phase = "running" /\ Waiting)'
             PROVE  (\E w \in wake : w.claimed /\ w \in Candidates(wake) /\ w.of \notin question.failed)'
    BY DEF ReviewOK
<1>1. CASE TaskClaim /\ turn'.kind = intent
  <2>1. intent = "review" /\ question' = question
    BY <1>1 DEF TaskClaim
  <2>2. PICK W \in Claims("review") : W # {} /\ wake' = (wake \ W) \cup {[w EXCEPT !.claimed = TRUE] : w \in W}
    BY <1>1, <2>1 DEF TaskClaim
  <2>3. W = pendingTaskHumanReview(wake) /\ W = Candidates(wake)
    BY <2>2 DEF Claims, pendingTaskHumanReview
  <2>4. PICK w \in Candidates(wake) : w.of \notin question.failed
    BY <2>2, <2>3 DEF pendingTaskHumanReview
  <2>5. w \in wake
    BY DEF Candidates
  <2>6. [w EXCEPT !.claimed = TRUE] \in wake'
    BY <2>2, <2>3
  <2>7. [w EXCEPT !.claimed = TRUE] \in Candidates(wake)'
    <3> DEFINE v == [w EXCEPT !.claimed = TRUE]
    <3>1. v.kind = w.kind /\ v.question = w.question /\ v.of = w.of
      BY <2>5, WakeFields
    <3>2. /\ Waiting /\ question.audience \in {"group", "executions"}
          /\ w.kind = "review" /\ w.question = question.n /\ w.of \ question.replied # {}
      BY DEF Candidates
    <3> HIDE DEF v
    <3>3. v \in wake'
      BY <2>6 DEF v
    <3>4. v \in Candidates(wake)'
      BY <2>1, <3>1, <3>2, <3>3 DEF Candidates, Waiting
    <3> QED
      BY <3>4 DEF v
  <2> QED
    BY <2>1, <2>4, <2>5, <2>6, <2>7, WakeFields
<1>2. CASE /\ turn' = turn /\ wake \subseteq wake'
           /\ ~ReviewFailed /\ (\A a \in Audiences : ~TaskAsk(a)) /\ (\A s \in Sources : ~ReviewReply(s))
  <2>1. /\ Waiting /\ question'.n = question.n /\ question'.audience = question.audience
        /\ question'.replied = question.replied /\ question'.failed = question.failed
    BY <1>2, QuestionStays
  <2>2. PICK w \in wake : w.claimed /\ w \in Candidates(wake) /\ w.of \notin question.failed
    BY <1>2, <2>1 DEF ReviewOK
  <2>3. w \in Candidates(wake)'
    BY <1>2, <2>1, <2>2 DEF Candidates
  <2> QED
    BY <1>2, <2>1, <2>2, <2>3
<1> QED
    BY <1>1, <1>2, RunningStays

\* what a review judges is every candidate it holds
LEMMA ReviewedAll ==
    ASSUME TypeOK, ReviewOK, turn.kind = "review", turn.phase = "running", Waiting,
           NEW w \in wake, w.claimed, NEW s \in w.of, Carries(w, s), s \notin question.replied
    PROVE  s \in Reviewed
<1>1. PICK v \in wake : v.claimed /\ v \in Candidates(wake) /\ v.of \notin question.failed
    BY DEF ReviewOK
<1>2. v \in Candidates(Claimed) /\ w \in Candidates(Claimed)
    BY <1>1 DEF Candidates, Claimed, Carries
<1> DEFINE W == pendingTaskHumanReview(Claimed)
<1>3. w \in W
    BY <1>1, <1>2 DEF pendingTaskHumanReview
<1> HIDE DEF W
<1>4. s \in (UNION {u.of : u \in W}) \ question.replied
    BY <1>3
<1> QED
    BY <1>4 DEF Reviewed, SourcesOf, W

LEMMA KeptStep == TypeOK /\ KeptInv /\ [Next]_vars => KeptOK'
<1> SUFFICES ASSUME TypeOK, KeptInv, [Next]_vars, TaskWide', NEW s \in Sources, Pending(s)'
             PROVE  (\E w \in wake : Carries(w, s) /\ Survives(w))'
    BY DEF KeptOK
<1>0. /\ question \in QuestionRow /\ turn \in TurnRow
      /\ review \in [Sources -> {"no", "candidate", "failed", "judged"}]
      /\ NoTurn.phase # "submitted"
    BY DEF TypeOK, NoTurn
<1>1. ASSUME NEW a \in Audiences, TaskAsk(a) PROVE FALSE
    BY <1>1 DEF TaskAsk, Pending
<1>2. /\ TaskWide /\ question'.n = question.n
      /\ question'.replied = question.replied \/ \E r \in Sources : ReviewReply(r)
  <2>1. TaskWide /\ question'.n = question.n
    BY <1>1, QuestionStays DEF TaskWide
  <2>2. question'.replied = question.replied \/ \E r \in Sources : ReviewReply(r)
    BY <1>1, QuestionStays DEF TaskWide
  <2> QED
    BY <2>1, <2>2
<1>3. ASSUME Pending(s) PROVE \E w \in wake : Carries(w, s) /\ Survives(w)
    BY <1>2, <1>3 DEF KeptInv, KeptOK
<1>4. \A w : Carries(w, s)' <=> Carries(w, s)
    BY <1>2 DEF Carries
<1>5. CASE /\ wake \subseteq wake' /\ UNCHANGED <<turn, review>> /\ question'.replied = question.replied
  <2>1. PICK w \in wake : Carries(w, s) /\ Survives(w)
    BY <1>3, <1>5 DEF Pending
  <2>2. Survives(w)'
    BY <1>5, <2>1 DEF Survives
  <2> QED
    BY <1>4, <1>5, <2>1, <2>2
<1>6. ASSUME NEW S \in SUBSET Sources, TaskSupplement(S)
      PROVE  (\E w \in wake : Carries(w, s) /\ Survives(w))'
  <2> DEFINE fresh == Wake("review", question.n, S)
  <2>1. fresh.kind = "review" /\ fresh.question = question.n /\ fresh.of = S /\ ~fresh.claimed
    BY QuestionFields, Arriving
  <2>2. wake \subseteq wake' /\ UNCHANGED <<turn, question>>
    BY <1>6 DEF TaskSupplement
  <2>3. CASE review'[s] = review[s]
    <3>1. PICK w \in wake : Carries(w, s) /\ Survives(w)
      BY <1>3, <2>3 DEF Pending
    <3>2. Survives(w)'
      BY <2>2, <3>1 DEF Survives
    <3> QED
      BY <1>4, <2>2, <3>1, <3>2
  <2>4. CASE review'[s] # review[s]
    <3>1. s \in S /\ fresh \in wake'
      BY <1>6, <2>4 DEF TaskSupplement
    <3>2. PICK v \in wake' : v = fresh
      BY <3>1
    <3>3. v.kind = "review" /\ v.question = question.n /\ s \in v.of /\ ~v.claimed
      BY <2>1, <3>1, <3>2
    <3>4. Carries(v, s) /\ Survives(v)'
      BY <3>3 DEF Carries, Survives
    <3> QED
      BY <1>4, <3>4
  <2> QED
    BY <2>3, <2>4
<1>7. CASE TaskClaim \/ TaskDrained \/ Crash
  <2>1. PICK w \in wake : Carries(w, s)
    BY <1>3, <1>7, Remarking DEF Pending
  <2>2. PICK v \in wake' : Remarked(v, w)
    BY <1>7, Remarking
  <2>3. turn'.phase # "submitted"
    BY <1>0, <1>7 DEF TaskClaim, TaskDrained, Crash
  <2> QED
    BY <1>4, <2>1, <2>2, <2>3 DEF Remarked, Carries, Survives
<1>8. CASE WakeAck
  <2>1. turn.phase = "submitted" /\ turn'.phase = "acked" /\ wake' = (wake \ Claimed) \cup KeptAfterReply
    BY <1>0, <1>8 DEF WakeAck, TurnRow
  <2>2. PICK w \in wake : Carries(w, s) /\ Survives(w)
    BY <1>3, <1>8 DEF WakeAck, Pending
  <2>3. w \in wake'
    BY <1>2, <2>1, <2>2 DEF Survives, Carries, Claimed, KeptAfterReply, TaskWide, Waiting
  <2> QED
    BY <1>4, <2>1, <2>2, <2>3 DEF Survives
<1>9. ASSUME NEW m \in Messages, DialogueReply(m)
      PROVE  (\E w \in wake : Carries(w, s) /\ Survives(w))'
  <2>1. PICK w \in wake : Carries(w, s) /\ Survives(w)
    BY <1>3, <1>9 DEF DialogueReply, Pending
  <2>2. ~w.claimed
    BY <1>9, <2>1 DEF DialogueReply, Running, KeptInv, ClaimsOK, Carries
  <2>3. w \in wake'
    BY <1>9, <2>1, <2>2, [Wake("dialogue", 0, {m}) EXCEPT !.claimed = TRUE].claimed = TRUE DEF DialogueReply, Wake
  <2> QED
    BY <1>4, <2>1, <2>2, <2>3 DEF Survives
<1>10. CASE TaskWait \/ TaskComplete
  <2>1. CASE AskedInVain
    BY <1>2, <1>10, <2>1 DEF TaskWait, TaskComplete, KeptInv, AskedOK, TaskWide, Pending, Running, AskedInVain
  <2>2. CASE Running("ordinary")
    BY <1>2, <2>2 DEF Running, KeptInv, OrdinaryOK
  <2> QED
    BY <1>10, <2>1, <2>2 DEF TaskWait, TaskComplete
<1>11. ASSUME NEW r \in Sources, ReviewReply(r)
       PROVE  (\E w \in wake : Carries(w, s) /\ Survives(w))'
  <2>1. /\ s # r /\ Pending(s) /\ wake' = wake
        /\ turn.kind = "review" /\ turn'.kind = "review" /\ turn'.replied = {r}
        /\ question'.replied = question.replied \cup {r}
    BY <1>0, <1>11 DEF ReviewReply, Running, Pending, TurnRow, QuestionRow
  <2>2. PICK w \in wake : Carries(w, s) /\ Survives(w)
    BY <1>3, <2>1
  <2>3. s \in w.of \ question'.replied
    BY <2>1, <2>2 DEF Carries, Pending, KeptInv, RepliedOK
  <2>4. Survives(w)'
    BY <2>1, <2>3 DEF Survives
  <2> QED
    BY <1>4, <2>1, <2>2, <2>4
<1>12. CASE ReviewWait
  <2>1. /\ turn.kind = "review" /\ turn.phase = "running" /\ wake' = wake /\ s \notin Reviewed /\ Pending(s)
    BY <1>0, <1>12 DEF ReviewWait, Running, Pending
  <2>2. PICK w \in wake : Carries(w, s) /\ Survives(w)
    BY <1>3, <2>1
  <2>3. s \notin question.replied
    BY <2>1 DEF KeptInv, RepliedOK, Pending
  <2>4. ~w.claimed
    BY <1>2, <2>1, <2>2, <2>3, ReviewedAll DEF KeptInv, Carries, TaskWide
  <2> QED
    BY <1>4, <2>1, <2>2, <2>4 DEF Survives
<1>13. CASE ReviewFailed \/ ProviderFailure
  <2>1. turn'.phase = "failed" /\ wake' = wake /\ Pending(s)
    BY <1>0, <1>13 DEF ReviewFailed, ProviderFailure, Pending, TurnRow
  <2>2. PICK w \in wake : Carries(w, s)
    BY <1>3, <2>1
  <2> QED
    BY <1>4, <2>1, <2>2 DEF Survives
<1>14. CASE \/ TaskWake \/ TaskRevise \/ TaskReopen \/ TaskCancel \/ HumanRespond
            \/ \E m \in Messages : DialogueAdd(m)
            \/ \E r \in Sources : HumanResolve(r)
  <2>1. wake \subseteq wake' /\ turn' = turn
    BY <1>14, OutsideArrivals
  <2>2. review' = review /\ question'.replied = question.replied
    BY <1>0, <1>14 DEF TaskWake, TaskRevise, TaskReopen, TaskCancel, Supersede, HumanRespond, DialogueAdd, HumanResolve,
                       Answer, QuestionRow
  <2> QED
    BY <1>5, <2>1, <2>2
<1>15. CASE ClaimRefused \/ RetryDue \/ RecoverTask \/ (\E kind \in TurnKinds : KickTask(kind)) \/ UNCHANGED vars
    BY <1>5, <1>15 DEF ClaimRefused, RetryDue, RecoverTask, KickTask, vars
<1>16. CASE AskAgain
    BY <1>2, <1>16 DEF AskAgain, KeptInv, AskedOK, TaskWide, Pending
<1> QED
    BY <1>1, <1>6, <1>7, <1>8, <1>9, <1>10, <1>11, <1>12, <1>13, <1>14, <1>15, <1>16 DEF Next, Host, Turn, Environment

\* A group message that came while a task-wide question waits stays in the queue until a
\* review has judged it: no reply to another message, failed or interrupted review,
\* dialogue turn or restart takes it out.
THEOREM CandidatesStay == Spec => []CandidateKept
<1>1. Init => KeptInv
  <2> SUFFICES ASSUME Init PROVE KeptInv
      OBVIOUS
  <2>1. ~Work.claimed /\ Work.kind = "work" /\ question.replied = {} /\ ~Waiting
      BY WakeType DEF Init, NoQuestion, Waiting
  <2>2. turn.kind = "none" /\ intent = "none" /\ wake = {Work}
      BY NullTypes DEF Init
  <2> QED
      BY <2>1, <2>2 DEF KeptInv, ClaimsOK, OrdinaryOK, AskedOK, ReviewOK, RepliedOK, SourcesOK, KeptOK, TaskWide
<1>2. TypeOK /\ KeptInv /\ [Next]_vars => KeptInv'
    BY ClaimsStep, OrdinaryStep, AskedStep, ReviewStep, RepliedStep, SourcesStep, KeptStep DEF KeptInv
<1>3. KeptInv => CandidateKept
    BY DEF KeptInv, KeptOK, CandidateKept, CandidateIn, TaskWide, Pending, Carries
<1> QED
    BY <1>1, <1>2, <1>3, TypeCorrect, PTL DEF Spec
=============================================================================
