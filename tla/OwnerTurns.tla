----------------------------- MODULE OwnerTurns -----------------------------
(***************************************************************************)
(* How one task admits its Owner turns (kickTask of task-session-service.js *)
(* over task.claim of dynamic-task-store.js): one turn at a time, for a     *)
(* message of the task dialogue, for the review of group messages that may  *)
(* answer an open question, or for the ordinary wakes; and how a provider   *)
(* failure delays the next turn.  What an ordinary turn does with           *)
(* executions and operations is the subject of TaskLedger.                  *)
(*                                                                         *)
(* A wake claimed by an earlier lease is to every reader what a pending one *)
(* is, so a wake is either claimed by the running turn or not.              *)
(***************************************************************************)
EXTENDS Naturals

CONSTANTS
    Messages,      \* messages a human may put into the task dialogue
    Sources,       \* group messages that may be added to the task
    Audiences,     \* "operator": web or private reply; "group": requester or topic;
                   \* "executions": topic, for the named executions alone
    Retries,       \* the number of delays task.provider-failure has
    Faults,        \* whether a turn may break off for a reason that is not the provider's,
                   \* and a notice to the operator fail
    MaxQuestions,  \* bound on the questions a task asks
    MaxOutside     \* bound on revisions, supplements, cancellations and crashes together

ASSUME ConstantsAssumption ==
    /\ Audiences \subseteq {"operator", "group", "executions"}
    /\ Faults \in BOOLEAN
    /\ Retries \in Nat /\ MaxQuestions \in Nat /\ MaxOutside \in Nat

VARIABLES
    task,       \* the dynamic_tasks row: status, revisions, lease
    question,   \* the last of its humanRequests
    retry,      \* its providerRecovery; attempts = 0 stands for null
    dialogue,   \* its dialogue
    refs,       \* its sourceRefs
    wake,       \* dynamic_wakes that are not acked
    turn,       \* the Owner turn kickTask runs, with the revisions of its binding
    intent,     \* kickTask between its reads and task.claim: the kind of claim it asks for
    review,     \* history: what became of the group messages that came while the question waits
    tries,      \* history: turns admitted by the retry timer since the last decision
    owed,       \* history: an answer was accepted, and no ordinary turn has decided since
    outside     \* how often the task was revised, supplemented, cancelled or its host died

vars == <<task, question, retry, dialogue, refs, wake, turn, intent, review, tries, owed, outside>>

-----------------------------------------------------------------------------
TurnKinds == {"ordinary", "dialogue", "review"}

TaskRow == [status : {"active", "completed", "cancelled"}, req : Nat, ctx : Nat,
            drained : BOOLEAN, recovering : BOOLEAN]

QuestionRow == [n : Nat, state : {"none", "waiting", "answered", "superseded"}, audience : Audiences \cup {"none"},
                replied : SUBSET Sources,              \* followupReplies
                failed : SUBSET SUBSET (Messages \cup Sources)] \* the wakes of the last of reviewFailures

RetryRow == [attempts : Nat, req : Nat, next : {"none", "later", "due"}]  \* nextAttemptAt

WakeRow == [kind : {"work", "answer", "dialogue", "review"}, question : Nat,
            of : SUBSET (Messages \cup Sources), claimed : BOOLEAN]

TurnRow == [kind : TurnKinds \cup {"none"}, phase : {"none", "running", "asked", "submitted", "acked", "failed"},
            req : Nat, ctx : Nat, replied : SUBSET Sources]  \* followupReplies of its lease

NoQuestion == [n |-> 0, state |-> "none", audience |-> "none", replied |-> {}, failed |-> {}]
NoRetry == [attempts |-> 0, req |-> 0, next |-> "none"]
NoTurn == [kind |-> "none", phase |-> "none", req |-> 0, ctx |-> 0, replied |-> {}]

Wake(kind, n, of) == [kind |-> kind, question |-> n, of |-> of, claimed |-> FALSE]
Work == Wake("work", 0, {})

Init ==
    /\ task = [status |-> "active", req |-> 1, ctx |-> 0, drained |-> TRUE, recovering |-> FALSE]
    /\ question = NoQuestion
    /\ retry = NoRetry
    /\ dialogue = [m \in Messages |-> "none"]
    /\ refs = {}
    /\ wake = {Work}
    /\ turn = NoTurn
    /\ intent = "none"
    /\ review = [s \in Sources |-> "no"]
    /\ tries = 0
    /\ owed = FALSE
    /\ outside = 0

-----------------------------------------------------------------------------
(* Predicates of the store and of the Host's cache of it.                  *)

Waiting == question.state = "waiting"
taskHumanWait == Waiting /\ question.audience # "executions"
pendingDialogue == \E m \in Messages : dialogue[m] = "waiting"

Claimed == {w \in wake : w.claimed}

\* the wakes in W that carry a candidate answer nobody has replied to
Candidates(W) ==
    {w \in W : /\ Waiting /\ question.audience \in {"group", "executions"}
               /\ w.kind = "review" /\ w.question = question.n /\ w.of \ question.replied # {}}

\* Mutant: one failed review parks the candidates that come after it as well
pendingTaskHumanReview_AnyFailed(W) == IF question.failed # {} THEN {} ELSE Candidates(W)

\* a review that failed is not repeated over the same wakes
pendingTaskHumanReview(W) ==
    IF \A w \in Candidates(W) : w.of \in question.failed THEN {} ELSE Candidates(W)

SourcesOf(W) == (UNION {w.of : w \in W}) \ question.replied

\* a provider failure holds the next turn until its delay is over, a new requirement apart
retryReady == retry.attempts > 0 /\ retry.req = task.req => retry.next = "due"

\* currentTask(binding): the lease is live and its revisions are still the task's
LeaseHeld == turn.kind # "none" /\ ~task.drained
BindingCurrent == /\ LeaseHeld /\ ~task.recovering
                  /\ turn.req = task.req /\ turn.ctx = task.ctx /\ task.status # "cancelled"

-----------------------------------------------------------------------------
(* What reaches the task from outside.                                     *)

Outside == outside < MaxOutside /\ outside' = outside + 1

\* an execution's result, a periodic check, a native event
TaskWake ==
    /\ wake' = wake \cup {Work}
    /\ UNCHANGED <<task, question, retry, dialogue, refs, turn, intent, review, tries, owed, outside>>

DialogueAdd(m) ==
    /\ task.status = "active" /\ dialogue[m] = "none"
    /\ dialogue' = [dialogue EXCEPT ![m] = "waiting"]
    /\ wake' = wake \cup {Wake("dialogue", 0, {m})}
    /\ UNCHANGED <<task, question, retry, refs, turn, intent, review, tries, owed, outside>>

\* Commands of the Router run under admitTask's hold, never between kickTask's reads
\* and its claim.
Held == intent = "none"

\* group messages S are added to the task; those that may answer the open question
\* wait for their review
TaskSupplement(S) ==
    LET candidates == IF Waiting /\ question.audience # "operator" THEN S ELSE {} IN
    /\ Held /\ task.status = "active" /\ S \cap refs = {}
    /\ Outside
    /\ task' = [task EXCEPT !.ctx = @ + 1]
    /\ refs' = refs \cup S
    /\ wake' = wake \cup {IF candidates = {} THEN Work ELSE Wake("review", question.n, candidates)}
    /\ review' = [s \in Sources |-> IF s \in candidates THEN "candidate" ELSE review[s]]
    /\ UNCHANGED <<question, retry, dialogue, turn, intent, tries, owed>>

\* task.revise, task.reopen and task.control: the open question is superseded
Supersede(row) ==
    /\ Held /\ Outside
    /\ task' = row
    /\ question' = IF Waiting THEN [question EXCEPT !.state = "superseded"] ELSE question
    /\ wake' = wake \cup {Work}
    /\ tries' = IF row.req # task.req THEN 0 ELSE tries
    /\ UNCHANGED <<retry, dialogue, refs, turn, intent, review, owed>>

TaskRevise ==
    /\ task.status = "active"
    /\ Supersede([task EXCEPT !.req = @ + 1])

\* a cancelled task only if a restart left operations of it unknown, which TaskLedger has
TaskReopen ==
    /\ task.status \in {"completed", "cancelled"} /\ task.drained
    /\ Supersede([task EXCEPT !.req = @ + 1, !.status = "active"])

TaskCancel ==
    /\ task.status \in {"active", "cancelled"}
    /\ Supersede([task EXCEPT !.status = "cancelled"])

\* Mutant: the answer is recorded and nobody is told
Answer_Silent == /\ question' = [question EXCEPT !.state = "answered"] /\ UNCHANGED wake

Answer ==
    /\ question' = [question EXCEPT !.state = "answered"]
    /\ wake' = wake \cup {Wake("answer", question.n, {})}

\* task.human.respond: a reply on the Web, or one that quotes the private notice
HumanRespond ==
    /\ task.status = "active" /\ task.drained /\ ~task.recovering /\ Waiting
    /\ Answer /\ owed' = TRUE
    /\ UNCHANGED <<task, retry, dialogue, refs, turn, intent, review, tries, outside>>

-----------------------------------------------------------------------------
(* Admission.                                                              *)

\* Mutant: a task that waits for a human is left alone, dialogue or not
KickFor_WaitFirst(kind) ==
    \/ kind = "dialogue" /\ pendingDialogue /\ ~taskHumanWait
    \/ kind = "review" /\ ~pendingDialogue /\ pendingTaskHumanReview(wake) # {}
    \/ kind = "ordinary" /\ ~pendingDialogue /\ pendingTaskHumanReview(wake) = {} /\ ~taskHumanWait

\* dialogue goes before reviews, reviews before ordinary work
KickFor(kind) ==
    \/ kind = "dialogue" /\ pendingDialogue
    \/ kind = "review" /\ ~pendingDialogue /\ pendingTaskHumanReview(wake) # {}
    \/ kind = "ordinary" /\ ~pendingDialogue /\ pendingTaskHumanReview(wake) = {} /\ ~taskHumanWait

\* recover() and schedulePending kick every task, and every event kicks its own
KickTask(kind) ==
    /\ intent = "none" /\ turn.kind = "none"
    /\ task.status = "active" /\ task.drained /\ retryReady
    /\ wake # {} /\ KickFor(kind)
    /\ intent' = kind
    /\ UNCHANGED <<task, question, retry, dialogue, refs, wake, turn, review, tries, owed, outside>>

\* the wakes a claim may take: one message, the candidates, or all that is not dialogue
Claims(kind) ==
    CASE kind = "dialogue" -> {{w} : w \in {v \in wake : v.kind = "dialogue"}}
      [] kind = "review" -> {pendingTaskHumanReview(wake)}
      [] kind = "ordinary" -> {{w \in wake : w.kind # "dialogue"}}

Admitted(kind) ==
    /\ task.drained /\ retryReady
    /\ kind = "ordinary" => ~taskHumanWait
    /\ \E W \in Claims(kind) : W # {}

\* Mutant: the time of the retry stays on record when its turn is admitted
Consume_Kept(r) == [r EXCEPT !.req = task.req]

\* Mutant: a task that has no failure on record gets one
Consume_Always(r) == [r EXCEPT !.req = task.req, !.next = "none"]

\* every admission consumes the retry, so no other fault can use it again at once
Consume(r) == IF r.attempts = 0 THEN r ELSE [r EXCEPT !.req = task.req, !.next = "none"]

TaskClaim ==
    /\ intent # "none" /\ Admitted(intent)
    /\ \E W \in Claims(intent) :
          /\ W # {}
          /\ wake' = (wake \ W) \cup {[w EXCEPT !.claimed = TRUE] : w \in W}
    /\ task' = [task EXCEPT !.drained = FALSE, !.recovering = FALSE]
    /\ turn' = [kind |-> intent, phase |-> "running", req |-> task.req, ctx |-> task.ctx, replied |-> {}]
    /\ intent' = "none"
    /\ retry' = Consume(retry)
    /\ tries' = IF retry.attempts > 0 /\ retry.req = task.req THEN tries + 1 ELSE tries
    /\ UNCHANGED <<question, dialogue, refs, review, owed, outside>>

\* what kickTask read is no longer so: the store refuses, the next kick reads again
ClaimRefused ==
    /\ intent # "none" /\ ~Admitted(intent)
    /\ intent' = "none"
    /\ UNCHANGED <<task, question, retry, dialogue, refs, wake, turn, review, tries, owed, outside>>

-----------------------------------------------------------------------------
(* The turn.  Once it has submitted it sends nothing else but its ack.     *)

Running(kind) == turn.kind = kind /\ turn.phase = "running"

\* its question is on record and queueHumanRequest failed after it: the call is refused,
\* and the turn goes on
AskedInVain == turn.phase = "asked"
Submit == turn' = [turn EXCEPT !.phase = "submitted"]

\* task.dialogue.reply: the answer and the ack of its wake, nothing else
DialogueReply(m) ==
    LET claimed == [Wake("dialogue", 0, {m}) EXCEPT !.claimed = TRUE] IN
    /\ Running("dialogue") /\ BindingCurrent /\ task.status = "active"
    /\ claimed \in wake
    /\ dialogue' = [dialogue EXCEPT ![m] = "replied"]
    /\ wake' = wake \ {claimed}
    /\ Submit
    /\ UNCHANGED <<task, question, retry, refs, intent, review, tries, owed, outside>>

\* the decision on record ends a series of provider failures
Decided == retry' = NoRetry /\ tries' = 0

\* task.wait by an ordinary turn; also what the Host records for a turn that was halted
\* after too many tool failures
TaskWait ==
    /\ Running("ordinary") \/ AskedInVain
    /\ BindingCurrent
    /\ owed' = FALSE
    /\ Decided /\ Submit
    /\ UNCHANGED <<task, question, dialogue, refs, wake, intent, review, outside>>

\* task.wait with a question, and the notice to the operator after it: while executions
\* wait for theirs, no other is asked
TaskAsk(audience) ==
    /\ Running("ordinary") /\ BindingCurrent
    /\ ~(Waiting /\ question.audience = "executions")
    /\ question.n < MaxQuestions
    /\ question' = [NoQuestion EXCEPT !.n = question.n + 1, !.state = "waiting", !.audience = audience]
    /\ review' = [s \in Sources |-> "no"]
    /\ owed' = FALSE
    /\ Decided
    /\ \/ Submit
       \/ Faults /\ audience = "operator" /\ turn' = [turn EXCEPT !.phase = "asked"]
    /\ UNCHANGED <<task, dialogue, refs, wake, intent, outside>>

\* the same call again: task.wait returns its receipt, and the notice is queued
AskAgain ==
    /\ AskedInVain /\ Submit
    /\ UNCHANGED <<task, question, retry, dialogue, refs, wake, intent, review, tries, owed, outside>>

\* nothing is open that TaskLedger's assertClear looks at
TaskComplete ==
    /\ Running("ordinary") /\ BindingCurrent /\ task.status = "active"
    /\ ~Waiting /\ ~pendingDialogue
    /\ task' = [task EXCEPT !.status = "completed"]
    /\ owed' = FALSE
    /\ Decided /\ Submit
    /\ UNCHANGED <<question, dialogue, refs, wake, intent, review, outside>>

Reviewed == SourcesOf(pendingTaskHumanReview(Claimed))

\* task.human.resolve: a candidate answers the question; the turn goes on to its wait
HumanResolve(s) ==
    /\ Running("review") /\ BindingCurrent /\ task.status = "active"
    /\ s \in Reviewed
    /\ Answer /\ owed' = TRUE
    /\ UNCHANGED <<task, retry, dialogue, refs, turn, intent, review, tries, outside>>

\* task.wait with humanReply: a factual reply to one of the candidates
ReviewReply(s) ==
    /\ Running("review") /\ BindingCurrent /\ task.status = "active"
    /\ s \in Reviewed
    /\ question' = [question EXCEPT !.replied = @ \cup {s}]
    /\ turn' = [turn EXCEPT !.phase = "submitted", !.replied = {s}]
    /\ review' = [review EXCEPT ![s] = "judged"]
    /\ Decided
    /\ UNCHANGED <<task, dialogue, refs, wake, intent, owed, outside>>

\* task.wait: none of the candidates settles the question, or one of them just did
ReviewWait ==
    /\ Running("review") /\ BindingCurrent
    /\ review' = [s \in Sources |-> IF s \in Reviewed THEN "judged" ELSE review[s]]
    /\ Decided /\ Submit
    /\ UNCHANGED <<task, question, dialogue, refs, wake, intent, owed, outside>>

\* the review was halted after too many tool failures: its candidates are parked, and
\* the retry of the provider keeps what it had
ReviewFailed ==
    /\ Running("review") /\ BindingCurrent
    /\ question' = [question EXCEPT !.failed = {w.of : w \in Claimed}]
    /\ turn' = [turn EXCEPT !.phase = "failed"]
    /\ review' = [s \in Sources |-> IF s \in SourcesOf(Claimed) /\ review[s] = "candidate" THEN "failed" ELSE review[s]]
    /\ UNCHANGED <<task, retry, dialogue, refs, wake, intent, tries, owed, outside>>

NextAttempt(attempts) == IF attempts <= Retries THEN "later" ELSE "none"

\* task.provider-failure: the provider broke off, or the turn ended without a decision
ProviderFailure ==
    /\ turn.phase \in {"running", "asked"} /\ LeaseHeld
    /\ retry' = [attempts |-> retry.attempts + 1, req |-> turn.req, next |-> NextAttempt(retry.attempts + 1)]
    /\ turn' = [turn EXCEPT !.phase = "failed"]
    /\ UNCHANGED <<task, question, dialogue, refs, wake, intent, review, tries, owed, outside>>

\* Mutant: a reply to one candidate acks the others
KeptAfterReply_None == {}

\* after a reply to one candidate the wakes with others stay in the queue
KeptAfterReply ==
    IF turn.kind = "review" /\ turn.replied # {} /\ Waiting
    THEN {w \in Claimed : w.kind = "review" /\ w.question = question.n /\ w.of \ question.replied # {}}
    ELSE {}

WakeAck ==
    /\ turn.phase = "submitted" /\ LeaseHeld
    /\ wake' = (wake \ Claimed) \cup KeptAfterReply
    /\ turn' = [turn EXCEPT !.phase = "acked"]
    /\ UNCHANGED <<task, question, retry, dialogue, refs, intent, review, tries, owed, outside>>

Unclaimed == {[w EXCEPT !.claimed = FALSE] : w \in wake}

\* the turn is over; it may also have ended without a word: revised or supplemented
\* under its feet, or by a fault (a dialogue without a reply, a call that was refused)
TaskDrained ==
    /\ LeaseHeld
    /\ \/ turn.phase \in {"failed", "acked"}
       \/ turn.phase \in {"running", "asked"} /\ (Faults \/ ~BindingCurrent)
    /\ task' = [task EXCEPT !.drained = TRUE, !.recovering = FALSE]
    /\ turn' = NoTurn
    /\ wake' = Unclaimed
    /\ UNCHANGED <<question, retry, dialogue, refs, intent, review, tries, owed, outside>>

\* the delay of the retry is over
RetryDue ==
    /\ retry.next = "later"
    /\ retry' = [retry EXCEPT !.next = "due"]
    /\ UNCHANGED <<task, question, dialogue, refs, wake, turn, intent, review, tries, owed, outside>>

\* the host dies and openDynamicTaskStore marks the lease it left
Crash ==
    /\ Outside
    /\ turn' = NoTurn
    /\ intent' = "none"
    /\ wake' = Unclaimed
    /\ task' = [task EXCEPT !.recovering = ~task.drained]
    /\ UNCHANGED <<question, retry, dialogue, refs, review, tries, owed>>

\* recover(): the session of a recovering task is known to be gone
RecoverTask ==
    /\ task.recovering /\ ~task.drained /\ turn.kind = "none"
    /\ task' = [task EXCEPT !.drained = TRUE, !.recovering = FALSE]
    /\ UNCHANGED <<question, retry, dialogue, refs, wake, turn, intent, review, tries, owed, outside>>

-----------------------------------------------------------------------------
Turn ==
    \/ TaskWait \/ TaskComplete \/ AskAgain \/ \E a \in Audiences : TaskAsk(a)
    \/ \E m \in Messages : DialogueReply(m)
    \/ ReviewWait \/ \E s \in Sources : HumanResolve(s) \/ ReviewReply(s)
    \/ ReviewFailed \/ ProviderFailure \/ WakeAck \/ TaskDrained

Host == (\E kind \in TurnKinds : KickTask(kind)) \/ TaskClaim \/ ClaimRefused \/ RetryDue \/ RecoverTask

Environment ==
    \/ TaskWake \/ TaskRevise \/ TaskReopen \/ TaskCancel \/ HumanRespond \/ Crash
    \/ \E m \in Messages : DialogueAdd(m)
    \/ \E S \in SUBSET Sources : TaskSupplement(S)

Next == Host \/ Turn \/ Environment

Spec == Init /\ [][Next]_vars

\* recover() kicks every task every five seconds and the claim follows at once; every
\* turn ends and its finalizer runs; a model that is asked again and again decides.
Fairness ==
    /\ WF_vars(\E kind \in TurnKinds : KickTask(kind)) /\ WF_vars(TaskClaim) /\ WF_vars(ClaimRefused)
    /\ WF_vars(RetryDue) /\ WF_vars(RecoverTask)
    /\ WF_vars(WakeAck) /\ WF_vars(TaskDrained)
    /\ SF_vars(TaskWait) /\ SF_vars(ReviewWait) /\ \A m \in Messages : SF_vars(DialogueReply(m))

FairSpec == Spec /\ Fairness

-----------------------------------------------------------------------------
(* Properties.                                                             *)

\* Every row is one the code can write.
TypeOK ==
    /\ task \in TaskRow
    /\ question \in QuestionRow
    /\ retry \in RetryRow /\ (retry.attempts = 0 => retry = NoRetry)
    /\ dialogue \in [Messages -> {"none", "waiting", "replied"}]
    /\ refs \subseteq Sources
    /\ wake \subseteq WakeRow
    /\ turn \in TurnRow
    /\ intent \in TurnKinds \cup {"none"}
    /\ review \in [Sources -> {"no", "candidate", "failed", "judged"}]
    /\ tries \in Nat /\ owed \in BOOLEAN /\ outside \in Nat

\* No turn is repeated without end: from the first provider failure to the next decision
\* on the same requirement, the retry admits at most as many turns as it has delays,
\* however those turns end (task.claim consumes, task.provider-failure counts).
RetryBounded == tries <= Retries

\* A group message that came while a task-wide question waits stays in the queue until a
\* review has judged it: no reply to another message, failed or interrupted review,
\* dialogue turn or restart takes it out (wake.ack, pendingTaskHumanReview).  While a
\* question waits for named executions alone, ordinary turns go on and do take it.
CandidateIn(s) == \E w \in wake : w.kind = "review" /\ w.question = question.n /\ s \in w.of
CandidateKept ==
    Waiting /\ question.audience # "executions" =>
        \A s \in Sources : review[s] \in {"candidate", "failed"} => CandidateIn(s)

\* nothing but a new requirement will admit a turn
Suspended == retry.attempts > 0 /\ retry.req = task.req /\ retry.next = "none" /\ turn.kind = "none"

\* README, 428: the retry is suspended after seven failures in a row.
SuspendedMeansExhausted == Suspended => retry.attempts > Retries

\* A message put into the dialogue is answered, whatever the task waits for, unless the
\* task is over or its turns are suspended (the order of kickTask).
DialogueReplied ==
    \A m \in Messages :
        dialogue[m] = "waiting" ~> (dialogue[m] = "replied" \/ task.status # "active" \/ Suspended)

\* A candidate answer is reviewed, or its review fails for good, unless the question or
\* the task is over or its turns are suspended.
CandidateReviewed ==
    \A s \in Sources :
        Waiting /\ review[s] = "candidate"
            ~> (~Waiting \/ review[s] # "candidate" \/ task.status # "active" \/ Suspended)

\* An answer that was accepted is followed by the decision of an ordinary turn, unless
\* the task is over, waits for an answer again or has its turns suspended.
AnswerResumes == owed ~> (~owed \/ taskHumanWait \/ task.status # "active" \/ Suspended)

=============================================================================
