------------------------- MODULE ConversationRouter -------------------------
(***************************************************************************)
(* The conversation router of one group (conversation-router.js), the part *)
(* of the resident store it keeps its state in (store.js), and what it     *)
(* reads and writes of the control store through the task session service: *)
(* sources, router facts and the receipts of router.task.apply.            *)
(*                                                                         *)
(* A source is one version of a message.  A pass of the router applies     *)
(* what was decided, triages new sources, then claims the queue as a batch *)
(* and lets a model decide on it, until the queue is empty.  Passes of a   *)
(* group follow one another; messages, edits, retirements, facts, people   *)
(* and crashes come in between any two steps.                              *)
(***************************************************************************)
EXTENDS Naturals, FiniteSets

CONSTANTS
    Messages,       \* messages of the group
    Facts,          \* task events that are reported to the router
    Arrangements,   \* tasks arranged for after a prerequisite task
    None,           \* "no arrangement"
    OwnMessages,    \* those that turn out to be the assistant's own
    Faults,         \* what may go wrong: a triage, a reply, an application, a turn
    MaxVersion,     \* bound on versions of a message
    MaxOps,         \* bound on applications (operations) of decisions
    MaxDecisions,   \* bound on decisions
    MaxPrereq,      \* bound on versions of the prerequisite task
    MaxCrashes      \* bound on host crashes

ASSUME RouterAssumption ==
    /\ None \notin Arrangements
    /\ OwnMessages \subseteq Messages
    /\ Faults \subseteq {"triage", "reply", "apply", "turn"}
    /\ MaxVersion \in Nat \ {0} /\ MaxOps \in Nat /\ MaxDecisions \in Nat
    /\ MaxPrereq \in Nat \ {0} /\ MaxCrashes \in Nat

Ops == 1 .. MaxOps
Sources == Messages \X (1 .. MaxVersion)

(* What a batch is made of.  A dependency input names the revision of its    *)
(* arrangement and the version of the prerequisite it was woken for.         *)
SourceInput(s) == <<"source", s>>
FactInput(f) == <<"fact", f>>
RetryInput(o) == <<"retry", o>>
DependencyInput(a, wake) == <<"dependency", a, wake>>

Wakes == (0 .. MaxOps) \X (1 .. MaxPrereq)

Inputs ==
    {SourceInput(s) : s \in Sources} \cup {FactInput(f) : f \in Facts}
    \cup {RetryInput(o) : o \in Ops} \cup {DependencyInput(a, w) : a \in Arrangements, w \in Wakes}

\* Mutant: failures are all kept as failures of an application
Failures_OnePhase(phase, o, S) == {<<<<"apply", o>>, s>> : s \in S}

(* Failures are kept per request and source: of a triage, of its reply, of   *)
(* an operation, of the turn on the present batch.                           *)
Failures(phase, o, S) == {<<<<phase, o>>, s>> : s \in S}

FailureKeys ==
    (({"triage", "reply", "turn"} \X {0}) \cup ({"apply"} \X Ops)) \X Sources

VARIABLES
    message,    \* resident messages: newest version (0: none yet), own-notification retirement
    source,     \* dynamic_sources: recorded, retired as own, routed
    triage,     \* router.triage
    queue, active, abandoned,   \* router.queue, router.active.inputs, router.abandoned
    decision,   \* router.decisions: the inputs of each
    op,         \* their applications
    arr,        \* router.arrangements and router.dependencyWakes
    fact,       \* dynamic_router_facts and group.routerFacts
    failed, retrying,   \* router.failures by status
    receipts,   \* operations with a committed router.task.apply
    outbox,     \* replies prepared: of an operation, or (0) of a triage, to a source
    prereq,     \* the prerequisite task: its version, and whether it is settled
    router,     \* where the pass is
    crashes     \* host crashes so far

batches == <<queue, active, abandoned, decision>>
failures == <<failed, retrying>>
vars == <<message, source, triage, batches, op, arr, fact, failures, receipts, outbox, prereq, router, crashes>>

-----------------------------------------------------------------------------
OpRow ==
    [status : {"absent", "pending", "applied", "rejected"},
     kind : {"task", "reply"},
     refs : SUBSET Sources,
     dec : 0 .. MaxDecisions,
     arr : Arrangements \cup {None},
     dep : 0 .. MaxPrereq,       \* version of the prerequisite it was decided on, 0: none
     retryOf : 0 .. MaxOps,
     retriedBy : 0 .. MaxOps]

NoOp == [status |-> "absent", kind |-> "task", refs |-> {}, dec |-> 0, arr |-> None,
         dep |-> 0, retryOf |-> 0, retriedBy |-> 0]

ArrRow ==
    [status : {"none", "waiting", "accepted"},
     refs : SUBSET Sources,
     rev : 0 .. MaxOps,
     op : 0 .. MaxOps,
     woken : SUBSET Wakes]

NoArr == [status |-> "none", refs |-> {}, rev |-> 0, op |-> 0, woken |-> {}]

(* then: where to go when nothing is left to apply; todo: what readSources   *)
(* returned and is not triaged yet; op: the task operation whose outcome is  *)
(* to be recorded.                                                           *)
RouterRow ==
    [pc : {"idle", "apply", "record", "reject", "triage", "loop", "claimed", "running"},
     then : {"read", "triage", "rotate"},
     todo : SUBSET Sources,
     op : 0 .. MaxOps]

Idle == [pc |-> "idle", then |-> "read", todo |-> {}, op |-> 0]

At(pc) == router.pc = pc
Goto(pc) == router' = [router EXCEPT !.pc = pc]

Newest(s) == message[s[1]].version = s[2]
Overtaken(s) == message[s[1]].version > s[2]
Own(s) == message[s[1]].own

\* source.version of another row of the same message is greater
NewerRecorded(s) == \E t \in Sources : t[1] = s[1] /\ t[2] > s[2] /\ source[t].recorded

\* staleReplySource: the message went on to a newer version and is not the assistant's own
Stale(s) == Overtaken(s) /\ Own(s) # "retired" /\ ~source[s].retired

\* the sources a batch input was admitted for, and all a turn on it reads
Admitted(i) ==
    CASE i[1] = "source"     -> {i[2]}
      [] i[1] = "retry"      -> op[i[2]].refs
      [] i[1] = "dependency" -> arr[i[2]].refs
      [] OTHER               -> {}

Exposed == UNION {IF i[1] = "fact" THEN fact[i[2]].refs ELSE Admitted(i) : i \in active}

Outdated == {i \in active : \E s \in Admitted(i) : ~Newest(s)}

\* one failed and none retried since
Blocks(keys) == keys \cap failed # {} /\ keys \cap retrying = {}

OpFailures(o) == Failures("apply", o, op[o].refs)
TurnFailures == Failures("turn", 0, Sources)

\* routerRecordFailure: only what is about the newest version is recorded
RecordFailure(keys) ==
    LET new == {k \in keys : Newest(k[2])}
    IN  failed' = failed \cup new /\ retrying' = retrying \ new

ResolveFailure(keys) == failed' = failed \ keys /\ retrying' = retrying \ keys

Init ==
    /\ message = [m \in Messages |-> [version |-> 0, own |-> "no"]]
    /\ source = [s \in Sources |-> [recorded |-> FALSE, retired |-> FALSE, routed |-> "no"]]
    /\ triage = [s \in Sources |-> [verdict |-> "none", reply |-> "none"]]
    /\ queue = {} /\ active = {} /\ abandoned = {}
    /\ decision = [d \in 1 .. MaxDecisions |-> {}]
    /\ op = [o \in Ops |-> NoOp]
    /\ arr = [a \in Arrangements |-> NoArr]
    /\ fact = [f \in Facts |-> [state |-> "none", refs |-> {}, enqueued |-> FALSE]]
    /\ failed = {} /\ retrying = {}
    /\ receipts = {} /\ outbox = {}
    /\ prereq = [version |-> 1, settled |-> FALSE]
    /\ router = Idle
    /\ crashes = 0

-----------------------------------------------------------------------------
(* Messages, the prerequisite task and facts                                 *)

\* residentStore.ingest: a message, or a newer version of it; own messages are ignored
Ingest(m) ==
    /\ message[m].own = "no"
    /\ message[m].version < MaxVersion
    /\ message' = [message EXCEPT ![m].version = @ + 1]
    /\ UNCHANGED <<source, triage, batches, op, arr, fact, failures, receipts, outbox, prereq, router, crashes>>

(* source.record, by the ingest or, after a crash, by recoverRouterIngress.  *)
(* A version that is overtaken before it is recorded is never read.          *)
RecordSource(s) ==
    /\ Newest(s) /\ Own(s) = "no"
    /\ ~source[s].recorded
    /\ source' = [source EXCEPT ![s].recorded = TRUE]
    /\ UNCHANGED <<message, triage, batches, op, arr, fact, failures, receipts, outbox, prereq, router, crashes>>

\* the receipt of a notification names the message as delivered by the assistant
OwnEvidence(m) ==
    /\ m \in OwnMessages
    /\ message[m].version > 0 /\ message[m].own = "no"
    /\ message' = [message EXCEPT ![m].own = "evident"]
    /\ UNCHANGED <<source, triage, batches, op, arr, fact, failures, receipts, outbox, prereq, router, crashes>>

\* residentStore.retireOwnNotification, then source.retireOwnNotification for each source
RetireMessage(m) ==
    /\ message[m].own = "evident"
    /\ message' = [message EXCEPT ![m].own = "retired"]
    /\ UNCHANGED <<source, triage, batches, op, arr, fact, failures, receipts, outbox, prereq, router, crashes>>

RetireSource(s) ==
    /\ Own(s) = "retired"
    /\ source[s].recorded /\ ~source[s].retired
    /\ source' = [source EXCEPT ![s].retired = TRUE]
    /\ UNCHANGED <<message, triage, batches, op, arr, fact, failures, receipts, outbox, prereq, router, crashes>>

\* the prerequisite task is completed and drained
PrereqSettles ==
    /\ ~prereq.settled
    /\ prereq' = [prereq EXCEPT !.settled = TRUE]
    /\ UNCHANGED <<message, source, triage, batches, op, arr, fact, failures, receipts, outbox, router, crashes>>

\* it is reopened or revised
PrereqChanges ==
    /\ prereq.version < MaxPrereq
    /\ prereq' = [version |-> prereq.version + 1, settled |-> FALSE]
    /\ UNCHANGED <<message, source, triage, batches, op, arr, fact, failures, receipts, outbox, router, crashes>>

\* recordRouterFact, about a task that was created or changed for some sources
ProduceFact(f) ==
    /\ fact[f].state = "none"
    /\ \E o \in receipts :
          fact' = [fact EXCEPT ![f].refs = op[o].refs,
                               ![f].state = IF \E s \in op[o].refs : source[s].retired
                                              THEN "blocked" ELSE "pending"]
    /\ UNCHANGED <<message, source, triage, batches, op, arr, failures, receipts, outbox, prereq, router, crashes>>

\* projectRouterFacts: routerEnqueueFact, once per fact, and then router.fact.enqueued
EnqueueFact(f) ==
    /\ fact[f].state = "pending" /\ ~fact[f].enqueued
    /\ fact' = [fact EXCEPT ![f].enqueued = TRUE]
    /\ queue' = queue \cup {FactInput(f)}
    /\ UNCHANGED <<message, source, triage, active, abandoned, decision, op, arr, failures,
                   receipts, outbox, prereq, router, crashes>>

FactEnqueued(f) ==
    /\ fact[f].state = "pending" /\ fact[f].enqueued
    /\ fact' = [fact EXCEPT ![f].state = "enqueued"]
    /\ UNCHANGED <<message, source, triage, batches, op, arr, failures, receipts, outbox, prereq, router, crashes>>

-----------------------------------------------------------------------------
(* A pass: applying what was decided                                         *)

\* schedule; the recovery timer starts a pass every five seconds
StartPass ==
    /\ At("idle")
    /\ router' = [Idle EXCEPT !.pc = "apply"]
    /\ UNCHANGED <<message, source, triage, batches, op, arr, fact, failures, receipts, outbox, prereq, crashes>>

(* Every item of applyPending either moves on or throws, which ends the pass. *)
Throw(keys) == RecordFailure(keys) /\ Goto("idle")

(* prepareRouterReply refuses a source that turned out to be the assistant's *)
(* own, but finds a reply it prepared before; for an outdated source it      *)
(* retires the reply.                                                        *)
ReplyMayPass(o, s) == <<o, s>> \in outbox \/ ~(Newest(s) /\ Own(s) = "evident")
ReplyMayFail(o, s) ==
    /\ Newest(s)
    /\ \/ Own(s) = "evident" /\ <<o, s>> \notin outbox
       \/ Own(s) # "retired" /\ "reply" \in Faults

TriageReplyDue(s) ==
    /\ triage[s].reply = "pending"
    /\ Failures("reply", 0, {s}) \cap failed # {} => Stale(s)

(* A reply that is prepared is on record only after it: the record may fail, *)
(* or the host die, in between.                                              *)
HostDies == crashes < MaxCrashes /\ crashes' = crashes + 1 /\ router' = Idle

Unrecorded(keys) ==
    \/ "reply" \in Faults /\ Throw(keys) /\ UNCHANGED crashes
    \/ HostDies /\ UNCHANGED failures

\* the reply of a triage is prepared, or retired with its source, and recorded
TriageReply(s) ==
    /\ At("apply")
    /\ TriageReplyDue(s)
    /\ \/ /\ ReplyMayPass(0, s)
          /\ outbox' = outbox \cup {<<0, s>>}
          /\ \/ /\ triage' = [triage EXCEPT ![s].reply = "applied"]
                /\ ResolveFailure(Failures("reply", 0, {s}))
                /\ UNCHANGED <<router, crashes>>
             \/ Unrecorded(Failures("reply", 0, {s})) /\ UNCHANGED triage
       \/ /\ ReplyMayFail(0, s)
          /\ Throw(Failures("reply", 0, {s}))
          /\ UNCHANGED <<triage, outbox, crashes>>
    /\ UNCHANGED <<message, source, batches, op, arr, fact, receipts, prereq>>

SilentDue(s) == triage[s].verdict = "silent" /\ triage[s].reply # "pending" /\ source[s].routed = "no"

\* what there is to do with the triage rows, which come first
TriageDue == \E s \in Sources : TriageReplyDue(s) \/ SilentDue(s)

(* reconciliationOnly: a blocked operation is only looked up, and only when  *)
(* a source of it is stale; without a receipt nothing happens.               *)
Reconciled(o) ==
    /\ \E s \in op[o].refs : Stale(s)
    /\ op[o].kind = "task" => o \in receipts

OpDue(o) == op[o].status = "pending" /\ (Blocks(OpFailures(o)) => Reconciled(o))

\* Mutant: a rejected operation stays undone whatever retried it
Fulfilled_Itself == [o \in Ops |-> op[o].status = "applied"]

\* applied itself, or through the operation that retried it
Fulfilled ==
    LET done[o \in Ops] ==
            \/ op[o].status = "applied"
            \/ /\ op[o].status = "rejected"
               /\ op[o].retriedBy > o
               /\ done[op[o].retriedBy]
    IN  done

\* Mutant: an operation that was not applied counts as done with
Complete_Rejected(d) == \A o \in Ops : op[o].dec = d => op[o].status \in {"applied", "rejected"}

Complete(d) == \A o \in Ops : op[o].dec = d => Fulfilled[o]

DecidedDue(s) ==
    /\ source[s].routed = "no"
    /\ \E d \in 1 .. MaxDecisions : SourceInput(s) \in decision[d] /\ Complete(d)

(* sourceProcessed: source.directProcessed, or source.routed for a source    *)
(* that was superseded.  For a source retired as own it throws, and nothing  *)
(* is recorded.                                                              *)
SourceProcessed(s) ==
    /\ At("apply")
    /\ \/ SilentDue(s)
       \/ DecidedDue(s) /\ ~TriageDue /\ ~\E o \in Ops : OpDue(o)
    /\ IF source[s].retired
         THEN Goto("idle") /\ UNCHANGED source
         ELSE /\ source' = [source EXCEPT ![s].routed = IF NewerRecorded(s) THEN "superseded" ELSE "done"]
              /\ UNCHANGED router
    /\ UNCHANGED <<message, triage, batches, op, arr, fact, failures, receipts, outbox, prereq, crashes>>

\* the sources of an operation must be current, and not the assistant's own
Admissible(o) == \A s \in op[o].refs : Newest(s) /\ Own(s) = "no" /\ ~source[s].retired

DependencyHolds(o) == op[o].dep = 0 \/ (prereq.settled /\ op[o].dep = prereq.version)

\* Mutant: the receipt of an application is not looked up before it is tried again
Refused_Again(o) == Admissible(o) /\ ~DependencyHolds(o)

\* known-not-applied: the prerequisite changed, and there is no receipt
Refused(o) == o \notin receipts /\ Admissible(o) /\ ~DependencyHolds(o)

(* applyRouterAction: a receipt is replayed; without one the checks and the  *)
(* command are one transaction under the group's lock.  What follows the     *)
(* command (stopping executions, materialising sources) may still fail.      *)
ApplyTask(o) ==
    /\ At("apply") /\ ~TriageDue
    /\ OpDue(o) /\ op[o].kind = "task"
    /\ LET applies == o \in receipts \/ (Admissible(o) /\ DependencyHolds(o))
       IN  \/ /\ Refused(o)
              /\ router' = [router EXCEPT !.pc = "reject", !.op = o]
              /\ UNCHANGED <<receipts, failures>>
           \/ /\ ~Refused(o) /\ applies
              /\ receipts' = receipts \cup {o}
              /\ router' = [router EXCEPT !.pc = "record", !.op = o]
              /\ UNCHANGED failures
           \/ /\ ~Refused(o) /\ applies /\ "apply" \in Faults
              /\ receipts' \in {receipts, receipts \cup {o}}
              /\ Throw(IF Blocks(OpFailures(o)) THEN {} ELSE OpFailures(o))
           \/ /\ ~Refused(o) /\ ~applies
              /\ Throw(OpFailures(o))
              /\ UNCHANGED receipts
    /\ UNCHANGED <<message, source, triage, batches, op, arr, fact, outbox, prereq, crashes>>

\* a reply of a decision, like the reply of a triage
ApplyReply(o) ==
    /\ At("apply") /\ ~TriageDue
    /\ OpDue(o) /\ op[o].kind = "reply"
    /\ \E s \in op[o].refs :
          \/ /\ ReplyMayPass(o, s)
             /\ outbox' = outbox \cup {<<o, s>>}
             /\ \/ /\ op' = [op EXCEPT ![o].status = "applied"]
                   /\ ResolveFailure(OpFailures(o))
                   /\ UNCHANGED <<router, crashes>>
                \/ Unrecorded(OpFailures(o)) /\ UNCHANGED op
          \/ /\ ReplyMayFail(o, s)
             /\ Throw(OpFailures(o))
             /\ UNCHANGED <<op, outbox, crashes>>
    /\ UNCHANGED <<message, source, triage, batches, arr, fact, receipts, prereq>>

\* routerRecordApplication, routerResolveFailure
RecordApplication ==
    /\ At("record")
    /\ op' = [op EXCEPT ![router.op].status = "applied"]
    /\ ResolveFailure(OpFailures(router.op))
    /\ router' = [router EXCEPT !.pc = "apply", !.op = 0]
    /\ UNCHANGED <<message, source, triage, batches, arr, fact, receipts, outbox, prereq, crashes>>

\* routerRecordRejection, routerResolveFailure: the arrangement waits again, and a retry is queued
RecordRejection ==
    /\ At("reject")
    /\ LET o == router.op
       IN  /\ op' = [op EXCEPT ![o].status = "rejected"]
           /\ arr' = [a \in Arrangements |->
                         IF a = op[o].arr /\ arr[a].op = o
                           THEN [arr[a] EXCEPT !.status = "waiting", !.rev = @ + 1, !.op = 0] ELSE arr[a]]
           /\ queue' = queue \cup {RetryInput(o)}
           /\ ResolveFailure(OpFailures(o))
    /\ router' = [router EXCEPT !.pc = "apply", !.op = 0]
    /\ UNCHANGED <<message, source, triage, active, abandoned, decision, fact, receipts, outbox, prereq, crashes>>

NothingDue == ~TriageDue /\ (\A o \in Ops : ~OpDue(o)) /\ \A s \in Sources : ~DecidedDue(s)

\* readSources: not routed yet, in its newest version, and not the assistant's own
Unrouted ==
    {s \in Sources : /\ source[s].recorded /\ ~source[s].retired /\ source[s].routed = "no"
                     /\ Newest(s) /\ Own(s) = "no"}

\* routerRotate refuses while anything is pending, and the pass ends
RotationBusy ==
    \/ \E o \in Ops : op[o].status = "pending"
    \/ \E s \in Sources : \/ triage[s].reply = "pending"
                          \/ Newest(s) /\ Own(s) # "retired" /\ triage[s].verdict = "none"

Applied ==
    /\ At("apply")
    /\ NothingDue
    /\ router' = CASE router.then = "read"   -> [router EXCEPT !.pc = "triage", !.todo = Unrouted]
                   [] router.then = "triage" -> [router EXCEPT !.pc = "triage"]
                   [] OTHER -> [router EXCEPT !.pc = IF queue = {} /\ RotationBusy THEN "idle" ELSE "loop"]
    /\ UNCHANGED <<message, source, triage, batches, op, arr, fact, failures, receipts, outbox, prereq, crashes>>

-----------------------------------------------------------------------------
(* A pass: triage                                                            *)

TriageBlocked(s) == Failures("triage", 0, {s}) \cap failed # {}

\* triaged before, perhaps by a pass whose session failed to close: the failure is resolved
TriageKnown(s) ==
    /\ At("triage") /\ s \in router.todo
    /\ triage[s].verdict # "none"
    /\ ResolveFailure(Failures("triage", 0, {s}))
    /\ router' = [router EXCEPT !.todo = @ \ {s}]
    /\ UNCHANGED <<message, source, triage, batches, op, arr, fact, receipts, outbox, prereq, crashes>>

\* the triage of a source failed and nobody has asked for a retry
TriageSkipped(s) ==
    /\ At("triage") /\ s \in router.todo
    /\ triage[s].verdict = "none" /\ TriageBlocked(s)
    /\ router' = [router EXCEPT !.todo = @ \ {s}]
    /\ UNCHANGED <<message, source, triage, batches, op, arr, fact, failures, receipts, outbox, prereq, crashes>>

\* triageAccept; what needs no processing is not queued
TriageAccept(s) ==
    /\ At("triage") /\ s \in router.todo
    /\ triage[s].verdict = "none" /\ ~TriageBlocked(s)
    /\ Newest(s) /\ Own(s) = "no"
    /\ \E verdict \in {"silent", "process"}, reply \in {"none", "pending"} :
          /\ triage' = [triage EXCEPT ![s] = [verdict |-> verdict, reply |-> reply]]
          /\ queue' = IF verdict = "process" THEN queue \cup {SourceInput(s)} ELSE queue
    /\ ResolveFailure(Failures("triage", 0, {s}))
    /\ router' = [router EXCEPT !.pc = "apply", !.then = "triage", !.todo = @ \ {s}]
    /\ UNCHANGED <<message, source, active, abandoned, decision, op, arr, fact, receipts, outbox, prereq, crashes>>

\* the model submits nothing acceptable, or the source is stale by then
TriageFails(s) ==
    /\ At("triage") /\ s \in router.todo
    /\ triage[s].verdict = "none" /\ ~TriageBlocked(s)
    /\ "triage" \in Faults \/ ~Newest(s) \/ Own(s) # "no"
    /\ Throw(Failures("triage", 0, {s}))
    /\ UNCHANGED <<message, source, triage, batches, op, arr, fact, receipts, outbox, prereq, crashes>>

Triaged ==
    /\ At("triage") /\ router.todo = {}
    /\ Goto("loop")
    /\ UNCHANGED <<message, source, triage, batches, op, arr, fact, failures, receipts, outbox, prereq, crashes>>

-----------------------------------------------------------------------------
(* A pass: batches                                                           *)

CanWake(a) ==
    /\ arr[a].status = "waiting"
    /\ prereq.settled
    /\ <<arr[a].rev, prereq.version>> \notin arr[a].woken

\* wakeReadyArrangements: once per revision of the arrangement and version of the prerequisite
WakeArrangement(a) ==
    /\ At("loop")
    /\ CanWake(a)
    /\ LET wake == <<arr[a].rev, prereq.version>>
       IN  /\ arr' = [arr EXCEPT ![a].woken = @ \cup {wake}]
           /\ queue' = queue \cup {DependencyInput(a, wake)}
    /\ UNCHANGED <<message, source, triage, active, abandoned, decision, op, fact, failures,
                   receipts, outbox, prereq, router, crashes>>

AllAwake == \A a \in Arrangements : ~CanWake(a)

\* Mutant: a claim takes over what is queued since, beside the batch a crash left
Claim_Merges ==
    /\ At("loop") /\ AllAwake
    /\ active \cup queue # {}
    /\ active' = active \cup queue /\ queue' = {}
    /\ Goto("claimed")
    /\ UNCHANGED <<message, source, triage, abandoned, decision, op, arr, fact, failures,
                   receipts, outbox, prereq, crashes>>

\* routerClaim: the batch there is, or else the whole queue
Claim ==
    /\ At("loop") /\ AllAwake
    /\ active \cup queue # {}
    /\ IF active # {} THEN UNCHANGED <<active, queue>> ELSE active' = queue /\ queue' = {}
    /\ Goto("claimed")
    /\ UNCHANGED <<message, source, triage, abandoned, decision, op, arr, fact, failures,
                   receipts, outbox, prereq, crashes>>

PassEnds ==
    /\ At("loop") /\ AllAwake
    /\ active \cup queue = {}
    /\ Goto("idle")
    /\ UNCHANGED <<message, source, triage, batches, op, arr, fact, failures, receipts, outbox, prereq, crashes>>

\* routerReleaseStale: stale inputs are abandoned, the others queued again
ReleaseStale ==
    /\ At("claimed") /\ Outdated # {}
    /\ active' = {}
    /\ queue' = queue \cup (active \ Outdated)
    /\ abandoned' = abandoned \cup Outdated
    /\ ResolveFailure(TurnFailures)
    /\ Goto("loop")
    /\ UNCHANGED <<message, source, triage, decision, op, arr, fact, receipts, outbox, prereq, crashes>>

\* readSource throws for a source that was retired, before anything would record the failure
Unreadable == \E s \in Exposed : source[s].retired

\* the turn on a batch begins, unless an earlier one failed and nobody has asked for a retry
BeginTurn ==
    /\ At("claimed") /\ Outdated = {}
    /\ Goto(IF Unreadable \/ Blocks(TurnFailures) THEN "idle" ELSE "running")
    /\ UNCHANGED <<message, source, triage, batches, op, arr, fact, failures, receipts, outbox, prereq, crashes>>

Proposals == [kind : {"task", "reply"}, refs : SUBSET Exposed \ {{}}, arr : Arrangements \cup {None},
              dep : {0, prereq.version}, retryOf : 0 .. MaxOps]

\* Mutant: an arrangement is taken up though its task was decided on before
Available_Known(a) == arr[a].status # "none"

\* nobody has taken the arrangement up, and no retry of it is queued
Available(a) ==
    /\ arr[a].status = "waiting"
    /\ \A o \in Ops : RetryInput(o) \in queue => op[o].arr # a

(* What router_submit and routerCommit accept: a reply to one current source, *)
(* a task action on sources of the batch, perhaps on a settled prerequisite. *)
(* An arranged task is created on the sources of the arrangement; a retry    *)
(* repeats what was rejected.                                                *)
Proposable(p) ==
    /\ p.kind = "reply" =>
          /\ \E s \in Exposed : p.refs = {s} /\ Newest(s) /\ Own(s) # "retired"
          /\ p.arr = None /\ p.dep = 0 /\ p.retryOf = 0
    /\ p.dep # 0 => prereq.settled
    /\ p.arr # None =>
          /\ Available(p.arr)
          /\ p.refs = arr[p.arr].refs /\ \A s \in p.refs : Newest(s)
          /\ p.dep # 0
    /\ p.retryOf # 0 =>
          /\ RetryInput(p.retryOf) \in active
          /\ op[p.retryOf].status = "rejected" /\ op[p.retryOf].retriedBy = 0
          /\ p.arr = op[p.retryOf].arr /\ p.refs = op[p.retryOf].refs /\ p.dep # 0

RetriesDue == {o \in Ops : RetryInput(o) \in active}

\* each retry is answered once, and no arrangement is taken up twice
Answers(new) ==
    /\ \A o \in RetriesDue : \E j \in DOMAIN new : new[j].retryOf = o
    /\ \A j, k \in DOMAIN new : j # k =>
          /\ new[j].retryOf = new[k].retryOf => new[j].retryOf = 0
          /\ new[j].arr = new[k].arr => new[j].arr = None

\* operations are numbered in the order in which they are decided
Decided == Cardinality({o \in Ops : op[o].status # "absent"})
Decisions == {d \in 1 .. MaxDecisions : decision[d] # {}}
NextDecision == Cardinality(Decisions) + 1

(* The operations of a decision are numbered on from those there are; an     *)
(* operation that is retried is marked with the one that retries it.         *)
Adopt(n, new) ==
    op' = [o \in Ops |->
              IF o \in Decided + 1 .. Decided + n
                THEN LET p == new[o - Decided]
                     IN  [status |-> "pending", kind |-> p.kind, refs |-> p.refs, dec |-> NextDecision,
                          arr |-> p.arr, dep |-> p.dep, retryOf |-> p.retryOf, retriedBy |-> 0]
              ELSE IF \E j \in 1 .. n : new[j].retryOf = o
                THEN [op[o] EXCEPT !.retriedBy = Decided + CHOOSE j \in 1 .. n : new[j].retryOf = o]
              ELSE op[o]]

\* an arrangement is added, for current sources; others are taken up
Arrange(n, new, added, refs) ==
    /\ IF added = None
         THEN refs = {}
         ELSE arr[added].status = "none" /\ refs # {} /\ \A s \in refs : Newest(s)
    /\ arr' = [a \in Arrangements |->
                  IF a = added THEN [NoArr EXCEPT !.status = "waiting", !.refs = refs]
                  ELSE IF \E j \in 1 .. n : new[j].arr = a
                    THEN [arr[a] EXCEPT !.status = "accepted", !.op = Decided + CHOOSE j \in 1 .. n : new[j].arr = a]
                  ELSE arr[a]]

\* at most two operations are decided on at a time
BatchOps == IF MaxOps - Decided > 2 THEN 2 ELSE MaxOps - Decided

\* routerCommit: the batch becomes a decision with its operations and at most one arrangement
Commit ==
    /\ At("running")
    /\ NextDecision <= MaxDecisions
    /\ \A i \in active : i[1] = "source" => Newest(i[2])
    /\ \A o \in RetriesDue : \A s \in op[o].refs : Newest(s)
    /\ \E n \in 0 .. BatchOps :
       \E new \in [1 .. n -> {p \in Proposals : Proposable(p)}] :
       \E added \in Arrangements \cup {None}, refs \in SUBSET Exposed :
          /\ Answers(new)
          /\ Adopt(n, new)
          /\ Arrange(n, new, added, refs)
    /\ decision' = [decision EXCEPT ![NextDecision] = active]
    /\ active' = {}
    /\ ResolveFailure(TurnFailures)
    /\ router' = [router EXCEPT !.pc = "apply", !.then = "rotate"]
    /\ UNCHANGED <<message, source, triage, queue, abandoned, fact, receipts, outbox, prereq, crashes>>

(* The turn ends without an accepted decision: the model fails, a source of  *)
(* the batch became stale, or a retry cannot be decided on yet.              *)
TurnFails ==
    /\ At("running")
    /\ \/ "turn" \in Faults
       \/ \E s \in Exposed : ~Newest(s)
       \/ RetriesDue # {} /\ ~prereq.settled
    /\ Throw(Failures("turn", 0, Exposed))
    /\ UNCHANGED <<message, source, triage, batches, op, arr, fact, receipts, outbox, prereq, crashes>>

-----------------------------------------------------------------------------
(* People and crashes                                                        *)

\* retryMessageProcessing with the token of a recorded failure; retirement makes the token stale
HumanRetry(k) ==
    /\ k \in failed
    /\ Newest(k[2]) /\ Own(k[2]) # "retired"
    /\ failed' = failed \ {k} /\ retrying' = retrying \cup {k}
    /\ UNCHANGED <<message, source, triage, batches, op, arr, fact, receipts, outbox, prereq, router, crashes>>

\* the process dies in the middle of a pass
Crash ==
    /\ HostDies
    /\ UNCHANGED <<message, source, triage, batches, op, arr, fact, failures, receipts, outbox, prereq>>

-----------------------------------------------------------------------------
Pass ==
    \/ StartPass \/ Applied \/ Triaged \/ RecordApplication \/ RecordRejection
    \/ Claim \/ PassEnds \/ ReleaseStale \/ BeginTurn \/ Commit \/ TurnFails
    \/ \E s \in Sources :
          TriageReply(s) \/ SourceProcessed(s) \/ TriageKnown(s) \/ TriageSkipped(s)
          \/ TriageAccept(s) \/ TriageFails(s)
    \/ \E o \in Ops : ApplyTask(o) \/ ApplyReply(o)
    \/ \E a \in Arrangements : WakeArrangement(a)

Surroundings ==
    \/ \E m \in Messages : Ingest(m) \/ OwnEvidence(m) \/ RetireMessage(m)
    \/ \E s \in Sources : RecordSource(s) \/ RetireSource(s)
    \/ PrereqSettles \/ PrereqChanges
    \/ \E f \in Facts : ProduceFact(f) \/ EnqueueFact(f) \/ FactEnqueued(f)
    \/ \E k \in FailureKeys : HumanRetry(k)
    \/ Crash

Next == Pass \/ Surroundings

Spec == Init /\ [][Next]_vars

(* The recovery timer starts passes, records sources and retires messages    *)
(* over and over; a pass that runs goes on.  The command of an application   *)
(* does not fail for ever.  Nothing is asked of people.                      *)
Fairness ==
    /\ WF_vars(Pass)
    /\ \A o \in Ops : SF_vars(ApplyTask(o) /\ router'.pc = "record")
    /\ \A s \in Sources : WF_vars(RecordSource(s)) /\ WF_vars(RetireSource(s))
    /\ \A m \in Messages : WF_vars(RetireMessage(m))
    /\ \A f \in Facts : WF_vars(EnqueueFact(f)) /\ WF_vars(FactEnqueued(f))

FairSpec == Spec /\ Fairness

-----------------------------------------------------------------------------
(* Properties                                                                *)

TypeOK ==
    /\ message \in [Messages -> [version : 0 .. MaxVersion, own : {"no", "evident", "retired"}]]
    /\ source \in [Sources -> [recorded : BOOLEAN, retired : BOOLEAN,
                               routed : {"no", "done", "superseded"}]]
    /\ triage \in [Sources -> [verdict : {"none", "silent", "process"},
                               reply : {"none", "pending", "applied"}]]
    /\ queue \subseteq Inputs /\ active \subseteq Inputs /\ abandoned \subseteq Inputs
    /\ decision \in [1 .. MaxDecisions -> SUBSET Inputs]
    /\ op \in [Ops -> OpRow]
    /\ arr \in [Arrangements -> ArrRow]
    /\ fact \in [Facts -> [state : {"none", "pending", "blocked", "enqueued"},
                           refs : SUBSET Sources, enqueued : BOOLEAN]]
    /\ failed \subseteq FailureKeys /\ retrying \subseteq FailureKeys
    /\ receipts \subseteq Ops /\ outbox \subseteq (0 .. MaxOps) \X Sources
    /\ prereq \in [version : 1 .. MaxPrereq, settled : BOOLEAN]
    /\ router \in RouterRow
    /\ crashes \in 0 .. MaxCrashes

Place ==
    [i \in Inputs |->
        IF i \in queue THEN "queued"
        ELSE IF i \in active THEN "claimed"
        ELSE IF i \in abandoned THEN "dropped"
        ELSE IF \E d \in 1 .. MaxDecisions : i \in decision[d] THEN "consumed"
        ELSE "out"]

Batches == INSTANCE Inbox WITH Items <- Inputs, place <- Place

(* Each message version, fact, rejected operation and wake comes before the  *)
(* router model once: it is decided on in one decision, or abandoned as      *)
(* stale, and neither crashes nor failed turns nor releases repeat or lose it. *)
ImplementsInbox == Batches!Spec

(* The router's record of an operation and its effect agree: what is taken   *)
(* for rejected never happened, what is taken for applied did.               *)
RecordsAgree ==
    \A o \in Ops : op[o].kind = "task" =>
        /\ op[o].status = "rejected" => o \notin receipts
        /\ op[o].status = "applied" => o \in receipts

(* An arranged task is created by one operation at most, whatever was        *)
(* rejected, retried and woken, and an arrangement whose task exists is no   *)
(* longer waiting.                                                           *)
ArrangedOnce ==
    \A a \in Arrangements :
        /\ \A o, p \in receipts : op[o].arr = a /\ op[p].arr = a => o = p
        /\ \A o \in receipts : op[o].arr = a => arr[a].status = "accepted" /\ arr[a].op = o

(* A source counts as processed only when everything decided on it is done:  *)
(* each task action took effect, itself or in the retry of a rejected one.   *)
RoutedIsDone ==
    \A s \in Sources : source[s].routed = "done" /\ triage[s].verdict = "process" =>
        \E d \in 1 .. MaxDecisions :
            /\ SourceInput(s) \in decision[d]
            /\ \A o \in Ops : op[o].dec = d =>
                  \E p \in Ops : /\ p = o \/ (p > o /\ op[o].status = "rejected")
                                 /\ op[p].status = "applied" /\ op[p].arr = op[o].arr /\ op[p].refs = op[o].refs
                                 /\ op[o].kind = "task" => p \in receipts

(* A failure is on record that a person can have retried: any failure of an  *)
(* application, of a reply or of the turn, or of the triage of s itself.     *)
AwaitsPerson(s) == \E k \in failed : Newest(k[2]) /\ (k[1][1] = "triage" => k[2] = s)

Awaited(s) == source[s].recorded /\ Newest(s) /\ Own(s) = "no"
SettledOrHeld(s) == source[s].routed # "no" \/ ~Newest(s) \/ Own(s) # "no" \/ AwaitsPerson(s)

(* What no pass and no person gets going again: a task action decided on a  *)
(* version that was overtaken before it took effect, which every pass stops  *)
(* at; and a rejected action whose retry was abandoned because one of        *)
(* several sources was edited, which leaves its decision incomplete.         *)
Overrun(o) ==
    /\ op[o].status = "pending" /\ op[o].kind = "task" /\ o \notin receipts
    /\ \E s \in op[o].refs : ~Newest(s)

Forgone(o) == op[o].status = "rejected" /\ op[o].retriedBy = 0 /\ RetryInput(o) \in abandoned

(* A recorded source is processed in the end, or becomes outdated, or waits  *)
(* for a person, unless an action was overrun or forgone.                    *)
SourceSettles ==
    \A s \in Sources :
        Awaited(s) ~> (SettledOrHeld(s) \/ \E o \in Ops : Overrun(o) \/ Forgone(o))

(* A batch that was given a message of the assistant is released once the    *)
(* message is retired as such.                                               *)
BarrierLifts == \A s \in Sources : source[s].retired ~> (s \notin Exposed)
=============================================================================
