----------------------------- MODULE TaskLedger -----------------------------
(***************************************************************************)
(* The dynamic control store (dynamic-task-store.js) as its Host drives it *)
(* (task-session-service.js): task, execution, operation, resource-lock    *)
(* and wake rows; the Owner turn of a task and the native session of an    *)
(* execution, which hold leases on those rows; and the external effects    *)
(* that operations start.  Every store command is one SQLite transaction,  *)
(* hence one action.  A crash loses the sessions, never a row and never an *)
(* effect that is already running outside the process.                     *)
(*                                                                         *)
(* Ids are fixed: an execution belongs to TaskOf[e], an operation to       *)
(* ExecOf[o]; an id is used once, as the store's UUID and digest keys are. *)
(***************************************************************************)
EXTENDS Naturals, FiniteSets

CONSTANTS
    Tasks, Executions, Operations,
    Keys,              \* canonical resource keys
    KeySets,           \* the key sets an execution or operation may ask for
    TaskOf, ExecOf,    \* owner task of an execution, owner execution of an operation
    Nobody,            \* "no holder", "no operation"
    FeedbackKinds,     \* channels of execution feedback in play
    Controls,          \* values task.control is sent (the Host sends only "cancelled")
    Faults,            \* sessions that may fail to drain: subset of {"owner", "execution"}
    MaxRevision,       \* bound on requirementRevision and controlRevision
    MaxContext,        \* bound on contextRevision
    MaxTurns,          \* bound on a task's leaseEpoch
    MaxRuns,           \* bound on an execution's leaseEpoch
    MaxInputs,         \* bound on inputVersion
    MaxCrashes         \* bound on host crashes

ASSUME ConstantsAssumption ==
    /\ TaskOf \in [Executions -> Tasks]
    /\ ExecOf \in [Operations -> Executions]
    /\ Executions \cap Operations = {}
    /\ KeySets \in [Executions \cup Operations -> SUBSET SUBSET Keys]
    /\ Nobody \notin Executions \cup Operations
    /\ FeedbackKinds \subseteq {"owner", "peer"}
    /\ Controls \subseteq {"active", "paused", "cancelled"}
    /\ Faults \subseteq {"owner", "execution"}
    /\ \A b \in {MaxRevision, MaxContext, MaxTurns, MaxRuns, MaxInputs, MaxCrashes} : b \in Nat

VARIABLES
    task,      \* dynamic_tasks
    owner,     \* the Owner turn of each task and the revisions its binding carries;
               \* phase lost: its session failed to drain and nobody will report it
    exec,      \* dynamic_executions
    run,       \* the native session of each execution: none / live; ended or raced: it is
               \* gone and kickExecution reports it; orphan: it failed to drain
    op,        \* dynamic_operations
    acting,    \* operations whose external effect may still be going on
    lock,      \* dynamic_resource_locks: resource_key -> holder
    wake,      \* dynamic_wakes that are not acked
    seen,      \* history, for the current input of each execution: no / shown (a turn that
               \* began after the result was drained is running) / judged (it submitted)
    crashes    \* host crashes so far

vars == <<task, owner, exec, run, op, acting, lock, wake, seen, crashes>>

-----------------------------------------------------------------------------
(* Row types.                                                              *)

Holders == Executions \cup Operations

TaskRow ==
    [status : {"absent", "active", "completed", "cancelled"},
     control : {"active", "paused", "cancelled"},
     req : Nat, ctl : Nat, ctx : Nat,             \* requirement/control/contextRevision
     lease : Nat, drained : BOOLEAN, recovering : BOOLEAN,
     archived : BOOLEAN,
     question : BOOLEAN,                          \* a task-wide humanRequest waits for its reply
     gate : SUBSET Operations]                    \* restartRecoveryOperations

ExecRow ==
    [status : {"absent", "queued", "running", "succeeded", "failed", "cancelled", "stale"},
     req : Nat, ctl : Nat, input : Nat, lease : Nat,
     drained : BOOLEAN, recovering : BOOLEAN, cancelReq : BOOLEAN,
     result : {"none", "output", "error"}, current : BOOLEAN,
     keys : SUBSET Keys, leased : BOOLEAN,        \* resourceKeys, resourceLease
     unread : SUBSET {"owner", "peer"},           \* current feedback not yet consumed
     readback : Operations \cup {Nobody}]         \* recoveryReadOnly's readbackOperationId

OpRow ==
    [state : {"absent", "prepared", "starting", "unknown", "succeeded", "failed", "cancelled"},
     req : Nat, ctl : Nat, lease : Nat,
     keys : SUBSET Keys, held : BOOLEAN,          \* resourceHolder is the execution
     refused : BOOLEAN,                           \* its one operation.start was turned down
     restart : BOOLEAN, isolated : BOOLEAN]       \* recoveryReason, recoverySettlement

WakeRow ==
    [task : Tasks, kind : {"note", "result", "drained"},
     ref : Tasks \cup Executions, input : Nat, state : {"pending", "claimed"}, lease : Nat]

TurnRow == [phase : {"none", "running", "submitted", "acked", "lost"}, req : Nat, ctl : Nat, ctx : Nat]

NoTurn(phase) == [phase |-> phase, req |-> 0, ctl |-> 0, ctx |-> 0]

NewTask == [status |-> "absent", control |-> "active", req |-> 0, ctl |-> 0, ctx |-> 0,
            lease |-> 0, drained |-> TRUE,
            recovering |-> FALSE, archived |-> FALSE, question |-> FALSE, gate |-> {}]

NewExec == [status |-> "absent", req |-> 0, ctl |-> 0, input |-> 0, lease |-> 0,
            drained |-> TRUE, recovering |-> FALSE, cancelReq |-> FALSE,
            result |-> "none", current |-> FALSE, keys |-> {}, leased |-> FALSE,
            unread |-> {}, readback |-> Nobody]

NewOp == [state |-> "absent", req |-> 0, ctl |-> 0, lease |-> 0, keys |-> {},
          held |-> FALSE, refused |-> FALSE, restart |-> FALSE, isolated |-> FALSE]

Init ==
    /\ task = [t \in Tasks |-> NewTask]
    /\ owner = [t \in Tasks |-> NoTurn("none")]
    /\ exec = [e \in Executions |-> NewExec]
    /\ run = [e \in Executions |-> "none"]
    /\ op = [o \in Operations |-> NewOp]
    /\ acting = {}
    /\ lock = [k \in Keys |-> Nobody]
    /\ wake = {}
    /\ seen = [e \in Executions |-> "no"]
    /\ crashes = 0

-----------------------------------------------------------------------------
(* Predicates of the store.                                                *)

terminalOperations == {"succeeded", "failed", "cancelled"}
terminalExecutions == {"succeeded", "failed", "cancelled", "stale"}

ExecsOf(t) == {e \in Executions : TaskOf[e] = t /\ exec[e].status # "absent"}
OpsOf(e) == {o \in Operations : ExecOf[o] = e /\ op[o].state # "absent"}

\* operationBlocksRecovery: not settled, and not audited as isolated after a restart
BlocksIn(ops, o) == ops[o].state \notin terminalOperations \cup {"absent"} /\ ~ops[o].isolated
operationBlocksRecovery(o) == BlocksIn(op, o)

Active(t) == ~task[t].archived /\ task[t].status = "active" /\ task[t].control = "active"

\* currentTask(binding): the turn's lease is live and its revisions are still the task's
LeaseHeld(t) == owner[t].phase \notin {"none", "lost"} /\ ~task[t].drained
BindingCurrent(t) ==
    /\ LeaseHeld(t)
    /\ ~task[t].recovering
    /\ owner[t].req = task[t].req /\ owner[t].ctl = task[t].ctl /\ owner[t].ctx = task[t].ctx
currentTask(t) == owner[t].phase = "running" /\ BindingCurrent(t) /\ Active(t)

executionCurrent(e) ==
    /\ Active(TaskOf[e])
    /\ ~exec[e].recovering
    /\ exec[e].req = task[TaskOf[e]].req
    /\ exec[e].ctl = task[TaskOf[e]].ctl
    /\ ~exec[e].cancelReq

\* assertScope of an execution binding: its session may still touch the world
assertScope(e) ==
    run[e] = "live" /\ ~exec[e].drained /\ exec[e].status = "running" /\ executionCurrent(e)

\* Mutant: completion forgets operations that outlive their execution
assertClear_ExecutionsOnly(t) ==
    \A e \in ExecsOf(t) : exec[e].drained /\ exec[e].status \in terminalExecutions

\* assertClear: nothing of the task is still running or undecided
assertClear(t) ==
    \A e \in ExecsOf(t) : /\ exec[e].drained /\ exec[e].status \in terminalExecutions
                          /\ \A o \in OpsOf(e) : ~operationBlocksRecovery(o)

\* restartRecoveryPending, and the read-only gate it puts on new work
restartRecoveryPending(t) == {o \in task[t].gate : operationBlocksRecovery(o)}
\* Mutant: only operations a restart interrupted close the gate
PassesGate_InterruptedOnly(t, rb) ==
    (\E o \in restartRecoveryPending(t) : op[o].restart) => rb \in restartRecoveryPending(t)

PassesGate(t, rb) == restartRecoveryPending(t) # {} => rb \in restartRecoveryPending(t)

\* an operation a read-only input may be dispatched to inspect
Readable(t, rb) == rb # Nobody => op[rb].state # "absent" /\ TaskOf[ExecOf[rb]] = t

-----------------------------------------------------------------------------
(* Resource locks.                                                         *)

heldKeys(h) == {k \in Keys : lock[k] = h}
Lockable(ks, h) == \A k \in ks : lock[k] \in {h, Nobody}
LockAll(ks, h) == [k \in Keys |-> IF k \in ks THEN h ELSE lock[k]]
Release(lk, H) == [k \in Keys |-> IF lk[k] \in H THEN Nobody ELSE lk[k]]

\* Mutant: keys are freed on drain although an operation is undecided
Releasable_OnDrain(ex, ops, E) == {e \in E : ex[e].leased /\ ex[e].drained}

\* releaseExecution frees an execution's keys only when it is drained and none
\* of its operations is undecided, given the rows ex and ops being committed
Releasable(ex, ops, E) ==
    {e \in E : /\ ex[e].leased /\ ex[e].drained
               /\ \A o \in Operations : ExecOf[o] = e => ~BlocksIn(ops, o)}

\* put the execution and operation rows, then releaseExecution every e in E;
\* O are the operations whose own locks are released
Commit(ex, ops, E, O) ==
    LET R == Releasable(ex, ops, E) IN
    /\ exec' = [e \in Executions |-> IF e \in R THEN [ex[e] EXCEPT !.leased = FALSE] ELSE ex[e]]
    /\ op' = ops
    /\ lock' = Release(lock, R \cup O)

-----------------------------------------------------------------------------
(* Wakes.  Acked wakes leave the set; equal pending wakes coincide.  A note *)
(* stands for every cause but an execution's result.                       *)

Wake(t, k, r, i) == [task |-> t, kind |-> k, ref |-> r, input |-> i, state |-> "pending", lease |-> 0]
Note(t) == Wake(t, "note", t, 0)
WakesOf(t) == {w \in wake : w.task = t}

\* Mutant: a claimed result wake also counts, so its Owner gets no follow-up
ResultWakePending_Unacked(e) ==
    \E w \in WakesOf(TaskOf[e]) : w.kind = "result" /\ w.ref = e /\ w.input = exec[e].input

ResultWakePending(e) == Wake(TaskOf[e], "result", e, exec[e].input) \in wake

-----------------------------------------------------------------------------
(* Task commands.                                                          *)

TaskCreate(t) ==
    /\ task[t].status = "absent"
    /\ task' = [task EXCEPT ![t] = [task[t] EXCEPT !.status = "active", !.req = 1, !.ctl = 1]]
    /\ wake' = wake \cup {Note(t)}
    /\ UNCHANGED <<owner, exec, run, op, acting, lock, seen, crashes>>

\* The tail task.revise, task.reopen and task.control share: open questions are
\* superseded, unfinished executions are told to stop (queued ones are stale at
\* once), undispatched operations are cancelled, the Owner is woken.
Supersede(t, row) ==
    LET open == {e \in ExecsOf(t) : exec[e].status \notin terminalExecutions}
        ex == [e \in Executions |->
                 IF e \in open
                 THEN [exec[e] EXCEPT !.cancelReq = TRUE,
                                      !.status = IF exec[e].drained THEN "stale" ELSE @]
                 ELSE exec[e]]
        undispatched == {o \in Operations : TaskOf[ExecOf[o]] = t /\ op[o].state = "prepared"}
        ops == [o \in Operations |->
                 IF o \in undispatched THEN [op[o] EXCEPT !.state = "cancelled"] ELSE op[o]]
    IN  /\ task' = [task EXCEPT ![t] = [row EXCEPT !.question = FALSE]]
        /\ Commit(ex, ops, {ExecOf[o] : o \in undispatched}, undispatched)
        /\ wake' = wake \cup {Note(t)}
        /\ UNCHANGED <<owner, run, acting, seen, crashes>>

TaskRevise(t) ==
    /\ task[t].status \in {"active", "cancelled"} /\ ~task[t].archived
    /\ task[t].control # "cancelled"
    /\ task[t].req < MaxRevision
    /\ Supersede(t, [task[t] EXCEPT !.req = @ + 1])

\* restartReopenEligible: a cancelled task whose leftovers are only unknown
\* operations, each of a finished execution or of one a restart interrupted
Interrupted(o) ==
    /\ op[o].state = "unknown"
    /\ LET e == ExecOf[o] IN
         \/ exec[e].drained /\ exec[e].status \in terminalExecutions
         \/ op[o].restart /\ exec[e].cancelReq /\ exec[e].recovering
restartReopenEligible(t) ==
    /\ task[t].status = "cancelled" /\ task[t].control = "cancelled" /\ task[t].drained
    /\ \A e \in ExecsOf(t) :
         LET unresolved == {o \in OpsOf(e) : operationBlocksRecovery(o)} IN
         /\ \A o \in unresolved : Interrupted(o)
         /\ \/ exec[e].drained /\ exec[e].status \in terminalExecutions
            \/ exec[e].cancelReq /\ exec[e].recovering /\ \E o \in unresolved : op[o].restart

TaskReopen(t) ==
    LET unresolved == {o \in Operations : TaskOf[ExecOf[o]] = t /\ operationBlocksRecovery(o)}
        reopened(gate) == [task[t] EXCEPT !.status = "active", !.control = "active", !.gate = gate,
                                          !.ctl = @ + 1, !.req = @ + 1]
    IN  /\ ~task[t].archived
        /\ task[t].req < MaxRevision /\ task[t].ctl < MaxRevision
        /\ \/ /\ restartReopenEligible(t)
              /\ Supersede(t, reopened(unresolved))
           \/ /\ task[t].status = "completed" /\ task[t].drained /\ unresolved = {}
              /\ Supersede(t, reopened(task[t].gate))

\* Mutant: the control value is written to the status column
TaskControl_StatusIsControl(t, c) ==
    /\ task[t].status \in {"active", "cancelled"} /\ ~task[t].archived
    /\ task[t].ctl < MaxRevision
    /\ Supersede(t, [task[t] EXCEPT !.ctl = @ + 1, !.control = c, !.status = c])

TaskControl(t, c) ==
    /\ task[t].status \in {"active", "cancelled"} /\ ~task[t].archived
    /\ task[t].control = "cancelled" => c = "cancelled"
    /\ task[t].ctl < MaxRevision
    /\ Supersede(t, [task[t] EXCEPT !.ctl = @ + 1, !.control = c,
                                    !.status = IF c = "cancelled" THEN "cancelled" ELSE @])

\* New context for the same requirement; it reaches the running executions as
\* feedback, unless a question is open: then the Owner judges it first.
TaskSupplement(t) ==
    /\ task[t].status = "active" /\ Active(t)
    /\ task[t].ctx < MaxContext
    /\ task' = [task EXCEPT ![t].ctx = @ + 1]
    /\ exec' = [e \in Executions |->
                  IF /\ e \in ExecsOf(t) /\ ~task[t].question /\ executionCurrent(e)
                     /\ exec[e].status \notin terminalExecutions
                  THEN [exec[e] EXCEPT !.unread = @ \cup {"owner"}] ELSE exec[e]]
    /\ wake' = wake \cup {Note(t)}
    /\ UNCHANGED <<owner, run, op, acting, lock, seen, crashes>>

TaskArchive(t) ==
    /\ task[t].status = "completed" \/ task[t].control = "cancelled"
    /\ ~task[t].archived /\ task[t].drained /\ assertClear(t)
    /\ task' = [task EXCEPT ![t].archived = TRUE]
    /\ UNCHANGED <<owner, exec, run, op, acting, lock, wake, seen, crashes>>

-----------------------------------------------------------------------------
(* The Owner turn.                                                         *)

\* kickTask -> task.claim: one turn per task, over every wake not yet acked.  The
\* reads kickTask makes before the claim are part of the step: admissionHolds keeps
\* the commands that change status or control out of the gap.
TaskClaim(t) ==
    /\ Active(t) /\ owner[t].phase = "none"
    /\ task[t].drained /\ ~task[t].question
    /\ WakesOf(t) # {}
    /\ task[t].lease < MaxTurns
    /\ task' = [task EXCEPT ![t] = [task[t] EXCEPT !.lease = @ + 1, !.drained = FALSE, !.recovering = FALSE]]
    /\ owner' = [owner EXCEPT ![t] = [phase |-> "running", req |-> task[t].req,
                                      ctl |-> task[t].ctl, ctx |-> task[t].ctx]]
    /\ wake' = (wake \ WakesOf(t)) \cup
               {[w EXCEPT !.state = "claimed", !.lease = task[t].lease + 1] : w \in WakesOf(t)}
    /\ seen' = [e \in Executions |->
                  IF TaskOf[e] = t /\ exec[e].drained /\ exec[e].result # "none" /\ seen[e] = "no"
                  THEN "shown" ELSE seen[e]]
    /\ UNCHANGED <<exec, run, op, acting, lock, crashes>>

\* submit(wait): keep waiting, or (ask) put a question to a human
TaskWait(t, ask) ==
    /\ owner[t].phase = "running" /\ BindingCurrent(t)
    /\ task' = [task EXCEPT ![t].question = @ \/ ask]
    /\ owner' = [owner EXCEPT ![t].phase = "submitted"]
    /\ UNCHANGED <<exec, run, op, acting, lock, wake, seen, crashes>>

TaskComplete(t) ==
    /\ currentTask(t)
    /\ ~task[t].question
    /\ \A e \in ExecsOf(t) : exec[e].unread = {} \/ exec[e].req # task[t].req \/ exec[e].ctl # task[t].ctl
    /\ assertClear(t)
    /\ task' = [task EXCEPT ![t].status = "completed"]
    /\ owner' = [owner EXCEPT ![t].phase = "submitted"]
    /\ UNCHANGED <<exec, run, op, acting, lock, wake, seen, crashes>>

Seen(t, from, to) == [e \in Executions |-> IF TaskOf[e] = t /\ seen[e] = from THEN to ELSE seen[e]]

WakeAck(t) ==
    /\ owner[t].phase = "submitted" /\ LeaseHeld(t)
    /\ wake' = {w \in wake : ~(w.task = t /\ w.state = "claimed" /\ w.lease = task[t].lease)}
    /\ owner' = [owner EXCEPT ![t].phase = "acked"]
    /\ seen' = Seen(t, "shown", "judged")
    /\ UNCHANGED <<task, exec, run, op, acting, lock, crashes>>

\* The turn's finally block, which also ends turns that failed or went stale
\* without submitting: their wakes stay claimed and the next claim takes them.
TaskDrained(t) ==
    /\ LeaseHeld(t)
    /\ task' = [task EXCEPT ![t] = [task[t] EXCEPT !.drained = TRUE, !.recovering = FALSE]]
    /\ owner' = [owner EXCEPT ![t] = NoTurn("none")]
    /\ seen' = Seen(t, "shown", "no")
    /\ UNCHANGED <<exec, run, op, acting, lock, wake, crashes>>

\* taskSessionDrained = false: the finally block reports nothing, the row is not
\* marked recovering, and only a restart will look at it again
TaskDrainLost(t) ==
    /\ "owner" \in Faults
    /\ LeaseHeld(t)
    /\ owner' = [owner EXCEPT ![t] = NoTurn("lost")]
    /\ seen' = Seen(t, "shown", "no")
    /\ UNCHANGED <<task, exec, run, op, acting, lock, wake, crashes>>

\* recover(): the session of a recovering task is known to be gone
RecoverTask(t) ==
    /\ task[t].recovering /\ ~task[t].drained /\ owner[t].phase = "none"
    /\ task' = [task EXCEPT ![t] = [task[t] EXCEPT !.drained = TRUE, !.recovering = FALSE]]
    /\ UNCHANGED <<owner, exec, run, op, acting, lock, wake, seen, crashes>>

HumanRespond(t) ==
    /\ Active(t) /\ task[t].drained /\ ~task[t].recovering
    /\ task[t].question
    /\ task' = [task EXCEPT ![t].question = FALSE]
    /\ wake' = wake \cup {Note(t)}
    /\ UNCHANGED <<owner, exec, run, op, acting, lock, seen, crashes>>

-----------------------------------------------------------------------------
(* Executions.                                                             *)

ExecutionDispatch(e, ks, rb) ==
    LET t == TaskOf[e] IN
    /\ currentTask(t) /\ PassesGate(t, rb) /\ Readable(t, rb)
    /\ exec[e].status = "absent"
    /\ exec' = [exec EXCEPT ![e] = [NewExec EXCEPT !.status = "queued", !.input = 1, !.keys = ks,
                                       !.readback = rb, !.req = task[t].req, !.ctl = task[t].ctl]]
    /\ UNCHANGED <<task, owner, run, op, acting, lock, wake, seen, crashes>>

\* A new input for the same session.  Keys may change only while none is held
\* and no operation is undecided; undecided operations admit only a read-only input.
ExecutionContinue(e, ks, rb) ==
    LET t == TaskOf[e]
        undecided == \E o \in OpsOf(e) : operationBlocksRecovery(o)
        same == exec[e].req = task[t].req /\ exec[e].ctl = task[t].ctl
    IN
    /\ currentTask(t) /\ PassesGate(t, rb) /\ Readable(t, rb)
    /\ ~task[t].question
    /\ exec[e].status # "absent" /\ exec[e].drained /\ exec[e].lease > 0
    /\ undecided => rb # Nobody
    /\ ks # exec[e].keys => ~exec[e].leased /\ ~undecided
    /\ exec[e].input < MaxInputs
    /\ exec' = [exec EXCEPT ![e] = [exec[e] EXCEPT !.status = "queued", !.input = @ + 1, !.result = "none",
                                             !.current = FALSE, !.keys = ks, !.readback = rb, !.cancelReq = FALSE,
                                             !.req = task[t].req, !.ctl = task[t].ctl,
                                             !.unread = IF same THEN @ \ {"peer"} ELSE {}]]
    /\ seen' = [seen EXCEPT ![e] = "no"]
    /\ UNCHANGED <<task, owner, run, op, acting, lock, wake, crashes>>

\* Mutant: keys are taken as they become free, the execution runs once it has all
ExecutionClaim_Piecemeal(e) ==
    /\ exec[e].status = "queued" /\ exec[e].drained /\ executionCurrent(e)
    /\ exec[e].lease < MaxRuns
    /\ \/ \E k \in exec[e].keys :
             /\ lock[k] = Nobody
             /\ lock' = [lock EXCEPT ![k] = e]
             /\ exec' = [exec EXCEPT ![e].leased = TRUE]
             /\ UNCHANGED run
       \/ /\ heldKeys(e) = exec[e].keys
          /\ exec' = [exec EXCEPT ![e] = [exec[e] EXCEPT !.status = "running", !.lease = @ + 1, !.drained = FALSE]]
          /\ run' = [run EXCEPT ![e] = "live"]
          /\ UNCHANGED lock
    /\ UNCHANGED <<task, owner, op, acting, wake, seen, crashes>>

\* kickExecution -> execution.claim: all keys or none
ExecutionClaim(e) ==
    /\ exec[e].status \notin terminalExecutions \cup {"absent"}
    /\ exec[e].result = "none" /\ exec[e].drained /\ executionCurrent(e)
    /\ exec[e].readback = Nobody =>
         \A o \in OpsOf(e) : ~(op[o].state \in {"starting", "unknown"} /\ operationBlocksRecovery(o))
    /\ Lockable(exec[e].keys, e)
    /\ exec[e].lease < MaxRuns
    /\ lock' = LockAll(exec[e].keys, e)
    /\ exec' = [exec EXCEPT ![e] = [exec[e] EXCEPT !.status = "running", !.lease = @ + 1, !.drained = FALSE,
                                             !.recovering = FALSE, !.leased = @ \/ exec[e].keys # {}]]
    /\ run' = [run EXCEPT ![e] = "live"]
    /\ UNCHANGED <<task, owner, op, acting, wake, seen, crashes>>

\* task_delegate(feedback) by the Owner, execution_send_message by a peer
Feedback(e, kind) ==
    /\ \/ kind = "owner" /\ currentTask(TaskOf[e])
       \/ kind = "peer" /\ \E s \in Executions \ {e} : TaskOf[s] = TaskOf[e] /\ assertScope(s)
    /\ exec[e].status \notin terminalExecutions \cup {"absent"} /\ executionCurrent(e)
    /\ exec' = [exec EXCEPT ![e].unread = @ \cup {kind}]
    /\ UNCHANGED <<task, owner, run, op, acting, lock, wake, seen, crashes>>

FeedbackConsumed(e, kind) ==
    /\ run[e] = "live" /\ executionCurrent(e) /\ kind \in exec[e].unread
    /\ exec' = [exec EXCEPT ![e].unread = @ \ {kind}]
    /\ UNCHANGED <<task, owner, run, op, acting, lock, wake, seen, crashes>>

\* Owner's cancelExecution; the session is stopped later, if there is one
ExecutionCancel(e) ==
    LET t == TaskOf[e]
        ex == [exec EXCEPT ![e] = [exec[e] EXCEPT !.cancelReq = TRUE,
                                                  !.status = IF exec[e].drained THEN "cancelled" ELSE @]]
    IN
    /\ owner[t].phase = "running" /\ BindingCurrent(t)
    /\ exec[e].status # "absent"
    /\ Commit(ex, op, {e}, {})
    /\ UNCHANGED <<task, owner, run, acting, wake, seen, crashes>>

\* The first result of an input decides it; a result whose execution is no longer
\* current is kept as stale.  An output is refused while feedback is unread.
ExecutionResult(e, r) ==
    LET current == executionCurrent(e)
        ex == [exec EXCEPT ![e] = [exec[e] EXCEPT !.result = r, !.current = current,
                 !.status = IF ~current THEN "stale" ELSE IF r = "error" THEN "failed" ELSE "succeeded"]]
    IN
    /\ \/ run[e] \in {"live", "orphan"} /\ r = "output"
       \/ run[e] = "ended" /\ r = "error"
    /\ exec[e].result = "none"
    /\ r = "output" => exec[e].unread = {}
    /\ Commit(ex, op, {e}, {})
    /\ wake' = wake \cup {Wake(TaskOf[e], "result", e, exec[e].input)}
    /\ UNCHANGED <<task, owner, run, acting, seen, crashes>>

\* a tool call of the running session waits for its operation.start
InFlight(o) == op[o].state = "prepared" /\ ~op[o].refused /\ op[o].lease = exec[ExecOf[o]].lease

\* executionSessions.run returns or throws, its native session drained
NativeEnd(e) ==
    /\ run[e] = "live" /\ ~\E o \in OpsOf(e) : InFlight(o)
    /\ run' = [run EXCEPT ![e] = "ended"]
    /\ UNCHANGED <<task, owner, exec, op, acting, lock, wake, seen, crashes>>

\* DYNAMIC_EXECUTION_FEEDBACK_PENDING: the submission lost to newer feedback; no
\* result is recorded and the drained execution is queued again
SubmissionRaced(e) ==
    /\ run[e] = "live" /\ exec[e].result = "none" /\ exec[e].unread # {}
    /\ ~\E o \in OpsOf(e) : InFlight(o)
    /\ run' = [run EXCEPT ![e] = "raced"]
    /\ UNCHANGED <<task, owner, exec, op, acting, lock, wake, seen, crashes>>

\* the session could not be drained: the lease stays, fenced, until recover()
ExecutionDrainFailed(e) ==
    /\ "execution" \in Faults
    /\ run[e] = "live"
    /\ exec' = [exec EXCEPT ![e].recovering = TRUE]
    /\ run' = [run EXCEPT ![e] = "orphan"]
    /\ UNCHANGED <<task, owner, op, acting, lock, wake, seen, crashes>>

OrphanGone(e) ==
    /\ run[e] = "orphan"
    /\ run' = [run EXCEPT ![e] = "none"]
    /\ UNCHANGED <<task, owner, exec, op, acting, lock, wake, seen, crashes>>

\* execution.drained: the lease ends; keys are freed if nothing is undecided.
\* An Owner that took the result before the drain is woken once more.
Drain(e) ==
    LET status == IF exec[e].cancelReq /\ exec[e].status \notin terminalExecutions THEN "cancelled"
                  ELSE IF exec[e].status = "running" /\ exec[e].result = "none" THEN "queued"
                  ELSE exec[e].status
        row == [exec[e] EXCEPT !.drained = TRUE, !.recovering = FALSE, !.status = status]
        t == TaskOf[e]
        followUp == /\ exec[e].result # "none" /\ exec[e].current
                    /\ Active(t) /\ exec[e].req = task[t].req /\ exec[e].ctl = task[t].ctl /\ ~exec[e].cancelReq
                    /\ ~ResultWakePending(e)
    IN  /\ Commit([exec EXCEPT ![e] = row], op, {e}, {})
        /\ wake' = wake \cup (IF followUp THEN {Wake(t, "drained", e, exec[e].input)} ELSE {})
        /\ run' = [run EXCEPT ![e] = "none"]
        /\ UNCHANGED <<task, owner, acting, seen, crashes>>

ExecutionDrained(e) ==
    /\ run[e] = "raced" \/ (run[e] = "ended" /\ exec[e].result # "none")
    /\ Drain(e)

\* recover(): the session is proved gone and no native job of it is running
RecoverDrained(e) ==
    /\ exec[e].recovering /\ ~exec[e].drained /\ run[e] = "none"
    /\ Drain(e)

-----------------------------------------------------------------------------
(* Operations and their external effects.                                  *)

OperationPrepare(o, ks) ==
    LET e == ExecOf[o]
        t == TaskOf[e]
    IN
    /\ assertScope(e) /\ PassesGate(t, exec[e].readback)
    /\ op[o].state = "absent"
    /\ exec[e].keys # {} => ks \subseteq exec[e].keys
    /\ op' = [op EXCEPT ![o] = [NewOp EXCEPT !.state = "prepared", !.keys = ks, !.held = exec[e].keys # {},
                                   !.req = task[t].req, !.ctl = task[t].ctl, !.lease = exec[e].lease]]
    /\ UNCHANGED <<task, owner, exec, run, acting, lock, wake, seen, crashes>>

\* Mutant: the start takes the keys of the operation as if prepare had checked them
Startable_Unchecked(o) ==
    LET e == ExecOf[o]
        t == TaskOf[e]
    IN
    /\ assertScope(e) /\ op[o].lease = exec[e].lease
    /\ op[o].req = task[t].req /\ op[o].ctl = task[t].ctl
    /\ op[o].state = "prepared"
    /\ exec[e].keys # {} => op[o].keys \subseteq exec[e].keys
    /\ op[o].held => exec[e].leased /\ heldKeys(e) = exec[e].keys

\* The same tool call, so the same lease, starts what it prepared: with the keys of
\* its execution, or with keys of its own that nobody else holds.
Startable(o) ==
    LET e == ExecOf[o]
        t == TaskOf[e]
    IN
    /\ assertScope(e) /\ op[o].lease = exec[e].lease
    /\ op[o].req = task[t].req /\ op[o].ctl = task[t].ctl
    /\ op[o].state = "prepared"
    /\ exec[e].keys # {} => op[o].keys \subseteq exec[e].keys
    /\ IF op[o].held THEN exec[e].leased /\ heldKeys(e) = exec[e].keys
       ELSE Lockable(op[o].keys, o)

\* From the commit on (dispatchEligible) the tool may act on the world, and outlive
\* the host.
OperationStart(o) ==
    /\ Startable(o) /\ ~op[o].refused
    /\ lock' = IF op[o].held THEN lock ELSE LockAll(op[o].keys, o)
    /\ op' = [op EXCEPT ![o].state = "starting"]
    /\ acting' = acting \cup {o}
    /\ UNCHANGED <<task, owner, exec, run, wake, seen, crashes>>

\* The call is answered with an error and the prepared row stays: nativeOperation
\* never sends operation.cancelPrepared.
OperationStartRefused(o) ==
    /\ InFlight(o) /\ run[ExecOf[o]] \in {"live", "orphan"} /\ ~Startable(o)
    /\ op' = [op EXCEPT ![o].refused = TRUE]
    /\ UNCHANGED <<task, owner, exec, run, acting, lock, wake, seen, crashes>>

\* the effect is over, though perhaps nobody has seen its outcome
EffectEnd(o) ==
    /\ o \in acting
    /\ acting' = acting \ {o}
    /\ UNCHANGED <<task, owner, exec, run, op, lock, wake, seen, crashes>>

\* Mutant: an unknown outcome frees the locks like a known one
Settled_UnknownReleases(o, row) == Commit(exec, [op EXCEPT ![o] = row], {ExecOf[o]}, {o})

\* Rows that record an outcome; a terminal one frees what the operation guards
Settled(o, row) ==
    LET ops == [op EXCEPT ![o] = row] IN
    IF BlocksIn(ops, o) THEN op' = ops /\ UNCHANGED <<exec, lock>>
    ELSE Commit(exec, ops, {ExecOf[o]}, {o})

\* nativeOperation's completion: cancelled and failed calls leave the effect unknown
OperationSettle(o, s) ==
    LET e == ExecOf[o]
        consumed == /\ s # "unknown" /\ op[o].lease = exec[e].lease
                    /\ exec[e].status = "running" /\ ~exec[e].drained /\ executionCurrent(e)
    IN
    /\ op[o].state = "starting"
    /\ s # "unknown" => o \notin acting
    /\ Settled(o, [op[o] EXCEPT !.state = s])
    /\ wake' = wake \cup (IF consumed THEN {} ELSE {Note(TaskOf[e])})
    /\ UNCHANGED <<task, owner, run, acting, seen, crashes>>

\* operation.reconcile-job, -job-read, -file-precondition, -web-read, -stopped:
\* the Owner settles an unknown operation from the Host's evidence
OperationReconcile(o, s) ==
    LET e == ExecOf[o] IN
    /\ currentTask(TaskOf[e])
    /\ op[o].state = "unknown"
    /\ exec[e].drained /\ ~exec[e].recovering
    /\ o \notin acting
    /\ Settled(o, [op[o] EXCEPT !.state = s])
    /\ wake' = wake \cup {Note(TaskOf[e])}
    /\ UNCHANGED <<task, owner, run, acting, seen, crashes>>

\* A read-only execution dispatched to inspect o has succeeded
Investigated(o) ==
    \E x \in ExecsOf(TaskOf[ExecOf[o]]) :
        exec[x].readback = o /\ exec[x].status = "succeeded" /\ exec[x].drained /\ ~exec[x].recovering

\* task.human.resolve-failures: the operator answers an open question with an
\* audit of one unknown operation, in one transaction: either the call returned an
\* error, or a restart interrupted it and whatever it still runs is isolated
OperatorResolve(o, audit) ==
    LET e == ExecOf[o]
        t == TaskOf[e]
    IN
    /\ Active(t) /\ task[t].drained /\ ~task[t].recovering /\ task[t].question
    /\ op[o].state = "unknown" /\ ~op[o].isolated
    /\ o \notin acting /\ Investigated(o)
    /\ \/ /\ audit = "failed" /\ ~op[o].restart /\ exec[e].drained /\ ~exec[e].recovering
          /\ Settled(o, [op[o] EXCEPT !.state = "failed"])
       \/ /\ audit = "isolated" /\ op[o].restart /\ (exec[e].drained \/ exec[e].recovering)
          /\ Settled(o, [op[o] EXCEPT !.isolated = TRUE])
    /\ task' = [task EXCEPT ![t].question = FALSE]
    /\ wake' = wake \cup {Note(t)}
    /\ UNCHANGED <<owner, run, acting, seen, crashes>>

-----------------------------------------------------------------------------
(* The host dies and openDynamicTaskStore recovers the rows it left.       *)

\* Mutant: operations in flight are made startable again
Crash_Redispatches ==
    /\ crashes < MaxCrashes
    /\ crashes' = crashes + 1
    /\ owner' = [t \in Tasks |-> NoTurn("none")]
    /\ run' = [e \in Executions |-> "none"]
    /\ op' = [o \in Operations |-> IF op[o].state = "starting"
                THEN [op[o] EXCEPT !.state = "prepared"] ELSE op[o]]
    /\ exec' = [e \in Executions |-> IF exec[e].drained THEN exec[e]
                                     ELSE [exec[e] EXCEPT !.recovering = TRUE]]
    /\ task' = [t \in Tasks |-> IF task[t].drained THEN task[t]
                                ELSE [task[t] EXCEPT !.recovering = TRUE]]
    /\ UNCHANGED <<acting, lock, wake, seen>>

Crash ==
    /\ crashes < MaxCrashes
    /\ crashes' = crashes + 1
    /\ owner' = [t \in Tasks |-> NoTurn("none")]
    /\ run' = [e \in Executions |-> "none"]
    /\ op' = [o \in Operations |-> IF op[o].state = "starting"
                THEN [op[o] EXCEPT !.state = "unknown", !.restart = TRUE] ELSE op[o]]
    /\ exec' = [e \in Executions |-> IF exec[e].drained THEN exec[e]
                                     ELSE [exec[e] EXCEPT !.recovering = TRUE]]
    /\ task' = [t \in Tasks |-> IF task[t].drained THEN task[t]
                                ELSE [task[t] EXCEPT !.recovering = TRUE]]
    /\ seen' = [e \in Executions |-> IF seen[e] = "shown" THEN "no" ELSE seen[e]]
    /\ UNCHANGED <<acting, lock, wake>>

-----------------------------------------------------------------------------
TaskStep(t) ==
    \/ TaskCreate(t) \/ TaskRevise(t) \/ TaskReopen(t) \/ TaskSupplement(t) \/ TaskArchive(t)
    \/ \E c \in Controls : TaskControl(t, c)
    \/ TaskClaim(t) \/ TaskComplete(t) \/ WakeAck(t) \/ TaskDrained(t) \/ TaskDrainLost(t)
    \/ RecoverTask(t)
    \/ \E ask \in BOOLEAN : TaskWait(t, ask)
    \/ HumanRespond(t)

ExecutionStep(e) ==
    \/ \E ks \in KeySets[e], rb \in Operations \cup {Nobody} :
          ExecutionDispatch(e, ks, rb) \/ ExecutionContinue(e, ks, rb)
    \/ ExecutionClaim(e) \/ ExecutionCancel(e) \/ NativeEnd(e) \/ SubmissionRaced(e)
    \/ ExecutionDrainFailed(e) \/ OrphanGone(e) \/ ExecutionDrained(e) \/ RecoverDrained(e)
    \/ \E r \in {"output", "error"} : ExecutionResult(e, r)
    \/ \E kind \in FeedbackKinds : Feedback(e, kind) \/ FeedbackConsumed(e, kind)

OperationStep(o) ==
    \/ \E ks \in KeySets[o] : OperationPrepare(o, ks)
    \/ OperationStart(o) \/ OperationStartRefused(o) \/ EffectEnd(o)
    \/ \E s \in {"succeeded", "failed", "unknown"} : OperationSettle(o, s)
    \/ \E s \in terminalOperations : OperationReconcile(o, s)
    \/ \E audit \in {"failed", "isolated"} : OperatorResolve(o, audit)

Next ==
    \/ \E t \in Tasks : TaskStep(t)
    \/ \E e \in Executions : ExecutionStep(e)
    \/ \E o \in Operations : OperationStep(o)
    \/ Crash

Spec == Init /\ [][Next]_vars

\* What the Host keeps doing: schedulePending promotes queued work whenever a slot or
\* a lock is freed, kickExecution reports every session that ends, recover() drains
\* the leases of sessions that are gone; and no native session runs for ever.
HostFairness ==
    \A e \in Executions :
        /\ WF_vars(ExecutionClaim(e))
        /\ WF_vars(NativeEnd(e)) /\ WF_vars(OrphanGone(e))
        /\ WF_vars(ExecutionResult(e, "error"))
        /\ WF_vars(ExecutionDrained(e)) /\ WF_vars(RecoverDrained(e))

FairSpec == Spec /\ HostFairness

-----------------------------------------------------------------------------
(* Properties.                                                             *)

\* Every row and session value is one the code can write.
TypeOK ==
    /\ task \in [Tasks -> TaskRow]
    /\ owner \in [Tasks -> TurnRow]
    /\ exec \in [Executions -> ExecRow]
    /\ run \in [Executions -> {"none", "live", "ended", "raced", "orphan"}]
    /\ op \in [Operations -> OpRow]
    /\ acting \subseteq Operations
    /\ lock \in [Keys -> Holders \cup {Nobody}]
    /\ wake \subseteq WakeRow
    /\ seen \in [Executions -> {"no", "shown", "judged"}]
    /\ crashes \in Nat

\* The keys that must stay locked while o may act on the world, and who holds them
Footprint(o) == IF op[o].held THEN exec[ExecOf[o]].keys ELSE op[o].keys
Holder(o) == IF op[o].held THEN ExecOf[o] ELSE o

\* An external effect that is still running is never without its resource locks,
\* whatever became of the execution, the task or the host since it was started
\* (releaseExecution, releaseOperation), so two running effects never share a key.
EffectsUnderLock ==
    \A o \in Operations : o \in acting =>
        \A k \in Footprint(o) : lock[k] = Holder(o)

\* openDynamicTaskStore refuses to start on rows that break its resource checks
\* (DYNAMIC_RESOURCE_INVARIANT, DYNAMIC_EXECUTION_RESOURCE_UNGUARDED): no sequence
\* of commands and crashes writes such rows, so a restart is always admitted.
RestartAdmissible ==
    /\ \A e \in Executions :
         IF exec[e].leased THEN heldKeys(e) = exec[e].keys
         ELSE /\ heldKeys(e) = {}
              /\ exec[e].keys # {} => /\ exec[e].drained
                                      /\ \A o \in OpsOf(e) : ~operationBlocksRecovery(o)
    /\ \A o \in Operations :
         op[o].state \in {"starting", "unknown"} /\ operationBlocksRecovery(o) =>
             IF op[o].held THEN op[o].keys \subseteq heldKeys(ExecOf[o])
             ELSE heldKeys(o) = op[o].keys

\* A completed task has nothing left that could act: its executions are drained and
\* finished, its operations decided, and no effect of it is running (assertClear).
CompletionQuiescent ==
    \A t \in Tasks : task[t].status = "completed" =>
        \A e \in ExecsOf(t) :
            /\ run[e] = "none" /\ exec[e].status \in terminalExecutions
            /\ \A o \in OpsOf(e) : o \notin acting /\ ~operationBlocksRecovery(o)

\* A result that counts for the task's current requirement
ResultReady(e) ==
    /\ exec[e].drained /\ exec[e].result # "none" /\ exec[e].current /\ executionCurrent(e)

\* No drained result is lost: until an Owner turn that began after the drain has
\* submitted its decision, a wake that names the result is still unacked, even when
\* an earlier turn took the result before the drain, failed, or died with the host.
NoLostResult ==
    \A e \in Executions : ResultReady(e) /\ seen[e] # "judged" =>
        \E w \in WakesOf(TaskOf[e]) :
            w.kind \in {"result", "drained"} /\ w.ref = e /\ w.input = exec[e].input

\* After a reopen over operations a restart left unknown, nothing is started on the
\* task but inspections of those operations, until the last of them is decided
\* (assertRestartRecoveryDispatch and the same gate in operation.prepare).
GateReadOnly ==
    \A o \in Operations :
        LET t == TaskOf[ExecOf[o]] IN
        /\ op[o].state = "starting" /\ op[o].req = task[t].req /\ op[o].ctl = task[t].ctl
        /\ restartRecoveryPending(t) # {}
        => exec[ExecOf[o]].readback \in task[t].gate

\* An operation is dispatched at most once: it is started only from prepared, an
\* unknown one never becomes startable again, and a decided one never changes.
Rank(state) ==
    CASE state = "absent" -> 0 [] state = "prepared" -> 1 [] state = "starting" -> 2
      [] state = "unknown" -> 3 [] OTHER -> 4
DispatchedOnce ==
    [][\A o \in Operations : op'[o].state # op[o].state => Rank(op'[o].state) > Rank(op[o].state)]_vars

\* The lock table as a table of leases: what an operation's effect is up to, and the
\* keys it relies on.
Phase == [o \in Operations |->
            IF o \in acting THEN "running"
            ELSE IF op[o].state \in {"absent", "prepared"} THEN "idle" ELSE "over"]
Needs == [o \in Operations |-> IF o \in acting THEN Footprint(o) ELSE {}]

Leases == INSTANCE KeyLeases WITH
            Sessions <- Executions, Effects <- Operations, SessionOf <- ExecOf,
            holder <- lock, phase <- Phase, needs <- Needs

\* Executions get all their keys at once or none, an effect runs once and under keys
\* that cover it, and no key is given up while an effect that relies on it may still
\* act, whichever command releases it (claim, start, settle, drain, cancel, revise).
ImplementsLeases == Leases!Spec

\* Executions that compete for several keys do not wait for each other for ever: a
\* queued execution that is still wanted gets all its keys and runs (execution.claim
\* takes all of them or none), however sessions end, fail to drain or die.
ContendersProceed ==
    \A e \in Executions :
        (exec[e].status = "queued" /\ executionCurrent(e))
            ~> (exec[e].status # "queued" \/ ~executionCurrent(e) \/ exec[e].lease = MaxRuns)

=============================================================================
