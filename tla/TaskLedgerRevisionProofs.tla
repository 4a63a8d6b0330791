---------------------- MODULE TaskLedgerRevisionProofs ----------------------
(***************************************************************************)
(* More theorems about TaskLedger: what the revisions of a task and the    *)
(* leases of its sessions guarantee.  Completion is final, the read-only   *)
(* gate of a reopened task holds, and no drained result is lost.           *)
(***************************************************************************)
EXTENDS TaskLedgerProofs

-----------------------------------------------------------------------------
(* What one step may do to the rows.                                       *)

Over(r) == r.drained /\ r.status \in terminalExecutions
Open(r) == r.state \notin terminalOperations \cup {"absent"} /\ ~r.isolated

\* an execution row with a result that counts as long as the task's revisions stay
Reported(r) == r.drained /\ r.result # "none" /\ r.current /\ ~r.recovering /\ ~r.cancelReq

\* the same input of the same requirement, and over if it was
SameInput(r, s) ==
    /\ s.req = r.req /\ s.ctl = r.ctl /\ s.input = r.input /\ s.readback = r.readback
    /\ r.status = "absent" => s.status = "absent"
    /\ Over(r) => Over(s)

\* a dispatch or continuation by the Owner's current turn
Redirected(e) ==
    /\ currentTask(TaskOf[e]) /\ PassesGate(TaskOf[e], exec'[e].readback)
    /\ exec'[e].req = task[TaskOf[e]].req /\ exec'[e].ctl = task[TaskOf[e]].ctl
    /\ exec'[e].result = "none"
    /\ UNCHANGED <<task, owner, op, run, wake>>

ExecRows == \A e \in Executions :
    \/ Redirected(e)
    \/ /\ SameInput(exec[e], exec'[e])
       /\ Reported(exec'[e]) => Reported(exec[e]) \/ Drain(e)

Going(r) == ~r.archived /\ r.status = "active" /\ r.control = "active"

\* revisions grow; as long as they stay, a task does not become active again and
\* keeps its gate
SameTask(r, s) ==
    /\ r.req <= s.req /\ r.ctl <= s.ctl
    /\ s.status = "absent" => r.status = "absent" /\ s.req = r.req /\ s.ctl = r.ctl
    /\ s.req = r.req /\ s.ctl = r.ctl => s.gate = r.gate /\ (Going(s) => Going(r))

TaskRows == \A t \in Tasks : SameTask(task[t], task'[t])

SameCall(r, s) ==
    /\ s.req = r.req /\ s.ctl = r.ctl
    /\ s.state \in {"prepared", "starting"} => r.state \in {"prepared", "starting"}
    /\ s.state = "absent" <=> r.state = "absent"
    /\ Open(s) => Open(r)

OpRows == \A o \in Operations :
    \/ SameCall(op[o], op'[o])
    \/ op[o].state = "absent" /\ \E ks : OperationPrepare(o, ks)

-----------------------------------------------------------------------------
(* Revisions and leases.                                                   *)

AbsentIsNew == \A t \in Tasks : task[t].status = "absent" =>
    task[t].req = 0 /\ task[t].ctl = 0 /\ task[t].gate = {}

\* no execution or operation is of a requirement the task does not have yet
RevisionsBounded ==
    /\ \A e \in Executions : /\ exec[e].req <= task[TaskOf[e]].req
                             /\ exec[e].ctl <= task[TaskOf[e]].ctl
    /\ \A o \in Operations : /\ op[o].req <= task[TaskOf[ExecOf[o]]].req
                             /\ op[o].ctl <= task[TaskOf[ExecOf[o]]].ctl

\* a session exists only under a lease, and a lease only on a dispatched execution
SessionsLease == \A e \in Executions :
    /\ run[e] # "none" => ~exec[e].drained
    /\ ~exec[e].drained => exec[e].status # "absent"

RevInv == AbsentIsNew /\ RevisionsBounded /\ SessionsLease

LEMMA RevInvInit == Init => RevInv
BY ConstantsAssumption
DEF Init, RevInv, AbsentIsNew, RevisionsBounded, SessionsLease, NewTask, NewExec, NewOp

LEMMA SameInputItself == \A r : SameInput(r, r)
BY DEF SameInput

LEMMA SameCallItself == \A r : SameCall(r, r)
BY DEF SameCall

\* rows that differ in their keys' lease only
Alike(r, s) ==
    /\ s.status = r.status /\ s.req = r.req /\ s.ctl = r.ctl /\ s.input = r.input
    /\ s.drained = r.drained /\ s.recovering = r.recovering /\ s.cancelReq = r.cancelReq
    /\ s.result = r.result /\ s.current = r.current /\ s.readback = r.readback

LEMMA CommitAlike ==
    ASSUME NEW ex \in [Executions -> ExecRow], NEW ops, NEW E, NEW O, Commit(ex, ops, E, O)
    PROVE  /\ \A e \in Executions : Alike(ex[e], exec'[e])
           /\ op' = ops
<1>1. ASSUME NEW e \in Executions PROVE Alike(ex[e], exec'[e])
  <2>1. exec'[e] = ex[e] \/ exec'[e] = [ex[e] EXCEPT !.leased = FALSE]
    BY DEF Commit
  <2>2. ex[e] \in ExecRow
    OBVIOUS
  <2> QED  BY <2>1, <2>2 DEF Alike, ExecRow
<1> QED  BY <1>1 DEF Commit

\* commands that leave the executions and their sessions alone
LEMMA ExecRowsFrame ==
    ASSUME RevInv, \A e \in Executions : Alike(exec[e], exec'[e]), run' = run
    PROVE  ExecRows /\ SessionsLease'
<1>1. ASSUME NEW e \in Executions
      PROVE  SameInput(exec[e], exec'[e]) /\ (Reported(exec'[e]) => Reported(exec[e]))
  BY DEF Alike, SameInput, Over, Reported
<1>2. SessionsLease'
  BY DEF Alike, RevInv, SessionsLease
<1> QED  BY <1>1, <1>2 DEF ExecRows

LEMMA AlikeItself == \A r : Alike(r, r)
BY DEF Alike

LEMMA SameTaskItself == \A r \in TaskRow : SameTask(r, r)
BY TaskRowFields DEF SameTask

\* a command that writes one task row
LEMMA OneTask ==
    ASSUME TypeOK, NEW t \in Tasks, NEW row, task' = [task EXCEPT ![t] = row], SameTask(task[t], row)
    PROVE  TaskRows
<1>1. \A u \in Tasks : task'[u] = IF u = t THEN row ELSE task[u]
  BY DEF TypeOK
<1>2. \A u \in Tasks : SameTask(task[u], task[u])
  BY SameTaskItself DEF TypeOK
<1> QED  BY <1>1, <1>2 DEF TaskRows

\* updates that keep the revisions, the gate and the status
LEMMA SameTaskUpdate ==
    ASSUME NEW r \in TaskRow, NEW n \in Nat, NEW q \in BOOLEAN
    PROVE  /\ SameTask(r, [r EXCEPT !.archived = TRUE])
           /\ SameTask(r, [r EXCEPT !.recovering = TRUE])
           /\ SameTask(r, [r EXCEPT !.drained = TRUE, !.recovering = FALSE])
           /\ SameTask(r, [r EXCEPT !.ctx = n])
           /\ SameTask(r, [r EXCEPT !.lease = n, !.drained = FALSE, !.recovering = FALSE])
           /\ SameTask(r, [r EXCEPT !.question = q])
           /\ SameTask(r, [r EXCEPT !.status = "completed"])
<1>1. r.req \in Nat /\ r.ctl \in Nat
  BY TaskRowFields
<1> QED  BY <1>1 DEF SameTask, Going, TaskRow

\* a new requirement or control revision may change everything else
LEMMA SameTaskRevised ==
    ASSUME NEW r \in TaskRow, NEW s, r.req <= s.req, r.ctl <= s.ctl,
           s.req # r.req \/ s.ctl # r.ctl, s.status # "absent"
    PROVE  SameTask(r, s)
BY DEF SameTask

-----------------------------------------------------------------------------
(* The rows after each kind of step.                                       *)

Rows == TaskRows /\ ExecRows /\ OpRows /\ SessionsLease'

LEMMA RowsSupersede ==
    ASSUME TypeOK, RevInv, NEW t \in Tasks, NEW row \in TaskRow,
           SameTask(task[t], row), Supersede(t, row)
    PROVE  Rows
<1> DEFINE open == {e \in ExecsOf(t) : exec[e].status \notin terminalExecutions}
           ex == [e \in Executions |->
                    IF e \in open
                    THEN [exec[e] EXCEPT !.cancelReq = TRUE,
                                         !.status = IF exec[e].drained THEN "stale" ELSE @]
                    ELSE exec[e]]
           undispatched == {o \in Operations : TaskOf[ExecOf[o]] = t /\ op[o].state = "prepared"}
           ops == [o \in Operations |->
                    IF o \in undispatched THEN [op[o] EXCEPT !.state = "cancelled"] ELSE op[o]]
           E == {ExecOf[o] : o \in undispatched}
<1>1. ASSUME NEW e \in Executions
      PROVE  /\ ex[e] \in ExecRow
             /\ SameInput(exec[e], ex[e]) /\ (Reported(ex[e]) => Reported(exec[e]))
             /\ ex[e].drained = exec[e].drained
             /\ ex[e].status = "absent" => exec[e].status = "absent"
  <2>1. exec[e] \in ExecRow
    BY DEF TypeOK
  <2>2. ASSUME NEW s \in ExecStatus, ex[e] = [exec[e] EXCEPT !.cancelReq = TRUE, !.status = s],
               e \in open, s = "stale" \/ s = exec[e].status
        PROVE  /\ ex[e] \in ExecRow
               /\ SameInput(exec[e], ex[e]) /\ (Reported(ex[e]) => Reported(exec[e]))
               /\ ex[e].drained = exec[e].drained
               /\ ex[e].status = "absent" => exec[e].status = "absent"
    <3>1. exec[e].status # "absent" /\ exec[e].status \notin terminalExecutions
      BY <2>2 DEF ExecsOf
    <3> HIDE DEF ex
    <3>2. /\ ex[e] \in ExecRow /\ ex[e].cancelReq /\ ex[e].drained = exec[e].drained
          /\ ex[e].status = s /\ ex[e].req = exec[e].req /\ ex[e].ctl = exec[e].ctl /\ ex[e].input = exec[e].input
          /\ ex[e].readback = exec[e].readback
      BY <2>1, <2>2 DEF ExecRow, ExecStatus
    <3> QED  BY <2>2, <3>1, <3>2 DEF SameInput, Over, Reported
  <2>3. CASE e \in open /\ exec[e].drained
    <3>1. ex[e] = [exec[e] EXCEPT !.cancelReq = TRUE, !.status = "stale"]
      BY <2>3
    <3>2. "stale" \in ExecStatus
      BY DEF ExecStatus
    <3> QED  BY <2>1, <2>2, <2>3, <3>1, <3>2
  <2>4. CASE e \in open /\ ~exec[e].drained
    <3>1. ex[e] = [exec[e] EXCEPT !.cancelReq = TRUE, !.status = exec[e].status]
      BY <2>4
    <3>2. exec[e].status \in ExecStatus
      BY <2>1, ExecRowFields
    <3> QED  BY <2>1, <2>2, <2>4, <3>1, <3>2
  <2>5. CASE e \notin open
    BY <2>1, <2>5, SameInputItself
  <2> QED  BY <2>3, <2>4, <2>5
<1>2. ASSUME NEW o \in Operations PROVE SameCall(op[o], ops[o])
  <2>1. op[o] \in OpRow
    BY DEF TypeOK
  <2>2. ASSUME NEW r \in OpRow, r.state = "prepared" PROVE SameCall(r, [r EXCEPT !.state = "cancelled"])
    BY <2>2 DEF OpRow, SameCall, Open, terminalOperations
  <2>3. CASE o \in undispatched
    BY <2>1, <2>2, <2>3
  <2>4. CASE o \notin undispatched
    BY <2>4, SameCallItself
  <2> QED  BY <2>3, <2>4
<1>3. Commit(ex, ops, E, undispatched) /\ run' = run
  BY DEF Supersede
<1>4. ex \in [Executions -> ExecRow]
  BY <1>1
<1> HIDE DEF ex, ops, E, undispatched
<1>5. op' = ops /\ \A e \in Executions : Alike(ex[e], exec'[e])
  BY <1>3, <1>4, CommitAlike
<1>6. OpRows
  BY <1>2, <1>5 DEF OpRows
<1>7. ExecRows
  BY <1>1, <1>5 DEF ExecRows, Alike, SameInput, Over, Reported
<1>8. SessionsLease'
  BY <1>1, <1>3, <1>5 DEF RevInv, SessionsLease, Alike, SameInput, Over
<1>9. TaskRows
  <2>1. SameTask(task[t], [row EXCEPT !.question = FALSE])
    BY DEF SameTask, Going, TaskRow
  <2> QED  BY <2>1, OneTask DEF Supersede
<1> QED  BY <1>6, <1>7, <1>8, <1>9 DEF Rows

\* commands that write one task row and nothing else of interest
LEMMA RowsOneTask ==
    ASSUME TypeOK, RevInv, NEW t \in Tasks, NEW row,
           task' = [task EXCEPT ![t] = row], SameTask(task[t], row),
           UNCHANGED <<exec, run, op>>
    PROVE  Rows
BY OneTask, ExecRowsFrame, AlikeItself, SameCallItself DEF Rows, OpRows

LEMMA RowsNoTask ==
    ASSUME TypeOK, RevInv, UNCHANGED <<task, exec, run, op>> PROVE Rows
BY ExecRowsFrame, AlikeItself, SameCallItself, SameTaskItself DEF Rows, OpRows, TaskRows, TypeOK

LEMMA RowsTask == ASSUME TypeOK, RevInv, NEW t \in Tasks, TaskStep(t) PROVE Rows
<1>0. /\ task[t] \in TaskRow /\ task[t].req \in Nat /\ task[t].ctl \in Nat
      /\ task[t].ctx + 1 \in Nat /\ task[t].lease + 1 \in Nat /\ task[t].gate \subseteq Operations
      /\ task[t].req + 1 \in Nat /\ task[t].ctl + 1 \in Nat
      /\ task[t].status \in {"absent", "active", "completed", "cancelled"}
  BY TaskRowFields, SuccType DEF TypeOK
<1>1. CASE TaskCreate(t)
  <2> DEFINE row == [task[t] EXCEPT !.status = "active", !.req = 1, !.ctl = 1]
  <2>1. task[t].req = 0 /\ task[t].ctl = 0
    BY <1>1 DEF TaskCreate, RevInv, AbsentIsNew
  <2>2. row.status = "active" /\ row.req = 1 /\ row.ctl = 1
    BY <1>0 DEF TaskRow
  <2>3. task' = [task EXCEPT ![t] = row] /\ UNCHANGED <<exec, run, op>>
    BY <1>1 DEF TaskCreate
  <2> HIDE DEF row
  <2>4. SameTask(task[t], row)
    BY <1>0, <2>1, <2>2, SameTaskRevised
  <2> QED  BY <2>3, <2>4, RowsOneTask
<1>2. CASE TaskRevise(t)
  <2> DEFINE row == [task[t] EXCEPT !.req = @ + 1]
  <2>1. row \in TaskRow /\ row.req = task[t].req + 1 /\ row.ctl = task[t].ctl /\ row.status = task[t].status
    BY <1>0 DEF TaskRow
  <2>2. Supersede(t, row) /\ task[t].status # "absent"
    BY <1>2 DEF TaskRevise
  <2> HIDE DEF row
  <2>3. SameTask(task[t], row)
    BY <1>0, <2>1, <2>2, SameTaskRevised
  <2> QED  BY <2>1, <2>2, <2>3, RowsSupersede
<1>3. CASE TaskReopen(t)
  <2> DEFINE unresolved == {o \in Operations : TaskOf[ExecOf[o]] = t /\ operationBlocksRecovery(o)}
             reopened(gate) == [task[t] EXCEPT !.status = "active", !.control = "active", !.gate = gate,
                                               !.ctl = @ + 1, !.req = @ + 1]
  <2>1. ASSUME NEW gate \in SUBSET Operations
        PROVE  reopened(gate) \in TaskRow /\ SameTask(task[t], reopened(gate))
    <3> DEFINE row == reopened(gate)
    <3>1. row \in TaskRow /\ row.req = task[t].req + 1 /\ row.ctl = task[t].ctl + 1 /\ row.status = "active"
      BY <1>0 DEF TaskRow
    <3> HIDE DEF row
    <3>2. SameTask(task[t], row)
      BY <1>0, <3>1, SameTaskRevised
    <3> QED  BY <3>1, <3>2 DEF row
  <2>2. unresolved \in SUBSET Operations /\ task[t].gate \in SUBSET Operations
    BY <1>0
  <2>3. Supersede(t, reopened(unresolved)) \/ Supersede(t, reopened(task[t].gate))
    BY <1>3 DEF TaskReopen
  <2> HIDE DEF unresolved, reopened
  <2> QED  BY <2>1, <2>2, <2>3, RowsSupersede
<1>4. CASE \E c \in Controls : TaskControl(t, c)
  <2>1. PICK c \in Controls : TaskControl(t, c)
    BY <1>4
  <2> DEFINE s == IF c = "cancelled" THEN "cancelled" ELSE task[t].status
             row == [task[t] EXCEPT !.ctl = @ + 1, !.control = c, !.status = s]
  <2>2. Supersede(t, row) /\ task[t].status \in {"active", "cancelled"}
    BY <2>1 DEF TaskControl
  <2>3. c \in {"active", "paused", "cancelled"} /\ s \in {"active", "cancelled"}
    BY <2>2, ConstantsAssumption
  <2> HIDE DEF s
  <2>4. row \in TaskRow /\ row.req = task[t].req /\ row.ctl = task[t].ctl + 1 /\ row.status = s
    BY <1>0, <2>3 DEF TaskRow
  <2> HIDE DEF row
  <2>5. SameTask(task[t], row)
    BY <1>0, <2>3, <2>4, SameTaskRevised
  <2> QED  BY <2>2, <2>4, <2>5, RowsSupersede
<1>5. CASE TaskSupplement(t)
  <2>1. ASSUME NEW e \in Executions PROVE Alike(exec[e], exec'[e])
    <3>1. exec'[e] = exec[e] \/ exec'[e] = [exec[e] EXCEPT !.unread = @ \cup {"owner"}]
      BY <1>5 DEF TaskSupplement
    <3>2. exec[e] \in ExecRow
      BY DEF TypeOK
    <3> QED  BY <3>1, <3>2 DEF ExecRow, Alike
  <2>2. ExecRows /\ SessionsLease'
    BY <1>5, <2>1, ExecRowsFrame DEF TaskSupplement
  <2>3. TaskRows
    BY <1>0, <1>5, OneTask, SameTaskUpdate DEF TaskSupplement
  <2>4. OpRows
    BY <1>5, SameCallItself DEF TaskSupplement, OpRows
  <2> QED  BY <2>2, <2>3, <2>4 DEF Rows
<1>6. CASE TaskArchive(t)
  BY <1>0, <1>6, RowsOneTask, SameTaskUpdate DEF TaskArchive
<1>7. CASE TaskClaim(t)
  <2> DEFINE row == [task[t] EXCEPT !.lease = @ + 1, !.drained = FALSE, !.recovering = FALSE]
  <2>1. SameTask(task[t], row)
    BY <1>0, SameTaskUpdate
  <2>2. task' = [task EXCEPT ![t] = row] /\ UNCHANGED <<exec, run, op>>
    BY <1>7 DEF TaskClaim
  <2> HIDE DEF row
  <2> QED  BY <2>1, <2>2, RowsOneTask
<1>8. CASE TaskComplete(t)
  BY <1>0, <1>8, RowsOneTask, SameTaskUpdate DEF TaskComplete
<1>9. CASE WakeAck(t) \/ TaskDrainLost(t)
  BY <1>9, RowsNoTask DEF WakeAck, TaskDrainLost
<1>10. CASE TaskDrained(t) \/ RecoverTask(t)
  BY <1>0, <1>10, RowsOneTask, SameTaskUpdate DEF TaskDrained, RecoverTask
<1>11. CASE HumanRespond(t)
  BY <1>0, <1>11, RowsOneTask, SameTaskUpdate DEF HumanRespond
<1>12. CASE \E ask \in BOOLEAN : TaskWait(t, ask)
  <2>1. PICK ask \in BOOLEAN : TaskWait(t, ask)
    BY <1>12
  <2> DEFINE row == [task[t] EXCEPT !.question = @ \/ ask]
  <2>2. SameTask(task[t], row)
    <3>1. task[t].question \/ ask \in BOOLEAN
      BY Zenon
    <3> QED  BY <1>0, <3>1, SameTaskUpdate, Zenon
  <2>3. task' = [task EXCEPT ![t] = row] /\ UNCHANGED <<exec, run, op>>
    BY <2>1 DEF TaskWait
  <2> HIDE DEF row
  <2> QED  BY <2>2, <2>3, RowsOneTask
<1> QED
  BY <1>1, <1>2, <1>3, <1>4, <1>5, <1>6, <1>7, <1>8, <1>9, <1>10, <1>11, <1>12 DEF TaskStep

\* commands of an execution that write its own row: nothing else of interest changes
LEMMA RowsOneExec ==
    ASSUME TypeOK, RevInv, NEW e \in Executions, NEW row \in ExecRow,
           UNCHANGED <<task, op>>,
           \/ exec' = [exec EXCEPT ![e] = row]
           \/ Commit([exec EXCEPT ![e] = row], op, {e}, {}),
           SameInput(exec[e], row), Reported(row) => Reported(exec[e]) \/ Drain(e),
           \A x \in Executions : x # e => run'[x] = run[x],
           run'[e] # "none" => ~row.drained,
           ~row.drained => row.status # "absent"
    PROVE  Rows
<1> DEFINE ex == [exec EXCEPT ![e] = row]
<1>1. /\ ex \in [Executions -> ExecRow] /\ ex[e] = row
      /\ \A x \in Executions : x # e => ex[x] = exec[x]
  BY DEF TypeOK
<1> HIDE DEF ex
<1>2. \A x \in Executions : Alike(ex[x], exec'[x])
  <2>1. CASE exec' = ex
    BY <2>1, AlikeItself
  <2>2. CASE Commit(ex, op, {e}, {})
    BY <1>1, <2>2, CommitAlike
  <2> QED  BY <2>1, <2>2 DEF ex
<1>3. ASSUME NEW x \in Executions
      PROVE  SameInput(exec[x], ex[x]) /\ (Reported(ex[x]) => Reported(exec[x]) \/ Drain(x))
  BY <1>1, SameInputItself
<1>4. ExecRows
  BY <1>2, <1>3 DEF ExecRows, Alike, SameInput, Over, Reported
<1>5. SessionsLease'
  <2>1. ASSUME NEW x \in Executions
        PROVE  /\ run'[x] # "none" => ~ex[x].drained
               /\ ~ex[x].drained => ex[x].status # "absent"
    BY <1>1 DEF RevInv, SessionsLease
  <2> QED  BY <1>2, <2>1 DEF SessionsLease, Alike
<1>6. TaskRows /\ OpRows
  BY SameTaskItself, SameCallItself DEF TaskRows, OpRows, TypeOK
<1> QED  BY <1>4, <1>5, <1>6 DEF Rows

\* a dispatch or a continuation
LEMMA RowsRedirected ==
    ASSUME TypeOK, RevInv, NEW e \in Executions, Redirected(e),
           \A x \in Executions : x # e => exec'[x] = exec[x],
           exec'[e].status = "queued", exec'[e].drained, exec[e].drained \/ exec[e].status = "absent"
    PROVE  Rows
<1>1. ExecRows
  BY SameInputItself DEF ExecRows
<1>2. SessionsLease'
  BY DEF RevInv, SessionsLease, Redirected
<1>3. TaskRows /\ OpRows
  BY SameTaskItself, SameCallItself DEF TaskRows, OpRows, TypeOK, Redirected
<1> QED  BY <1>1, <1>2, <1>3 DEF Rows

LEMMA RowsDrain ==
    ASSUME TypeOK, RevInv, NEW e \in Executions, ~exec[e].drained, Drain(e) PROVE Rows
<1> DEFINE s == IF exec[e].cancelReq /\ exec[e].status \notin terminalExecutions THEN "cancelled"
                ELSE IF exec[e].status = "running" /\ exec[e].result = "none" THEN "queued"
                ELSE exec[e].status
           row == [exec[e] EXCEPT !.drained = TRUE, !.recovering = FALSE, !.status = s]
<1>0. exec[e] \in ExecRow
  BY DEF TypeOK
<1>1. s \in ExecStatus /\ exec[e].status # "absent"
  BY <1>0, ExecRowFields DEF ExecStatus, RevInv, SessionsLease
<1>2. /\ Commit([exec EXCEPT ![e] = row], op, {e}, {})
      /\ run' = [run EXCEPT ![e] = "none"] /\ task' = task
  BY DEF Drain
<1>3. op' = op
  BY <1>2 DEF Commit
<1> HIDE DEF s
<1>4. /\ row \in ExecRow /\ row.drained /\ row.req = exec[e].req /\ row.ctl = exec[e].ctl
      /\ row.input = exec[e].input /\ row.readback = exec[e].readback
  BY <1>0, <1>1 DEF ExecRow, ExecStatus
<1> HIDE DEF row
<1>5. SameInput(exec[e], row)
  BY <1>1, <1>4 DEF SameInput, Over
<1>6. run'[e] = "none" /\ \A x \in Executions : x # e => run'[x] = run[x]
  BY <1>2 DEF TypeOK
<1> QED  BY <1>2, <1>3, <1>4, <1>5, <1>6, RowsOneExec

LEMMA RowsExecution == ASSUME TypeOK, RevInv, NEW e \in Executions, ExecutionStep(e) PROVE Rows
<1>0. exec[e] \in ExecRow /\ exec \in [Executions -> ExecRow]
      /\ run \in [Executions -> {"none", "live", "ended", "raced", "orphan"}]
  BY DEF TypeOK
<1>1. ASSUME NEW ks \in KeySets[e], NEW rb \in Operations \cup {Nobody}, ExecutionDispatch(e, ks, rb)
      PROVE  Rows
  <2>1. /\ exec'[e].status = "queued" /\ exec'[e].drained /\ exec'[e].readback = rb
        /\ exec'[e].req = task[TaskOf[e]].req /\ exec'[e].ctl = task[TaskOf[e]].ctl
        /\ exec'[e].result = "none"
        /\ \A x \in Executions : x # e => exec'[x] = exec[x]
    BY <1>0, <1>1 DEF ExecutionDispatch, NewExec
  <2>2. Redirected(e)
    BY <1>1, <2>1 DEF ExecutionDispatch, Redirected
  <2> QED  BY <1>1, <2>1, <2>2, RowsRedirected DEF ExecutionDispatch
<1>2. ASSUME NEW ks \in KeySets[e], NEW rb \in Operations \cup {Nobody}, ExecutionContinue(e, ks, rb)
      PROVE  Rows
  <2>1. /\ exec'[e].status = "queued" /\ exec'[e].drained /\ exec'[e].readback = rb
        /\ exec'[e].req = task[TaskOf[e]].req /\ exec'[e].ctl = task[TaskOf[e]].ctl
        /\ exec'[e].result = "none"
        /\ \A x \in Executions : x # e => exec'[x] = exec[x]
    BY <1>0, <1>2 DEF ExecutionContinue, ExecRow
  <2>2. Redirected(e)
    BY <1>2, <2>1 DEF ExecutionContinue, Redirected
  <2> QED  BY <1>2, <2>1, <2>2, RowsRedirected DEF ExecutionContinue
<1>3. CASE ExecutionClaim(e)
  <2> DEFINE b == exec[e].leased \/ exec[e].keys # {}
             row == [exec[e] EXCEPT !.status = "running", !.lease = @ + 1, !.drained = FALSE,
                                    !.recovering = FALSE, !.leased = b]
  <2>1. exec' = [exec EXCEPT ![e] = row]
    BY <1>3, Zenon DEF ExecutionClaim
  <2>2. b \in BOOLEAN
    BY Zenon
  <2>3. /\ exec[e].lease + 1 \in Nat
        /\ exec[e].status \notin terminalExecutions \cup {"absent"}
        /\ UNCHANGED <<task, op>> /\ run' = [run EXCEPT ![e] = "live"]
    BY <1>0, <1>3, ExecRowFields, SuccType DEF ExecutionClaim
  <2> HIDE DEF b
  <2>4. /\ row \in ExecRow /\ ~row.drained /\ row.req = exec[e].req /\ row.ctl = exec[e].ctl
        /\ row.input = exec[e].input /\ row.readback = exec[e].readback /\ row.status = "running"
    BY <1>0, <2>2, <2>3 DEF ExecRow
  <2> HIDE DEF row
  <2>5. SameInput(exec[e], row) /\ ~Reported(row)
    BY <2>3, <2>4 DEF SameInput, Over, Reported
  <2> QED  BY <1>0, <2>1, <2>3, <2>4, <2>5, RowsOneExec
<1>4. CASE ExecutionCancel(e)
  <2> DEFINE s == IF exec[e].drained THEN "cancelled" ELSE exec[e].status
             row == [exec[e] EXCEPT !.cancelReq = TRUE, !.status = s]
  <2>1. s \in ExecStatus /\ exec[e].status # "absent"
    BY <1>0, <1>4, ExecRowFields DEF ExecStatus, ExecutionCancel
  <2>2. Commit([exec EXCEPT ![e] = row], op, {e}, {}) /\ UNCHANGED <<task, run>>
    BY <1>4 DEF ExecutionCancel
  <2>3. op' = op
    BY <2>2 DEF Commit
  <2>4. Over(exec[e]) => s = "cancelled"
    BY DEF Over
  <2>5. s = "absent" => exec[e].status = "absent"
    OBVIOUS
  <2> HIDE DEF s
  <2>6. /\ row \in ExecRow /\ row.cancelReq /\ row.drained = exec[e].drained
        /\ row.req = exec[e].req /\ row.ctl = exec[e].ctl /\ row.status = s
        /\ row.input = exec[e].input /\ row.readback = exec[e].readback
    BY <1>0, <2>1 DEF ExecRow, ExecStatus
  <2> HIDE DEF row
  <2>7. SameInput(exec[e], row) /\ ~Reported(row)
    BY <2>1, <2>4, <2>6 DEF SameInput, Over, Reported, terminalExecutions
  <2>8. /\ run'[e] # "none" => ~row.drained
        /\ ~row.drained => row.status # "absent"
    BY <2>1, <2>2, <2>5, <2>6 DEF RevInv, SessionsLease
  <2> QED  BY <2>2, <2>3, <2>6, <2>7, <2>8, RowsOneExec
<1>5. CASE NativeEnd(e) \/ SubmissionRaced(e) \/ OrphanGone(e)
  <2>1. /\ UNCHANGED <<task, exec, op>> /\ run[e] # "none"
        /\ \E v \in {"none", "ended", "raced"} : run' = [run EXCEPT ![e] = v]
    BY <1>5 DEF NativeEnd, SubmissionRaced, OrphanGone
  <2>2. /\ exec' = [exec EXCEPT ![e] = exec[e]]
        /\ \A x \in Executions : x # e => run'[x] = run[x]
    BY <1>0, <2>1
  <2>3. ~exec[e].drained /\ exec[e].status # "absent"
    BY <2>1 DEF RevInv, SessionsLease
  <2> QED  BY <1>0, <2>1, <2>2, <2>3, SameInputItself, RowsOneExec
<1>6. CASE ExecutionDrainFailed(e)
  <2> DEFINE row == [exec[e] EXCEPT !.recovering = TRUE]
  <2>1. /\ UNCHANGED <<task, op>> /\ run[e] # "none" /\ exec' = [exec EXCEPT ![e] = row]
        /\ \A x \in Executions : x # e => run'[x] = run[x]
    BY <1>0, <1>6 DEF ExecutionDrainFailed
  <2>2. ~exec[e].drained /\ exec[e].status # "absent"
    BY <2>1 DEF RevInv, SessionsLease
  <2>3. /\ row \in ExecRow /\ ~row.drained
        /\ row.req = exec[e].req /\ row.ctl = exec[e].ctl /\ row.status = exec[e].status
        /\ row.input = exec[e].input /\ row.readback = exec[e].readback
    BY <1>0, <2>2 DEF ExecRow
  <2> HIDE DEF row
  <2>4. SameInput(exec[e], row) /\ ~Reported(row)
    BY <2>2, <2>3 DEF SameInput, Over, Reported
  <2> QED  BY <2>1, <2>2, <2>3, <2>4, RowsOneExec
<1>7. CASE ExecutionDrained(e) \/ RecoverDrained(e)
  <2>1. Drain(e) /\ ~exec[e].drained
    BY <1>7 DEF ExecutionDrained, RecoverDrained, RevInv, SessionsLease
  <2> QED  BY <2>1, RowsDrain
<1>8. ASSUME NEW r \in {"output", "error"}, ExecutionResult(e, r) PROVE Rows
  <2> DEFINE current == executionCurrent(e)
             s == IF ~current THEN "stale" ELSE IF r = "error" THEN "failed" ELSE "succeeded"
             row == [exec[e] EXCEPT !.result = r, !.current = current, !.status = s]
  <2>1. current \in BOOLEAN
    BY Zenon DEF executionCurrent
  <2>2. s \in ExecStatus /\ s # "absent"
    BY DEF ExecStatus
  <2>3. Commit([exec EXCEPT ![e] = row], op, {e}, {}) /\ UNCHANGED <<task, run>> /\ run[e] # "none"
    BY <1>8 DEF ExecutionResult
  <2>4. op' = op
    BY <2>3 DEF Commit
  <2>5. ~exec[e].drained /\ exec[e].status # "absent"
    BY <2>3 DEF RevInv, SessionsLease
  <2> HIDE DEF s, current
  <2>6. /\ row \in ExecRow /\ ~row.drained
        /\ row.req = exec[e].req /\ row.ctl = exec[e].ctl /\ row.status = s
        /\ row.input = exec[e].input /\ row.readback = exec[e].readback
    BY <1>0, <2>1, <2>2, <2>5 DEF ExecRow, ExecStatus
  <2> HIDE DEF row
  <2>7. SameInput(exec[e], row) /\ ~Reported(row)
    BY <2>2, <2>5, <2>6 DEF SameInput, Over, Reported
  <2> QED  BY <2>2, <2>3, <2>4, <2>6, <2>7, RowsOneExec
<1>9. ASSUME NEW kind \in FeedbackKinds, Feedback(e, kind) \/ FeedbackConsumed(e, kind) PROVE Rows
  <2>1. UNCHANGED <<task, op, run>> /\ \E U : exec' = [exec EXCEPT ![e].unread = U]
    BY <1>9 DEF Feedback, FeedbackConsumed
  <2>2. ASSUME NEW x \in Executions PROVE Alike(exec[x], exec'[x])
    <3>1. exec'[x] = exec[x] \/ \E U : exec'[x] = [exec[x] EXCEPT !.unread = U]
      BY <1>0, <2>1
    <3>2. exec[x] \in ExecRow
      BY <1>0
    <3> QED  BY <3>1, <3>2 DEF ExecRow, Alike
  <2>3. ExecRows /\ SessionsLease'
    BY <2>1, <2>2, ExecRowsFrame
  <2> QED  BY <2>1, <2>3, SameTaskItself, SameCallItself DEF Rows, TaskRows, OpRows, TypeOK
<1> QED
  BY <1>1, <1>2, <1>3, <1>4, <1>5, <1>6, <1>7, <1>8, <1>9 DEF ExecutionStep

\* operation commands that leave the tasks' revisions alone
LEMMA RowsOneOp ==
    ASSUME TypeOK, RevInv, NEW o \in Operations, NEW row, op' = [op EXCEPT ![o] = row],
           SameCall(op[o], row), TaskRows, run' = run,
           \A e \in Executions : Alike(exec[e], exec'[e])
    PROVE  Rows
<1>1. \A p \in Operations : SameCall(op[p], op'[p])
  BY SameCallItself DEF TypeOK
<1> QED  BY <1>1, ExecRowsFrame DEF Rows, OpRows

LEMMA RowsSettled ==
    ASSUME TypeOK, RevInv, NEW o \in Operations, NEW row \in OpRow, Settled(o, row),
           SameCall(op[o], row), TaskRows, run' = run
    PROVE  Rows
<1>1. op' = [op EXCEPT ![o] = row]
  BY DEF Settled, Commit
<1>2. \A e \in Executions : Alike(exec[e], exec'[e])
  <2>1. exec \in [Executions -> ExecRow]
    BY DEF TypeOK
  <2>2. exec' = exec \/ Commit(exec, [op EXCEPT ![o] = row], {ExecOf[o]}, {o})
    BY DEF Settled
  <2> QED  BY <2>1, <2>2, CommitAlike, AlikeItself
<1> QED  BY <1>1, <1>2, RowsOneOp

\* an operation that is already dispatched is given an outcome
LEMMA SameCallOutcome ==
    ASSUME NEW r \in OpRow, r.state \in {"starting", "unknown"},
           NEW s \in terminalOperations \cup {"unknown"}, r.isolated => r.state # "starting"
    PROVE  /\ [r EXCEPT !.state = s] \in OpRow /\ SameCall(r, [r EXCEPT !.state = s])
           /\ [r EXCEPT !.isolated = TRUE] \in OpRow /\ SameCall(r, [r EXCEPT !.isolated = TRUE])
BY DEF OpRow, SameCall, Open, terminalOperations

LEMMA RowsOperation ==
    ASSUME TypeOK, LockInv, RevInv, NEW o \in Operations, OperationStep(o) PROVE Rows
<1>0. op[o] \in OpRow /\ op \in [Operations -> OpRow]
  BY DEF TypeOK
<1>1. TaskRows
  <2>1. task' = task => TaskRows
    BY SameTaskItself DEF TaskRows, TypeOK
  <2>2. ASSUME NEW audit \in {"failed", "isolated"}, OperatorResolve(o, audit) PROVE TaskRows
    <3> DEFINE t == TaskOf[ExecOf[o]]
    <3>1. t \in Tasks /\ task[t] \in TaskRow
      BY ConstantsAssumption DEF TypeOK
    <3>2. SameTask(task[t], [task[t] EXCEPT !.question = FALSE])
      BY <3>1, SameTaskUpdate
    <3>3. task' = [task EXCEPT ![t] = [task[t] EXCEPT !.question = FALSE]]
      BY <2>2 DEF OperatorResolve
    <3> HIDE DEF t
    <3> QED  BY <3>1, <3>2, <3>3, OneTask
  <2> QED
    BY <2>1, <2>2 DEF OperationStep, OperationPrepare, OperationStart, OperationStartRefused,
                      EffectEnd, OperationSettle, OperationReconcile
<1>2. run' = run
  BY DEF OperationStep, OperationPrepare, OperationStart, OperationStartRefused,
         EffectEnd, OperationSettle, OperationReconcile, OperatorResolve
<1>3. op[o].isolated => op[o].state # "starting"
  BY DEF LockInv, IsolatedIsLate
<1>4. ASSUME NEW ks \in KeySets[o], OperationPrepare(o, ks) PROVE Rows
  <2>1. op[o].state = "absent" /\ exec' = exec /\ \A p \in Operations : p # o => op'[p] = op[p]
    BY <1>0, <1>4 DEF OperationPrepare
  <2>2. OpRows
    BY <1>4, <2>1, SameCallItself DEF OpRows
  <2>3. ExecRows /\ SessionsLease'
    BY <1>2, <2>1, ExecRowsFrame, AlikeItself
  <2> QED  BY <1>1, <2>2, <2>3 DEF Rows
<1>5. CASE OperationStart(o)
  <2> DEFINE row == [op[o] EXCEPT !.state = "starting"]
  <2>1. op' = [op EXCEPT ![o] = row] /\ exec' = exec /\ op[o].state = "prepared"
    BY <1>5 DEF OperationStart, Startable
  <2>2. SameCall(op[o], row)
    BY <1>0, <2>1 DEF OpRow, SameCall, Open, terminalOperations
  <2> HIDE DEF row
  <2> QED  BY <1>1, <1>2, <2>1, <2>2, RowsOneOp, AlikeItself
<1>6. CASE OperationStartRefused(o)
  <2> DEFINE row == [op[o] EXCEPT !.refused = TRUE]
  <2>1. op' = [op EXCEPT ![o] = row] /\ exec' = exec
    BY <1>6 DEF OperationStartRefused
  <2>2. SameCall(op[o], row)
    BY <1>0 DEF OpRow, SameCall, Open
  <2> HIDE DEF row
  <2> QED  BY <1>1, <1>2, <2>1, <2>2, RowsOneOp, AlikeItself
<1>7. CASE EffectEnd(o)
  BY <1>7, RowsNoTask DEF EffectEnd
<1>8. ASSUME NEW s \in {"succeeded", "failed", "unknown"}, OperationSettle(o, s) PROVE Rows
  <2>1. Settled(o, [op[o] EXCEPT !.state = s]) /\ op[o].state = "starting"
    BY <1>8 DEF OperationSettle
  <2>2. s \in terminalOperations \cup {"unknown"}
    BY DEF terminalOperations
  <2> QED  BY <1>0, <1>1, <1>2, <1>3, <2>1, <2>2, SameCallOutcome, RowsSettled
<1>9. ASSUME NEW s \in terminalOperations, OperationReconcile(o, s) PROVE Rows
  <2>1. Settled(o, [op[o] EXCEPT !.state = s]) /\ op[o].state = "unknown"
    BY <1>9 DEF OperationReconcile
  <2> QED  BY <1>0, <1>1, <1>2, <1>3, <2>1, SameCallOutcome, RowsSettled
<1>10. ASSUME NEW audit \in {"failed", "isolated"}, OperatorResolve(o, audit) PROVE Rows
  <2>1. /\ op[o].state = "unknown"
        /\ \/ Settled(o, [op[o] EXCEPT !.state = "failed"])
           \/ Settled(o, [op[o] EXCEPT !.isolated = TRUE])
    BY <1>10 DEF OperatorResolve
  <2>2. "failed" \in terminalOperations \cup {"unknown"}
    BY DEF terminalOperations
  <2> QED  BY <1>0, <1>1, <1>2, <1>3, <2>1, <2>2, SameCallOutcome, RowsSettled
<1> QED  BY <1>4, <1>5, <1>6, <1>7, <1>8, <1>9, <1>10 DEF OperationStep

LEMMA RowsCrash == ASSUME TypeOK, RevInv, Crash PROVE Rows
<1>1. ASSUME NEW e \in Executions
      PROVE  /\ SameInput(exec[e], exec'[e]) /\ (Reported(exec'[e]) => Reported(exec[e]))
             /\ exec'[e].drained = exec[e].drained /\ exec'[e].status = exec[e].status
  <2>1. exec'[e] = exec[e] \/ exec'[e] = [exec[e] EXCEPT !.recovering = TRUE]
    BY DEF Crash
  <2>2. exec[e] \in ExecRow
    BY DEF TypeOK
  <2>3. /\ exec'[e].req = exec[e].req /\ exec'[e].ctl = exec[e].ctl /\ exec'[e].input = exec[e].input
        /\ exec'[e].readback = exec[e].readback /\ exec'[e].status = exec[e].status
        /\ exec'[e].drained = exec[e].drained
        /\ Reported(exec'[e]) => Reported(exec[e])
    BY <2>1, <2>2 DEF ExecRow, Reported
  <2> QED  BY <2>3 DEF SameInput, Over
<1>2. ASSUME NEW o \in Operations PROVE SameCall(op[o], op'[o])
  <2>1. \/ op'[o] = op[o]
        \/ op[o].state = "starting" /\ op'[o] = [op[o] EXCEPT !.state = "unknown", !.restart = TRUE]
    BY DEF Crash
  <2>2. ASSUME NEW r \in OpRow, r.state = "starting"
        PROVE  SameCall(r, [r EXCEPT !.state = "unknown", !.restart = TRUE])
    BY <2>2 DEF OpRow, SameCall, Open, terminalOperations
  <2>3. op[o] \in OpRow
    BY DEF TypeOK
  <2> QED  BY <2>1, <2>2, <2>3, SameCallItself
<1>3. TaskRows
  <2>1. ASSUME NEW t \in Tasks PROVE SameTask(task[t], task'[t])
    <3>1. task'[t] = task[t] \/ task'[t] = [task[t] EXCEPT !.recovering = TRUE]
      BY DEF Crash
    <3>2. task[t] \in TaskRow
      BY DEF TypeOK
    <3> QED  BY <3>1, <3>2, SameTaskItself, SameTaskUpdate
  <2> QED  BY <2>1 DEF TaskRows
<1>4. SessionsLease'
  BY <1>1 DEF Crash, RevInv, SessionsLease
<1> QED  BY <1>1, <1>2, <1>3, <1>4 DEF Rows, ExecRows, OpRows

LEMMA RowsNext == ASSUME TypeOK, LockInv, RevInv, [Next]_vars PROVE Rows
<1>1. CASE Next
  BY <1>1, RowsTask, RowsExecution, RowsOperation, RowsCrash DEF Next
<1>2. CASE UNCHANGED vars
  BY <1>2, RowsNoTask DEF vars
<1> QED  BY <1>1, <1>2

\* a prepared operation is of the task's current requirement, by an execution that runs
LEMMA PreparedRow ==
    ASSUME TypeOK, NEW o \in Operations, NEW ks, OperationPrepare(o, ks)
    PROVE  /\ op'[o].req = task[TaskOf[ExecOf[o]]].req /\ op'[o].ctl = task[TaskOf[ExecOf[o]]].ctl
           /\ op'[o].state = "prepared"
           /\ UNCHANGED <<task, owner, exec, run, wake, seen>>
           /\ run[ExecOf[o]] = "live" /\ PassesGate(TaskOf[ExecOf[o]], exec[ExecOf[o]].readback)
BY DEF OperationPrepare, NewOp, assertScope, TypeOK

LEMMA RevInvStep == ASSUME TypeOK, RevInv, Rows, TypeOK' PROVE RevInv'
<1> USE ConstantsAssumption
<1>1. AbsentIsNew'
  <2>1. ASSUME NEW t \in Tasks, task'[t].status = "absent"
        PROVE  task'[t].req = 0 /\ task'[t].ctl = 0 /\ task'[t].gate = {}
    BY <2>1 DEF Rows, TaskRows, SameTask, RevInv, AbsentIsNew
  <2> QED  BY <2>1 DEF AbsentIsNew
<1>2. \A t \in Tasks : /\ task[t].req \in Nat /\ task[t].ctl \in Nat
                       /\ task'[t].req \in Nat /\ task'[t].ctl \in Nat
                       /\ task[t].req <= task'[t].req /\ task[t].ctl <= task'[t].ctl
  BY TaskRowFields DEF TypeOK, Rows, TaskRows, SameTask
<1>3. ASSUME NEW e \in Executions
      PROVE  exec'[e].req <= task'[TaskOf[e]].req /\ exec'[e].ctl <= task'[TaskOf[e]].ctl
  <2>1. TaskOf[e] \in Tasks /\ exec[e].req \in Nat /\ exec[e].ctl \in Nat
    BY ExecRowFields DEF TypeOK
  <2>2. CASE Redirected(e)
    BY <1>2, <2>1, <2>2 DEF Redirected
  <2>3. CASE SameInput(exec[e], exec'[e])
    BY <1>2, <2>1, <2>3 DEF RevInv, RevisionsBounded, SameInput
  <2> QED  BY <2>2, <2>3 DEF Rows, ExecRows
<1>4. ASSUME NEW o \in Operations
      PROVE  op'[o].req <= task'[TaskOf[ExecOf[o]]].req /\ op'[o].ctl <= task'[TaskOf[ExecOf[o]]].ctl
  <2>1. TaskOf[ExecOf[o]] \in Tasks /\ op[o].req \in Nat /\ op[o].ctl \in Nat
    BY DEF TypeOK, OpRow
  <2>2. CASE SameCall(op[o], op'[o])
    BY <1>2, <2>1, <2>2 DEF RevInv, RevisionsBounded, SameCall
  <2>3. ASSUME NEW ks, OperationPrepare(o, ks)
        PROVE  op'[o].req <= task'[TaskOf[ExecOf[o]]].req /\ op'[o].ctl <= task'[TaskOf[ExecOf[o]]].ctl
    BY <1>2, <2>1, <2>3, PreparedRow
  <2> QED  BY <2>2, <2>3 DEF Rows, OpRows
<1> QED  BY <1>1, <1>3, <1>4 DEF RevInv, RevisionsBounded, Rows

\* Revisions only grow, nothing carries a revision its task has not reached, and no
\* session outlives its lease: the fences of every command compare such values.
THEOREM RevisionsFence == Spec => []RevInv
<1>1. TypeOK /\ TypeOK' /\ LockInv /\ RevInv /\ [Next]_vars => RevInv'
  BY RowsNext, RevInvStep
<1> QED  BY <1>1, RevInvInit, TypeCorrect, LocksCorrect, PTL DEF Spec

-----------------------------------------------------------------------------
(* A completed task stays quiet.                                           *)

CompletedIsOver == \A t \in Tasks : task[t].status = "completed" =>
    owner[t].phase # "running" /\ assertClear(t)

\* a task becomes completed by submit(complete) only, and no turn starts on it
LEMMA CompletedBy ==
    ASSUME TypeOK, [Next]_vars, NEW t \in Tasks, task'[t].status = "completed"
    PROVE  \/ TaskComplete(t)
           \/ /\ task[t].status = "completed"
              /\ owner'[t].phase = "running" => owner[t].phase = "running"
<1> DEFINE Stays == /\ task[t].status = "completed"
                    /\ owner'[t].phase = "running" => owner[t].phase = "running"
<1>0. /\ \A u \in Tasks : task[u] \in TaskRow /\ owner[u] \in TurnRow
      /\ task \in [Tasks -> TaskRow] /\ owner \in [Tasks -> TurnRow]
  BY DEF TypeOK
<1>1. ASSUME NEW u \in Tasks, NEW row \in TaskRow, Supersede(u, row), row.status # "completed"
      PROVE  Stays
  <2>1. [row EXCEPT !.question = FALSE].status # "completed"
    BY <1>1 DEF TaskRow
  <2> QED  BY <1>0, <1>1, <2>1 DEF Supersede
<1>2. ASSUME UNCHANGED owner, task'[t].status = task[t].status PROVE Stays
  BY <1>2
<1>3. ASSUME NEW u \in Tasks, TaskStep(u) PROVE TaskComplete(t) \/ Stays
  <2>1. CASE TaskCreate(u)
    BY <1>0, <2>1 DEF TaskCreate, TaskRow
  <2>2. CASE TaskRevise(u)
    <3>1. /\ [task[u] EXCEPT !.req = @ + 1] \in TaskRow
          /\ [task[u] EXCEPT !.req = @ + 1].status = task[u].status
      BY <1>0 DEF TaskRow
    <3> QED  BY <1>1, <2>2, <3>1 DEF TaskRevise
  <2>3. CASE TaskReopen(u)
    <3>1. PICK gate \in SUBSET Operations :
             Supersede(u, [task[u] EXCEPT !.status = "active", !.control = "active", !.gate = gate,
                                          !.ctl = @ + 1, !.req = @ + 1])
      <4>1. /\ task[u].gate \in SUBSET Operations
            /\ {o \in Operations : TaskOf[ExecOf[o]] = u /\ operationBlocksRecovery(o)} \in SUBSET Operations
        BY <1>0 DEF TaskRow
      <4> QED  BY <2>3, <4>1 DEF TaskReopen
    <3> DEFINE row == [task[u] EXCEPT !.status = "active", !.control = "active", !.gate = gate,
                                      !.ctl = @ + 1, !.req = @ + 1]
    <3>2. row \in TaskRow /\ row.status = "active"
      <4>1. task[u].req + 1 \in Nat /\ task[u].ctl + 1 \in Nat
        BY <1>0, TaskRowFields, SuccType
      <4>2. row \in TaskRow
        BY <1>0, <4>1, TaskRowReopenType
      <4>3. row.status = "active"
        BY <1>0 DEF TaskRow
      <4> QED  BY <4>2, <4>3
    <3>3. Supersede(u, row)
      BY <3>1
    <3> HIDE DEF row
    <3> QED  BY <1>1, <3>2, <3>3
  <2>4. CASE \E c \in Controls : TaskControl(u, c)
    <3>1. PICK c \in Controls : TaskControl(u, c)
      BY <2>4
    <3> DEFINE s == IF c = "cancelled" THEN "cancelled" ELSE task[u].status
               row == [task[u] EXCEPT !.ctl = @ + 1, !.control = c, !.status = s]
    <3>2. Supersede(u, row) /\ s \in {"active", "cancelled"}
      BY <3>1 DEF TaskControl
    <3> HIDE DEF s
    <3>3. row \in TaskRow /\ row.status = s
      <4>1. task[u].ctl + 1 \in Nat /\ c \in {"active", "paused", "cancelled"}
        BY <1>0, TaskRowFields, SuccType, ConstantsAssumption
      <4> QED  BY <1>0, <3>2, <4>1, ZenonT(30) DEF TaskRow
    <3> HIDE DEF row
    <3> QED  BY <1>1, <3>2, <3>3
  <2>5. CASE TaskSupplement(u) \/ TaskArchive(u) \/ RecoverTask(u) \/ HumanRespond(u)
    <3>1. /\ owner' = owner
          /\ \/ task' = [task EXCEPT ![u].ctx = @ + 1]
             \/ task' = [task EXCEPT ![u].archived = TRUE]
             \/ task' = [task EXCEPT ![u] = [task[u] EXCEPT !.drained = TRUE, !.recovering = FALSE]]
             \/ task' = [task EXCEPT ![u].question = FALSE]
      BY <2>5 DEF TaskSupplement, TaskArchive, RecoverTask, HumanRespond
    <3>2. task'[t].status = task[t].status
      <4>1. \/ task'[t] = task[t]
            \/ task'[t] = [task[t] EXCEPT !.ctx = @ + 1]
            \/ task'[t] = [task[t] EXCEPT !.archived = TRUE]
            \/ task'[t] = [task[t] EXCEPT !.drained = TRUE, !.recovering = FALSE]
            \/ task'[t] = [task[t] EXCEPT !.question = FALSE]
        BY <1>0, <3>1
      <4>2. task[t] \in TaskRow
        BY <1>0
      <4> QED  BY <4>1, <4>2 DEF TaskRow
    <3> QED  BY <1>2, <3>1, <3>2
  <2>6. CASE TaskClaim(u)
    BY <1>0, <2>6 DEF TaskClaim, Active, TaskRow
  <2>7. CASE TaskComplete(u)
    BY <1>0, <2>7, ZenonT(30) DEF TaskComplete, TaskRow, TurnRow
  <2>8. CASE WakeAck(u) \/ TaskDrained(u) \/ TaskDrainLost(u)
    <3>1. task'[t].status = task[t].status
      <4>1. \/ task' = task
            \/ task' = [task EXCEPT ![u] = [task[u] EXCEPT !.drained = TRUE, !.recovering = FALSE]]
        BY <2>8 DEF WakeAck, TaskDrained, TaskDrainLost
      <4>2. \/ task'[t] = task[t]
            \/ task'[t] = [task[t] EXCEPT !.drained = TRUE, !.recovering = FALSE]
        BY <1>0, <4>1
      <4>3. task[t] \in TaskRow
        BY <1>0
      <4> QED  BY <4>2, <4>3 DEF TaskRow
    <3>2. owner'[t] = owner[t] \/ owner'[t].phase \in {"acked", "none", "lost"}
      BY <1>0, <2>8 DEF WakeAck, TaskDrained, TaskDrainLost, NoTurn, TurnRow
    <3> QED  BY <3>1, <3>2
  <2>9. CASE \E ask \in BOOLEAN : TaskWait(u, ask)
    BY <1>0, <2>9 DEF TaskWait, TaskRow, TurnRow
  <2> QED  BY <1>3, <2>1, <2>2, <2>3, <2>4, <2>5, <2>6, <2>7, <2>8, <2>9 DEF TaskStep
<1>4. ASSUME NEW e \in Executions, ExecutionStep(e) PROVE Stays
  <2>1. UNCHANGED <<task, owner>>
    BY <1>4 DEF ExecutionStep, ExecutionDispatch, ExecutionContinue, ExecutionClaim, ExecutionCancel,
                NativeEnd, SubmissionRaced, ExecutionDrainFailed, OrphanGone, ExecutionDrained,
                RecoverDrained, ExecutionResult, Feedback, FeedbackConsumed, Drain
  <2> QED  BY <1>2, <2>1
<1>5. ASSUME NEW o \in Operations, OperationStep(o) PROVE Stays
  <2>1. owner' = owner
    BY <1>5 DEF OperationStep, OperationPrepare, OperationStart, OperationStartRefused, EffectEnd,
                OperationSettle, OperationReconcile, OperatorResolve
  <2>2. task' = task \/ \E u \in Tasks : task' = [task EXCEPT ![u].question = FALSE]
    BY <1>5, ConstantsAssumption
    DEF OperationStep, OperationPrepare, OperationStart, OperationStartRefused, EffectEnd,
        OperationSettle, OperationReconcile, OperatorResolve
  <2>3. task'[t].status = task[t].status
    BY <1>0, <2>2 DEF TaskRow
  <2> QED  BY <1>2, <2>1, <2>3
<1>6. CASE Crash
  BY <1>0, <1>6 DEF Crash, NoTurn, TaskRow
<1>7. CASE UNCHANGED vars
  BY <1>2, <1>7 DEF vars
<1> QED  BY <1>3, <1>4, <1>5, <1>6, <1>7 DEF Next

LEMMA CompletedIsOverStep ==
    ASSUME TypeOK, RevInv, CompletedIsOver, Rows, [Next]_vars PROVE CompletedIsOver'
<1> USE ConstantsAssumption
<1> SUFFICES ASSUME NEW t \in Tasks, task'[t].status = "completed"
             PROVE  owner'[t].phase # "running" /\ assertClear(t)'
  BY DEF CompletedIsOver
<1>1. CASE TaskComplete(t)
  <2>1. assertClear(t) /\ UNCHANGED <<exec, op>>
    BY <1>1 DEF TaskComplete
  <2>2. owner'[t].phase = "submitted"
    BY <1>1 DEF TaskComplete, TypeOK, TurnRow
  <2>3. assertClear(t)'
    BY <2>1 DEF assertClear, ExecsOf, OpsOf, operationBlocksRecovery, BlocksIn
  <2> QED  BY <2>2, <2>3
<1>2. CASE task[t].status = "completed" /\ (owner'[t].phase = "running" => owner[t].phase = "running")
  <2>1. owner[t].phase # "running" /\ assertClear(t)
    BY <1>2 DEF CompletedIsOver
  <2>2. ASSUME NEW e \in Executions, TaskOf[e] = t, exec'[e].status # "absent"
        PROVE  /\ exec'[e].drained /\ exec'[e].status \in terminalExecutions
               /\ \A o \in OpsOf(e)' : ~operationBlocksRecovery(o)'
    <3>1. ~Redirected(e)
      BY <2>1, <2>2 DEF Redirected, currentTask
    <3>2. SameInput(exec[e], exec'[e])
      BY <3>1 DEF Rows, ExecRows
    <3>3. Over(exec[e]) /\ \A o \in OpsOf(e) : ~operationBlocksRecovery(o)
      BY <2>1, <2>2, <3>2 DEF SameInput, assertClear, ExecsOf, Over
    <3>4. Over(exec'[e])
      BY <3>2, <3>3 DEF SameInput
    <3>5. ASSUME NEW o \in Operations, ExecOf[o] = e, op'[o].state # "absent"
          PROVE  ~operationBlocksRecovery(o)'
      <4>1. run[e] # "live"
        BY <3>3 DEF Over, RevInv, SessionsLease
      <4>2. SameCall(op[o], op'[o])
        BY <3>5, <4>1, PreparedRow DEF Rows, OpRows
      <4>3. o \in OpsOf(e)
        BY <3>5, <4>2 DEF SameCall, OpsOf
      <4>4. ~Open(op[o])
        BY <3>3, <4>3 DEF operationBlocksRecovery, BlocksIn, Open
      <4> QED  BY <4>2, <4>4 DEF SameCall, operationBlocksRecovery, BlocksIn, Open
    <3> QED  BY <3>4, <3>5 DEF Over, OpsOf
  <2> QED  BY <1>2, <2>1, <2>2 DEF assertClear, ExecsOf
<1> QED  BY <1>1, <1>2, CompletedBy

LEMMA CompletedIsOverSuffices ==
    TypeOK /\ LockInv /\ RevInv /\ CompletedIsOver => CompletionQuiescent
<1> SUFFICES ASSUME TypeOK, LockInv, RevInv, CompletedIsOver,
                    NEW t \in Tasks, task[t].status = "completed", NEW e \in ExecsOf(t)
             PROVE  /\ run[e] = "none" /\ exec[e].status \in terminalExecutions
                    /\ \A o \in OpsOf(e) : o \notin acting /\ ~operationBlocksRecovery(o)
  BY DEF CompletionQuiescent
<1>1. /\ exec[e].drained /\ exec[e].status \in terminalExecutions /\ e \in Executions
      /\ \A o \in OpsOf(e) : ~operationBlocksRecovery(o)
  BY DEF CompletedIsOver, assertClear, ExecsOf
<1>2. run[e] = "none"
  BY <1>1 DEF RevInv, SessionsLease
<1>3. ASSUME NEW o \in acting PROVE operationBlocksRecovery(o)
  BY DEF LockInv, ActingIsUndecided, operationBlocksRecovery, BlocksIn, terminalOperations
<1> QED  BY <1>1, <1>2, <1>3

\* A completed task never has a session, an undecided operation or a running effect
\* left, whatever turns, cancellations, late results and crashes surround the
\* completion (assertClear is checked in the same transaction that completes it).
THEOREM CompletionIsQuiet == Spec => []CompletionQuiescent
<1>1. Init => CompletedIsOver
  BY DEF Init, CompletedIsOver, NewTask
<1>2. TypeOK /\ LockInv /\ RevInv /\ CompletedIsOver /\ [Next]_vars => CompletedIsOver'
  BY RowsNext, CompletedIsOverStep
<1>3. Spec => []CompletedIsOver
  BY <1>1, <1>2, TypeCorrect, LocksCorrect, RevisionsFence, PTL DEF Spec
<1> QED  BY <1>3, CompletedIsOverSuffices, TypeCorrect, LocksCorrect, RevisionsFence, PTL

-----------------------------------------------------------------------------
(* The read-only gate of a task reopened over unknown operations.          *)

\* the gate names operations of the task that are dispatched and over
GateIsLate == \A t \in Tasks : \A o \in task[t].gate :
    TaskOf[ExecOf[o]] = t /\ op[o].state \notin {"absent", "prepared", "starting"}

\* what can be started on the task is an inspection of an operation of the gate
GateObeyed == \A o \in Operations :
    LET t == TaskOf[ExecOf[o]] IN
    /\ op[o].state \in {"prepared", "starting"} /\ op[o].req = task[t].req /\ op[o].ctl = task[t].ctl
    /\ restartRecoveryPending(t) # {}
    => exec[ExecOf[o]].readback \in task[t].gate

GateInv == GateIsLate /\ GateObeyed

\* the gate is written by task.reopen only, as the operations it found undecided
LEMMA GateWritten ==
    ASSUME TypeOK, [Next]_vars, NEW t \in Tasks
    PROVE  \/ task'[t].gate = task[t].gate
           \/ /\ restartReopenEligible(t)
              /\ task'[t].gate = {o \in Operations : TaskOf[ExecOf[o]] = t /\ operationBlocksRecovery(o)}
<1> DEFINE unresolved(u) == {o \in Operations : TaskOf[ExecOf[o]] = u /\ operationBlocksRecovery(o)}
           Goal == \/ task'[t].gate = task[t].gate
                   \/ restartReopenEligible(t) /\ task'[t].gate = unresolved(t)
<1>0. \A u \in Tasks : task[u] \in TaskRow
  BY DEF TypeOK
<1>1. ASSUME NEW u \in Tasks, NEW row \in TaskRow, Supersede(u, row),
             \/ row.gate = task[u].gate
             \/ restartReopenEligible(u) /\ row.gate = unresolved(u)
      PROVE  Goal
  <2>1. [row EXCEPT !.question = FALSE].gate = row.gate
    BY DEF TaskRow
  <2>2. \A v \in Tasks : task'[v] = IF v = u THEN [row EXCEPT !.question = FALSE] ELSE task[v]
    BY <1>1 DEF Supersede, TypeOK
  <2> HIDE DEF unresolved
  <2> QED  BY <1>1, <2>1, <2>2
<1> HIDE DEF unresolved
<1>2. ASSUME NEW u \in Tasks, TaskStep(u) PROVE Goal
  <2>0. /\ task[u] \in TaskRow /\ task[u].gate \in SUBSET Operations /\ task[u].req + 1 \in Nat
        /\ task[u].ctl + 1 \in Nat /\ unresolved(u) \in SUBSET Operations
    BY <1>0, TaskRowFields, SuccType DEF unresolved
  <2>1. CASE TaskRevise(u)
    <3>1. /\ [task[u] EXCEPT !.req = @ + 1] \in TaskRow
          /\ [task[u] EXCEPT !.req = @ + 1].gate = task[u].gate
      BY <2>0 DEF TaskRow
    <3> QED  BY <1>1, <2>1, <3>1 DEF TaskRevise
  <2>2. CASE TaskReopen(u)
    <3> DEFINE row(gate) == [task[u] EXCEPT !.status = "active", !.control = "active", !.gate = gate,
                                            !.ctl = @ + 1, !.req = @ + 1]
    <3>1. ASSUME NEW gate \in SUBSET Operations PROVE row(gate) \in TaskRow /\ row(gate).gate = gate
      <4>1. row(gate) \in TaskRow
        BY <2>0, TaskRowReopenType
      <4>2. row(gate).gate = gate
        BY <2>0 DEF TaskRow
      <4> QED  BY <4>1, <4>2
    <3>2. \/ restartReopenEligible(u) /\ Supersede(u, row(unresolved(u)))
          \/ Supersede(u, row(task[u].gate))
      BY <2>2 DEF TaskReopen, unresolved
    <3> HIDE DEF row
    <3> QED  BY <1>1, <2>0, <3>1, <3>2
  <2>3. CASE \E c \in Controls : TaskControl(u, c)
    <3>1. PICK c \in Controls : TaskControl(u, c)
      BY <2>3
    <3> DEFINE s == IF c = "cancelled" THEN "cancelled" ELSE task[u].status
               row == [task[u] EXCEPT !.ctl = @ + 1, !.control = c, !.status = s]
    <3>2. Supersede(u, row) /\ s \in {"active", "cancelled"}
      BY <3>1 DEF TaskControl
    <3>3. c \in {"active", "paused", "cancelled"}
      BY ConstantsAssumption
    <3> HIDE DEF s
    <3>4. row \in TaskRow /\ row.gate = task[u].gate
      BY <2>0, <3>2, <3>3 DEF TaskRow
    <3> HIDE DEF row
    <3> QED  BY <1>1, <3>2, <3>4
  <2>4. CASE \/ TaskCreate(u) \/ TaskSupplement(u) \/ TaskArchive(u) \/ TaskClaim(u) \/ TaskComplete(u)
             \/ WakeAck(u) \/ TaskDrained(u) \/ TaskDrainLost(u) \/ RecoverTask(u) \/ HumanRespond(u)
             \/ \E ask \in BOOLEAN : TaskWait(u, ask)
    <3>1. \A v \in Tasks : v # u => task'[v] = task[v]
      BY <2>4 DEF TaskCreate, TaskSupplement, TaskArchive, TaskClaim, TaskComplete, WakeAck,
                  TaskDrained, TaskDrainLost, RecoverTask, HumanRespond, TaskWait, TypeOK
    <3>2. \/ task'[u] = task[u]
          \/ task'[u] = [task[u] EXCEPT !.status = "active", !.req = 1, !.ctl = 1]
          \/ task'[u] = [task[u] EXCEPT !.ctx = @ + 1]
          \/ task'[u] = [task[u] EXCEPT !.archived = TRUE]
          \/ task'[u] = [task[u] EXCEPT !.lease = @ + 1, !.drained = FALSE, !.recovering = FALSE]
          \/ task'[u] = [task[u] EXCEPT !.status = "completed"]
          \/ task'[u] = [task[u] EXCEPT !.drained = TRUE, !.recovering = FALSE]
          \/ \E q : task'[u] = [task[u] EXCEPT !.question = q]
      <4>0. task \in [Tasks -> TaskRow]
        BY DEF TypeOK
      <4>1. CASE TaskCreate(u) \/ TaskSupplement(u) \/ TaskArchive(u)
        BY <4>0, <4>1 DEF TaskCreate, TaskSupplement, TaskArchive
      <4>2. CASE TaskClaim(u)
        BY <4>0, <4>2 DEF TaskClaim
      <4>3. CASE TaskComplete(u) \/ WakeAck(u) \/ TaskDrained(u) \/ TaskDrainLost(u) \/ RecoverTask(u)
        BY <4>0, <4>3 DEF TaskComplete, WakeAck, TaskDrained, TaskDrainLost, RecoverTask
      <4>4. CASE HumanRespond(u)
        BY <4>0, <4>4 DEF HumanRespond
      <4>5. CASE \E ask \in BOOLEAN : TaskWait(u, ask)
        BY <4>0, <4>5, ZenonT(30) DEF TaskWait
      <4> QED  BY <2>4, <4>1, <4>2, <4>3, <4>4, <4>5
    <3>3. task'[u].gate = task[u].gate
      BY <2>0, <3>2 DEF TaskRow
    <3> QED  BY <3>1, <3>3
  <2> QED  BY <1>2, <2>1, <2>2, <2>3, <2>4 DEF TaskStep
<1>3. ASSUME NEW e \in Executions, ExecutionStep(e) PROVE Goal
  <2>1. task' = task
    BY <1>3 DEF ExecutionStep, ExecutionDispatch, ExecutionContinue, ExecutionClaim, ExecutionCancel,
                NativeEnd, SubmissionRaced, ExecutionDrainFailed, OrphanGone, ExecutionDrained,
                RecoverDrained, ExecutionResult, Feedback, FeedbackConsumed, Drain
  <2> QED  BY <2>1
<1>4. ASSUME NEW o \in Operations, OperationStep(o) PROVE Goal
  <2>1. task' = task \/ \E u \in Tasks : task' = [task EXCEPT ![u].question = FALSE]
    BY <1>4, ConstantsAssumption
    DEF OperationStep, OperationPrepare, OperationStart, OperationStartRefused, EffectEnd,
        OperationSettle, OperationReconcile, OperatorResolve
  <2>2. task'[t] = task[t] \/ task'[t] = [task[t] EXCEPT !.question = FALSE]
    BY <2>1 DEF TypeOK
  <2> QED  BY <1>0, <2>2 DEF TaskRow
<1>5. CASE Crash
  <2>1. task'[t] = task[t] \/ task'[t] = [task[t] EXCEPT !.recovering = TRUE]
    BY <1>5 DEF Crash
  <2> QED  BY <1>0, <2>1 DEF TaskRow
<1>6. CASE UNCHANGED vars
  BY <1>6 DEF vars
<1> QED  BY <1>2, <1>3, <1>4, <1>5, <1>6 DEF Next, unresolved

LEMMA GateIsLateStep ==
    ASSUME TypeOK, TypeOK', LockInv, GateIsLate, Rows, [Next]_vars PROVE GateIsLate'
<1> USE ConstantsAssumption
<1>1. ASSUME NEW t \in Tasks, NEW o \in task'[t].gate
      PROVE  TaskOf[ExecOf[o]] = t /\ op'[o].state \notin {"absent", "prepared", "starting"}
  <2>1. o \in Operations
    BY <1>1, TaskRowFields DEF TypeOK
  <2>2. TaskOf[ExecOf[o]] = t /\ op[o].state \notin {"absent", "prepared", "starting"}
    <3>1. CASE task'[t].gate = task[t].gate
      BY <3>1 DEF GateIsLate
    <3>2. CASE /\ restartReopenEligible(t)
               /\ task'[t].gate = {x \in Operations : TaskOf[ExecOf[x]] = t /\ operationBlocksRecovery(x)}
      <4> DEFINE e == ExecOf[o]
      <4>1. TaskOf[e] = t /\ operationBlocksRecovery(o) /\ e \in Executions
        BY <2>1, <3>2
      <4>2. op[o].state # "absent"
        BY <4>1 DEF operationBlocksRecovery, BlocksIn
      <4>3. e \in ExecsOf(t) /\ o \in OpsOf(e)
        BY <2>1, <4>1, <4>2 DEF LockInv, AbsentIsEmpty, ExecsOf, OpsOf
      <4>4. Interrupted(o)
        BY <3>2, <4>1, <4>3 DEF restartReopenEligible
      <4> QED  BY <4>1, <4>4 DEF Interrupted
    <3> QED  BY <1>1, <3>1, <3>2, GateWritten
  <2>3. SameCall(op[o], op'[o])
    BY <2>1, <2>2 DEF Rows, OpRows
  <2> QED  BY <2>2, <2>3 DEF SameCall
<1> QED  BY <1>1 DEF GateIsLate

\* while the requirement stays, fewer and fewer operations keep the gate closed
LEMMA PendingShrinks ==
    ASSUME TypeOK, TypeOK', GateIsLate, Rows, NEW t \in Tasks, task'[t].gate = task[t].gate
    PROVE  restartRecoveryPending(t)' \subseteq restartRecoveryPending(t)
<1> SUFFICES ASSUME NEW o \in task[t].gate, operationBlocksRecovery(o)' PROVE operationBlocksRecovery(o)
  BY DEF restartRecoveryPending
<1>1. o \in Operations /\ op[o].state # "absent"
  BY TaskRowFields DEF TypeOK, GateIsLate
<1>2. SameCall(op[o], op'[o])
  BY <1>1 DEF Rows, OpRows
<1> QED  BY <1>2 DEF SameCall, operationBlocksRecovery, BlocksIn, Open

LEMMA GateObeyedStep ==
    ASSUME TypeOK, TypeOK', RevInv, GateInv, Rows PROVE GateObeyed'
<1> USE ConstantsAssumption
<1> SUFFICES ASSUME NEW o \in Operations, NEW t, t = TaskOf[ExecOf[o]],
                    op'[o].state \in {"prepared", "starting"},
                    op'[o].req = task'[t].req, op'[o].ctl = task'[t].ctl,
                    restartRecoveryPending(t)' # {}
             PROVE  exec'[ExecOf[o]].readback \in task'[t].gate
  BY DEF GateObeyed
<1> DEFINE e == ExecOf[o]
<1>0. t \in Tasks /\ e \in Executions
  OBVIOUS
<1>1. CASE SameCall(op[o], op'[o])
  <2>1. /\ op[o].state \in {"prepared", "starting"}
        /\ op[o].req = task'[t].req /\ op[o].ctl = task'[t].ctl
    BY <1>1 DEF SameCall
  <2>2. task'[t].req = task[t].req /\ task'[t].ctl = task[t].ctl
    <3>1. /\ op[o].req <= task[t].req /\ task[t].req <= task'[t].req
          /\ op[o].ctl <= task[t].ctl /\ task[t].ctl <= task'[t].ctl
      BY DEF RevInv, RevisionsBounded, Rows, TaskRows, SameTask
    <3>2. task[t].req \in Nat /\ task[t].ctl \in Nat /\ task'[t].req \in Nat /\ task'[t].ctl \in Nat
      BY <1>0, TaskRowFields DEF TypeOK
    <3> QED  BY <2>1, <3>1, <3>2
  <2>3. task'[t].gate = task[t].gate
    BY <1>0, <2>2 DEF Rows, TaskRows, SameTask
  <2>4. restartRecoveryPending(t) # {}
    BY <1>0, <2>3, PendingShrinks DEF GateInv
  <2>5. CASE Redirected(e)
    BY <1>0, <2>3, <2>4, <2>5 DEF Redirected, PassesGate, restartRecoveryPending
  <2>6. CASE SameInput(exec[e], exec'[e])
    BY <1>0, <2>1, <2>2, <2>3, <2>4, <2>6 DEF GateInv, GateObeyed, SameInput
  <2> QED  BY <1>0, <2>5, <2>6 DEF Rows, ExecRows
<1>2. ASSUME NEW ks, OperationPrepare(o, ks) PROVE exec'[e].readback \in task'[t].gate
  <2>1. UNCHANGED <<task, exec>> /\ PassesGate(t, exec[e].readback)
    BY <1>2, PreparedRow
  <2>2. restartRecoveryPending(t) # {}
    BY <1>0, <2>1, PendingShrinks DEF GateInv
  <2> QED  BY <2>1, <2>2 DEF PassesGate, restartRecoveryPending
<1> QED  BY <1>1, <1>2 DEF Rows, OpRows

\* Until the last operation that a restart left unknown is decided, nothing but an
\* inspection of those operations is ever started on the reopened task: a revision, a
\* crash or work that was dispatched before the reopening opens no way around the gate.
THEOREM GateIsReadOnly == Spec => []GateReadOnly
<1>1. Init => GateInv
  BY DEF Init, GateInv, GateIsLate, GateObeyed, NewTask, NewOp
<1>2. TypeOK /\ TypeOK' /\ LockInv /\ RevInv /\ GateInv /\ [Next]_vars => GateInv'
  BY RowsNext, GateIsLateStep, GateObeyedStep DEF GateInv
<1>3. GateInv => GateReadOnly
  BY DEF GateInv, GateObeyed, GateReadOnly
<1> QED  BY <1>1, <1>2, <1>3, TypeCorrect, LocksCorrect, RevisionsFence, PTL DEF Spec

-----------------------------------------------------------------------------
(* No drained result is lost.                                              *)

Names(w, e) ==
    w.task = TaskOf[e] /\ w.kind \in {"result", "drained"} /\ w.ref = e /\ w.input = exec[e].input

TurnOpen(t) == owner[t].phase \in {"running", "submitted"}

\* A result that no Owner has judged is named by a wake; one that came after the
\* running turn began is named by a wake which that turn's ack cannot remove.
ResultWoken == \A e \in Executions : ResultReady(e) =>
    /\ seen[e] # "judged" => \E w \in wake : Names(w, e)
    /\ seen[e] = "no" /\ TurnOpen(TaskOf[e]) => \E w \in wake : Names(w, e) /\ w.state = "pending"

\* the steps in which the wakes, the turn and the history of one execution move on
TurnMoves(e) ==
    LET t == TaskOf[e] IN
    \/ TaskClaim(t) \/ WakeAck(t) \/ TaskDrained(t) \/ TaskDrainLost(t) \/ Crash \/ Redirected(e)

TurnStays(e) ==
    /\ \A w \in wake : w.task = TaskOf[e] => w \in wake'
    /\ seen'[e] = seen[e]
    /\ TurnOpen(TaskOf[e])' => TurnOpen(TaskOf[e])

LEMMA TurnRows ==
    ASSUME TypeOK, [Next]_vars, NEW e \in Executions PROVE TurnMoves(e) \/ TurnStays(e)
<1> USE ConstantsAssumption
<1> DEFINE t == TaskOf[e]
<1>0. t \in Tasks /\ owner \in [Tasks -> TurnRow] /\ seen \in [Executions -> {"no", "shown", "judged"}]
  BY DEF TypeOK
<1>1. ASSUME wake \subseteq wake', UNCHANGED <<owner, seen>> PROVE TurnStays(e)
  BY <1>1 DEF TurnStays, TurnOpen
<1>2. ASSUME NEW u \in Tasks, TaskStep(u) PROVE TurnMoves(e) \/ TurnStays(e)
  <2>1. CASE \/ TaskCreate(u) \/ TaskRevise(u) \/ TaskReopen(u) \/ TaskSupplement(u) \/ TaskArchive(u)
             \/ (\E c \in Controls : TaskControl(u, c)) \/ RecoverTask(u) \/ HumanRespond(u)
    BY <1>1, <2>1 DEF TaskCreate, TaskRevise, TaskReopen, TaskSupplement, TaskArchive, TaskControl,
                      RecoverTask, HumanRespond, Supersede
  <2>2. CASE TaskComplete(u) \/ \E ask \in BOOLEAN : TaskWait(u, ask)
    <3>1. /\ owner[u].phase = "running" /\ owner' = [owner EXCEPT ![u].phase = "submitted"]
          /\ UNCHANGED <<wake, seen>>
      BY <2>2 DEF TaskComplete, TaskWait, currentTask
    <3>2. TurnOpen(t)' => TurnOpen(t)
      BY <1>0, <3>1 DEF TurnOpen
    <3> QED  BY <3>1, <3>2 DEF TurnStays
  <2>3. CASE TaskClaim(u) /\ u # t
    BY <1>0, <2>3 DEF TaskClaim, TurnStays, TurnOpen, WakesOf
  <2>4. CASE WakeAck(u) /\ u # t
    BY <1>0, <2>4 DEF WakeAck, Seen, TurnStays, TurnOpen
  <2>5. CASE (TaskDrained(u) \/ TaskDrainLost(u)) /\ u # t
    BY <1>0, <2>5 DEF TaskDrained, TaskDrainLost, Seen, TurnStays, TurnOpen
  <2> QED  BY <1>2, <2>1, <2>2, <2>3, <2>4, <2>5 DEF TaskStep, TurnMoves
<1>3. ASSUME NEW x \in Executions, ExecutionStep(x) PROVE TurnMoves(e) \/ TurnStays(e)
  <2>1. ASSUME NEW ks \in KeySets[x], NEW rb \in Operations \cup {Nobody}, ExecutionContinue(x, ks, rb)
        PROVE  TurnMoves(e) \/ TurnStays(e)
    <3>1. CASE x = e
      <4>1. /\ exec'[e].readback = rb /\ exec'[e].result = "none"
            /\ exec'[e].req = task[TaskOf[e]].req /\ exec'[e].ctl = task[TaskOf[e]].ctl
        BY <2>1, <3>1 DEF ExecutionContinue, TypeOK, ExecRow
      <4> QED  BY <2>1, <3>1, <4>1 DEF ExecutionContinue, Redirected, TurnMoves
    <3>2. CASE x # e
      BY <1>0, <2>1, <3>2 DEF ExecutionContinue, TurnStays, TurnOpen
    <3> QED  BY <3>1, <3>2
  <2> QED
    BY <1>1, <1>3, <2>1
    DEF ExecutionStep, ExecutionDispatch, ExecutionClaim, ExecutionCancel,
        NativeEnd, SubmissionRaced, ExecutionDrainFailed, OrphanGone, ExecutionDrained,
        RecoverDrained, ExecutionResult, Feedback, FeedbackConsumed, Drain
<1>4. ASSUME NEW o \in Operations, OperationStep(o) PROVE TurnStays(e)
  BY <1>1, <1>4
  DEF OperationStep, OperationPrepare, OperationStart, OperationStartRefused, EffectEnd,
      OperationSettle, OperationReconcile, OperatorResolve
<1>5. CASE Crash
  BY <1>5 DEF TurnMoves
<1>6. CASE UNCHANGED vars
  BY <1>1, <1>6 DEF vars
<1> QED  BY <1>2, <1>3, <1>4, <1>5, <1>6 DEF Next

LEMMA ReadyParts ==
    ASSUME NEW e \in Executions
    PROVE  ResultReady(e) <=> /\ Reported(exec[e]) /\ Active(TaskOf[e])
                              /\ exec[e].req = task[TaskOf[e]].req
                              /\ exec[e].ctl = task[TaskOf[e]].ctl
BY DEF ResultReady, Reported, executionCurrent

\* A result is ready because it was, or because its session has just been drained
LEMMA ReadyBefore ==
    ASSUME TypeOK, TypeOK', RevInv, Rows, NEW e \in Executions, ResultReady(e)'
    PROVE  /\ ~Redirected(e) /\ exec'[e].input = exec[e].input
           /\ \/ ResultReady(e)
              \/ /\ Drain(e) /\ Active(TaskOf[e])
                 /\ exec[e].req = task[TaskOf[e]].req /\ exec[e].ctl = task[TaskOf[e]].ctl
<1> USE ConstantsAssumption
<1> DEFINE t == TaskOf[e]
<1>0. t \in Tasks
  OBVIOUS
<1>1. /\ Reported(exec'[e]) /\ Active(t)'
      /\ exec'[e].req = task'[t].req /\ exec'[e].ctl = task'[t].ctl
  BY DEF ResultReady, Reported, executionCurrent
<1>2. ~Redirected(e)
  BY <1>1 DEF Redirected, Reported
<1>3. /\ SameInput(exec[e], exec'[e])
      /\ Reported(exec[e]) \/ Drain(e)
  BY <1>1, <1>2 DEF Rows, ExecRows
<1>4. task'[t].req = task[t].req /\ task'[t].ctl = task[t].ctl
  <2>1. /\ exec[e].req <= task[t].req /\ task[t].req <= task'[t].req /\ exec[e].req = task'[t].req
        /\ exec[e].ctl <= task[t].ctl /\ task[t].ctl <= task'[t].ctl /\ exec[e].ctl = task'[t].ctl
    BY <1>0, <1>1, <1>3 DEF RevInv, RevisionsBounded, Rows, TaskRows, SameTask, SameInput
  <2>2. task[t].req \in Nat /\ task[t].ctl \in Nat /\ task'[t].req \in Nat /\ task'[t].ctl \in Nat
    BY <1>0, TaskRowFields DEF TypeOK
  <2> QED  BY <2>1, <2>2
<1>5. Active(t)
  BY <1>0, <1>1, <1>4 DEF Rows, TaskRows, SameTask, Going, Active
<1> QED  BY <1>1, <1>2, <1>3, <1>4, <1>5, ReadyParts DEF SameInput

\* execution.drained leaves a pending wake for a result that counts
LEMMA DrainWakes ==
    ASSUME TypeOK, NEW e \in Executions, Drain(e), Reported(exec'[e]), Active(TaskOf[e]),
           exec[e].req = task[TaskOf[e]].req, exec[e].ctl = task[TaskOf[e]].ctl
    PROVE  \E w \in wake' : Names(w, e) /\ w.state = "pending"
<1> DEFINE t == TaskOf[e]
           s == IF exec[e].cancelReq /\ exec[e].status \notin terminalExecutions THEN "cancelled"
                ELSE IF exec[e].status = "running" /\ exec[e].result = "none" THEN "queued"
                ELSE exec[e].status
           row == [exec[e] EXCEPT !.drained = TRUE, !.recovering = FALSE, !.status = s]
           ex == [exec EXCEPT ![e] = row]
<1>0. exec[e] \in ExecRow /\ exec \in [Executions -> ExecRow]
  BY DEF TypeOK
<1>1. s \in ExecStatus
  BY <1>0, ExecRowFields DEF ExecStatus
<1>2. Commit(ex, op, {e}, {})
  BY DEF Drain
<1> HIDE DEF s
<1>3. /\ row \in ExecRow /\ row.result = exec[e].result /\ row.current = exec[e].current
      /\ row.cancelReq = exec[e].cancelReq
  BY <1>0, <1>1 DEF ExecRow, ExecStatus
<1> HIDE DEF row
<1>4. ex \in [Executions -> ExecRow] /\ ex[e] = row
  BY <1>0, <1>3
<1> HIDE DEF ex
<1>5. exec[e].result # "none" /\ exec[e].current /\ ~exec[e].cancelReq
  BY <1>2, <1>3, <1>4, CommitAlike DEF Alike, Reported
<1>6. CASE ResultWakePending(e)
  <2> DEFINE w == Wake(t, "result", e, exec[e].input)
  <2>1. w \in wake'
    BY <1>6 DEF ResultWakePending, Drain
  <2>2. Names(w, e) /\ w.state = "pending"
    BY DEF Names, Wake
  <2> QED  BY <2>1, <2>2
<1>7. CASE ~ResultWakePending(e)
  <2> DEFINE w == Wake(t, "drained", e, exec[e].input)
  <2>1. w \in wake'
    BY <1>5, <1>7 DEF Drain
  <2>2. Names(w, e) /\ w.state = "pending"
    BY DEF Names, Wake
  <2> QED  BY <2>1, <2>2
<1> QED  BY <1>6, <1>7

LEMMA ResultWokenStep ==
    ASSUME TypeOK, TypeOK', RevInv, Rows, ResultWoken, [Next]_vars PROVE ResultWoken'
<1> USE ConstantsAssumption
<1> SUFFICES ASSUME NEW e \in Executions, ResultReady(e)'
             PROVE  /\ seen'[e] # "judged" => \E w \in wake' : Names(w, e)'
                    /\ seen'[e] = "no" /\ TurnOpen(TaskOf[e])' =>
                         \E w \in wake' : Names(w, e)' /\ w.state = "pending"
  BY DEF ResultWoken
<1> DEFINE t == TaskOf[e]
<1>0. /\ t \in Tasks /\ seen[e] \in {"no", "shown", "judged"}
      /\ owner \in [Tasks -> TurnRow] /\ seen \in [Executions -> {"no", "shown", "judged"}]
  BY DEF TypeOK
<1>1. ~Redirected(e) /\ \A w : Names(w, e)' <=> Names(w, e)
  BY ReadyBefore DEF Names
<1>2. CASE Drain(e) /\ ~ResultReady(e)
  <2>1. \E w \in wake' : Names(w, e) /\ w.state = "pending"
    BY <1>2, ReadyBefore, ReadyParts, DrainWakes DEF ResultReady, Reported, executionCurrent
  <2> QED  BY <1>1, <2>1
<1>3. CASE ResultReady(e)
  <2>0. /\ seen[e] # "judged" => \E w \in wake : Names(w, e)
        /\ seen[e] = "no" /\ TurnOpen(t) => \E w \in wake : Names(w, e) /\ w.state = "pending"
    BY <1>3 DEF ResultWoken
  <2>1. CASE TurnStays(e)
    BY <1>1, <2>0, <2>1 DEF TurnStays, Names
  <2>2. CASE TaskClaim(t)
    <3>1. seen'[e] # "no" /\ (seen'[e] = "judged" <=> seen[e] = "judged")
      BY <1>0, <1>3, <2>2 DEF TaskClaim, ResultReady
    <3>2. ASSUME NEW w \in wake, Names(w, e) PROVE \E v \in wake' : Names(v, e)
      <4> DEFINE v == [w EXCEPT !.state = "claimed", !.lease = task[t].lease + 1]
      <4>1. w \in WakeRow
        BY DEF TypeOK
      <4>2. Names(v, e)
        BY <3>2, <4>1 DEF Names, WakeRow
      <4>3. v \in wake'
        BY <2>2, <3>2 DEF TaskClaim, WakesOf, Names
      <4> QED  BY <4>2, <4>3
    <3> QED  BY <1>1, <2>0, <3>1, <3>2
  <2>3. CASE WakeAck(t)
    <3>1. ~TurnOpen(t)'
      BY <1>0, <2>3 DEF WakeAck, TurnOpen, TurnRow
    <3>2. ASSUME seen'[e] # "judged" PROVE \E w \in wake' : Names(w, e)
      <4>1. seen[e] = "no" /\ TurnOpen(t)
        BY <1>0, <2>3, <3>2 DEF WakeAck, Seen, TurnOpen
      <4> QED  BY <2>0, <2>3, <4>1 DEF WakeAck
    <3> QED  BY <1>1, <3>1, <3>2
  <2>4. CASE TaskDrained(t) \/ TaskDrainLost(t)
    <3>1. ~TurnOpen(t)' /\ wake' = wake /\ (seen'[e] # "judged" => seen[e] # "judged")
      BY <1>0, <2>4 DEF TaskDrained, TaskDrainLost, Seen, TurnOpen, NoTurn
    <3> QED  BY <1>1, <2>0, <3>1
  <2>5. CASE Crash
    <3>1. ~TurnOpen(t)' /\ wake' = wake /\ (seen'[e] # "judged" => seen[e] # "judged")
      BY <1>0, <2>5 DEF Crash, TurnOpen, NoTurn
    <3> QED  BY <1>1, <2>0, <3>1
  <2> QED  BY <1>1, <2>1, <2>2, <2>3, <2>4, <2>5, TurnRows DEF TurnMoves
<1> QED  BY <1>2, <1>3, ReadyBefore

\* No drained result is lost: whatever turn took it before the drain, failed, was
\* fenced by a revision or died with the host, a wake names the result until a turn
\* that began after the drain has submitted its decision.
THEOREM ResultsAreKept == Spec => []NoLostResult
<1>1. Init => ResultWoken
  BY DEF Init, ResultWoken, ResultReady, NewExec
<1>2. TypeOK /\ TypeOK' /\ LockInv /\ RevInv /\ ResultWoken /\ [Next]_vars => ResultWoken'
  BY RowsNext, ResultWokenStep
<1>3. ResultWoken => NoLostResult
  BY DEF ResultWoken, NoLostResult, Names, WakesOf
<1> QED  BY <1>1, <1>2, <1>3, TypeCorrect, LocksCorrect, RevisionsFence, PTL DEF Spec
=============================================================================
