-------------------------- MODULE TaskLedgerProofs --------------------------
(***************************************************************************)
(* Theorems about TaskLedger, for every number of tasks, executions,       *)
(* operations and keys and every value of the bounds.                      *)
(***************************************************************************)
EXTENDS TaskLedger, TLAPS

-----------------------------------------------------------------------------
(* Type correctness.                                                       *)

LEMMA NewRowsType ==
    NewTask \in TaskRow /\ NewExec \in ExecRow /\ NewOp \in OpRow
BY DEF NewTask, TaskRow, NewExec, ExecRow, NewOp, OpRow

LEMMA NoTurnType == ASSUME NEW phase \in {"none", "running", "submitted", "acked", "lost"}
                    PROVE  NoTurn(phase) \in TurnRow
BY DEF NoTurn, TurnRow

\* a wake put by a command of task t is a wake row
LEMMA WakeType ==
    ASSUME NEW t \in Tasks, NEW k \in {"note", "result", "drained"},
           NEW r \in Tasks \cup Executions, NEW i \in Nat
    PROVE  Wake(t, k, r, i) \in WakeRow
BY DEF Wake, WakeRow

LEMMA NoteType == ASSUME NEW t \in Tasks PROVE Note(t) \in WakeRow
BY WakeType DEF Note

\* releaseExecution writes well-typed rows when it is given well-typed rows
LEMMA CommitType ==
    ASSUME TypeOK, NEW ex \in [Executions -> ExecRow], NEW ops \in [Operations -> OpRow],
           NEW E, NEW O, Commit(ex, ops, E, O)
    PROVE  /\ exec' \in [Executions -> ExecRow]
           /\ op' \in [Operations -> OpRow]
           /\ lock' \in [Keys -> Holders \cup {Nobody}]
<1>1. ASSUME NEW row \in ExecRow PROVE [row EXCEPT !.leased = FALSE] \in ExecRow
  BY DEF ExecRow
<1>2. exec' \in [Executions -> ExecRow]
  <2>1. \A e \in Executions : [ex[e] EXCEPT !.leased = FALSE] \in ExecRow
    BY <1>1
  <2> QED  BY <2>1 DEF Commit
<1>3. lock' \in [Keys -> Holders \cup {Nobody}]
  BY DEF Commit, Release, TypeOK
<1> QED  BY <1>2, <1>3 DEF Commit

LEMMA SettledType ==
    ASSUME TypeOK, NEW o \in Operations, NEW row \in OpRow, Settled(o, row)
    PROVE  /\ exec' \in [Executions -> ExecRow]
           /\ op' \in [Operations -> OpRow]
           /\ lock' \in [Keys -> Holders \cup {Nobody}]
<1>1. [op EXCEPT ![o] = row] \in [Operations -> OpRow]
  BY DEF TypeOK
<1> QED  BY <1>1, CommitType DEF Settled, TypeOK

LEMMA SupersedeType ==
    ASSUME TypeOK, NEW t \in Tasks, NEW row \in TaskRow, Supersede(t, row)
    PROVE  TypeOK'
<1> DEFINE open == {e \in ExecsOf(t) : exec[e].status \notin terminalExecutions}
           ex == [e \in Executions |->
                    IF e \in open
                    THEN [exec[e] EXCEPT !.cancelReq = TRUE,
                                         !.status = IF exec[e].drained THEN "stale" ELSE @]
                    ELSE exec[e]]
           undispatched == {o \in Operations : TaskOf[ExecOf[o]] = t /\ op[o].state = "prepared"}
           ops == [o \in Operations |->
                    IF o \in undispatched THEN [op[o] EXCEPT !.state = "cancelled"] ELSE op[o]]
<1>1. ex \in [Executions -> ExecRow]
  <2>1. ASSUME NEW e \in Executions
        PROVE  [exec[e] EXCEPT !.cancelReq = TRUE,
                               !.status = IF exec[e].drained THEN "stale" ELSE @] \in ExecRow
    <3>1. exec[e] \in ExecRow
      BY DEF TypeOK
    <3>2. ASSUME NEW r \in ExecRow
          PROVE  /\ [r EXCEPT !.cancelReq = TRUE, !.status = "stale"] \in ExecRow
                 /\ [r EXCEPT !.cancelReq = TRUE, !.status = @] \in ExecRow
      BY DEF ExecRow
    <3> QED  BY <3>1, <3>2
  <2> QED  BY <2>1 DEF TypeOK
<1>2. ops \in [Operations -> OpRow]
  <2>1. ASSUME NEW o \in Operations PROVE [op[o] EXCEPT !.state = "cancelled"] \in OpRow
    BY DEF TypeOK, OpRow
  <2> QED  BY <2>1 DEF TypeOK
<1>3. Commit(ex, ops, {ExecOf[o] : o \in undispatched}, undispatched)
  BY DEF Supersede
<1>4. [row EXCEPT !.question = FALSE] \in TaskRow
  BY DEF TaskRow
<1>5. task' \in [Tasks -> TaskRow]
  BY <1>4 DEF Supersede, TypeOK
<1>6. wake' \subseteq WakeRow
  BY NoteType DEF Supersede, TypeOK
<1> HIDE DEF ex, ops, open, undispatched
<1> QED  BY <1>1, <1>2, <1>3, <1>5, <1>6, CommitType DEF Supersede, TypeOK

LEMMA TypeOKInit == Init => TypeOK
BY NewRowsType, NoTurnType DEF Init, TypeOK

LEMMA TaskRowFields ==
    ASSUME NEW r \in TaskRow
    PROVE  /\ r.req \in Nat /\ r.ctl \in Nat /\ r.ctx \in Nat /\ r.lease \in Nat
           /\ r.gate \subseteq Operations
           /\ r.status \in {"absent", "active", "completed", "cancelled"}
BY DEF TaskRow

LEMMA SuccType == ASSUME NEW n \in Nat PROVE n + 1 \in Nat
OBVIOUS

\* every update a command makes to a task row gives a task row
LEMMA TaskRowType ==
    ASSUME NEW r \in TaskRow, NEW n \in Nat, NEW q \in BOOLEAN
    PROVE  /\ [r EXCEPT !.status = "active", !.req = 1, !.ctl = 1] \in TaskRow
           /\ [r EXCEPT !.status = "completed"] \in TaskRow
           /\ [r EXCEPT !.archived = TRUE] \in TaskRow
           /\ [r EXCEPT !.recovering = TRUE] \in TaskRow
           /\ [r EXCEPT !.drained = TRUE, !.recovering = FALSE] \in TaskRow
           /\ [r EXCEPT !.req = n] \in TaskRow
           /\ [r EXCEPT !.ctx = n] \in TaskRow
           /\ [r EXCEPT !.lease = n, !.drained = FALSE, !.recovering = FALSE] \in TaskRow
           /\ [r EXCEPT !.question = q] \in TaskRow
BY DEF TaskRow

LEMMA TaskRowReopenType ==
    ASSUME NEW r \in TaskRow, NEW g \in SUBSET Operations, NEW n \in Nat, NEW m \in Nat
    PROVE  [r EXCEPT !.status = "active", !.control = "active", !.gate = g,
                     !.ctl = n, !.req = m] \in TaskRow
BY DEF TaskRow

LEMMA TaskRowControlType ==
    ASSUME NEW r \in TaskRow, NEW c \in {"active", "paused", "cancelled"},
           NEW s \in {"absent", "active", "completed", "cancelled"}, NEW n \in Nat
    PROVE  [r EXCEPT !.ctl = n, !.control = c, !.status = s] \in TaskRow
BY DEF TaskRow

LEMMA TurnRowType ==
    ASSUME NEW r \in TurnRow, NEW phase \in {"none", "running", "submitted", "acked", "lost"}
    PROVE  [r EXCEPT !.phase = phase] \in TurnRow
BY DEF TurnRow

LEMMA TypeOKTask == ASSUME TypeOK, NEW t \in Tasks, TaskStep(t) PROVE TypeOK'
<1>0. task[t] \in TaskRow /\ owner[t] \in TurnRow
  BY DEF TypeOK
<1>1. CASE TaskCreate(t)
  BY <1>0, <1>1, TaskRowType, NoteType DEF TaskCreate, TypeOK
<1>2. CASE TaskArchive(t)
  BY <1>0, <1>2, TaskRowType DEF TaskArchive, TypeOK
<1>3. CASE TaskRevise(t)
  <2>1. task[t].req + 1 \in Nat
    BY <1>0, TaskRowFields, SuccType
  <2>2. [task[t] EXCEPT !.req = @ + 1] \in TaskRow
    BY <1>0, <2>1, TaskRowType
  <2> QED  BY <1>3, <2>2, SupersedeType DEF TaskRevise
<1>4. CASE TaskReopen(t)
  <2> DEFINE unresolved == {o \in Operations : TaskOf[ExecOf[o]] = t /\ operationBlocksRecovery(o)}
             reopened(gate) == [task[t] EXCEPT !.status = "active", !.control = "active", !.gate = gate,
                                               !.ctl = @ + 1, !.req = @ + 1]
  <2>1. \A gate \in SUBSET Operations : reopened(gate) \in TaskRow
    BY <1>0, TaskRowFields, SuccType, TaskRowReopenType
  <2>2. unresolved \in SUBSET Operations /\ task[t].gate \in SUBSET Operations
    BY <1>0, TaskRowFields
  <2>3. Supersede(t, reopened(unresolved)) \/ Supersede(t, reopened(task[t].gate))
    BY <1>4 DEF TaskReopen
  <2> HIDE DEF unresolved, reopened
  <2> QED  BY <2>1, <2>2, <2>3, SupersedeType
<1>5. CASE TaskSupplement(t)
  <2>1. \A e \in Executions : [exec[e] EXCEPT !.unread = @ \cup {"owner"}] \in ExecRow
    <3>1. ASSUME NEW r \in ExecRow PROVE [r EXCEPT !.unread = @ \cup {"owner"}] \in ExecRow
      BY DEF ExecRow
    <3> QED  BY <3>1 DEF TypeOK
  <2>2. [task[t] EXCEPT !.ctx = @ + 1] \in TaskRow
    <3>1. task[t].ctx + 1 \in Nat
      BY <1>0, TaskRowFields, SuccType
    <3> QED  BY <1>0, <3>1, TaskRowType
  <2> QED  BY <1>5, <2>1, <2>2, NoteType DEF TaskSupplement, TypeOK
<1>6. CASE TaskClaim(t)
  <2>1. [phase |-> "running", req |-> task[t].req, ctl |-> task[t].ctl, ctx |-> task[t].ctx] \in TurnRow
    BY <1>0, TaskRowFields DEF TurnRow
  <2>2. \A w \in WakesOf(t) : [w EXCEPT !.state = "claimed", !.lease = task[t].lease + 1] \in WakeRow
    <3>1. ASSUME NEW w \in WakeRow, NEW n \in Nat
          PROVE  [w EXCEPT !.state = "claimed", !.lease = n] \in WakeRow
      BY DEF WakeRow
    <3>2. task[t].lease + 1 \in Nat
      BY <1>0, TaskRowFields, SuccType
    <3> QED  BY <3>1, <3>2 DEF WakesOf, TypeOK
  <2>3. task' \in [Tasks -> TaskRow]
    <3>1. [task[t] EXCEPT !.lease = @ + 1, !.drained = FALSE, !.recovering = FALSE] \in TaskRow
      BY <1>0, TaskRowFields, SuccType, TaskRowType
    <3>2. task' = [task EXCEPT ![t] = [task[t] EXCEPT !.lease = @ + 1, !.drained = FALSE, !.recovering = FALSE]]
      BY <1>6 DEF TaskClaim
    <3>3. task \in [Tasks -> TaskRow]
      BY DEF TypeOK
    <3> QED  BY <3>1, <3>2, <3>3
  <2>5. owner' \in [Tasks -> TurnRow]
    BY <1>6, <2>1 DEF TaskClaim, TypeOK
  <2>4. wake' \subseteq WakeRow
    BY <1>6, <2>2 DEF TaskClaim, TypeOK
  <2> QED  BY <1>6, <2>3, <2>4, <2>5 DEF TaskClaim, TypeOK
<1>7. CASE TaskComplete(t)
  BY <1>0, <1>7, TaskRowType, TurnRowType DEF TaskComplete, TypeOK
<1>8. CASE WakeAck(t)
  BY <1>0, <1>8, TurnRowType DEF WakeAck, Seen, TypeOK
<1>9. CASE TaskDrained(t)
  BY <1>0, <1>9, TaskRowType, NoTurnType DEF TaskDrained, Seen, TypeOK
<1>10. CASE TaskDrainLost(t)
  BY <1>10, NoTurnType DEF TaskDrainLost, Seen, TypeOK
<1>11. CASE RecoverTask(t)
  BY <1>0, <1>11, TaskRowType DEF RecoverTask, TypeOK
<1>12. CASE HumanRespond(t)
  BY <1>0, <1>12, TaskRowType, NoteType DEF HumanRespond, TypeOK
<1>13. CASE \E c \in Controls : TaskControl(t, c)
  <2>1. PICK c \in Controls : TaskControl(t, c)
    BY <1>13
  <2> DEFINE row == [task[t] EXCEPT !.ctl = @ + 1, !.control = c,
                                    !.status = IF c = "cancelled" THEN "cancelled" ELSE @]
  <2>2. row \in TaskRow
    <3>1. task[t].ctl + 1 \in Nat /\ c \in {"active", "paused", "cancelled"}
      BY <1>0, TaskRowFields, SuccType, ConstantsAssumption
    <3>2. (IF c = "cancelled" THEN "cancelled" ELSE task[t].status)
            \in {"absent", "active", "completed", "cancelled"}
      BY <1>0, TaskRowFields
    <3>3. \A s \in {"absent", "active", "completed", "cancelled"} :
             [task[t] EXCEPT !.ctl = task[t].ctl + 1, !.control = c, !.status = s] \in TaskRow
      BY <1>0, <3>1, TaskRowControlType
    <3> QED  BY <3>2, <3>3
  <2>3. Supersede(t, row)
    BY <2>1 DEF TaskControl
  <2> HIDE DEF row
  <2> QED  BY <2>2, <2>3, SupersedeType
<1>14. CASE \E ask \in BOOLEAN : TaskWait(t, ask)
  <2>1. PICK ask \in BOOLEAN : TaskWait(t, ask)
    BY <1>14
  <2>2. [task[t] EXCEPT !.question = @ \/ ask] \in TaskRow
    <3>1. task[t].question \/ ask \in BOOLEAN
      BY Zenon
    <3> QED  BY <1>0, <3>1, TaskRowType, Zenon
  <2>3. task' \in [Tasks -> TaskRow] /\ owner' \in [Tasks -> TurnRow]
    BY <1>0, <2>1, <2>2, TurnRowType, Zenon DEF TaskWait, TypeOK
  <2> QED  BY <2>1, <2>3 DEF TaskWait, TypeOK
<1> QED
  BY <1>1, <1>2, <1>3, <1>4, <1>5, <1>6, <1>7, <1>8, <1>9, <1>10, <1>11, <1>12, <1>13, <1>14
  DEF TaskStep

ExecStatus == {"absent", "queued", "running", "succeeded", "failed", "cancelled", "stale"}

LEMMA ExecRowFields ==
    ASSUME NEW r \in ExecRow
    PROVE  /\ r.req \in Nat /\ r.ctl \in Nat /\ r.input \in Nat /\ r.lease \in Nat
           /\ r.drained \in BOOLEAN /\ r.leased \in BOOLEAN
           /\ r.keys \subseteq Keys
           /\ r.unread \subseteq {"owner", "peer"}
           /\ r.status \in ExecStatus
BY DEF ExecRow, ExecStatus

LEMMA ExecRowDispatchType ==
    ASSUME NEW r \in ExecRow, NEW ks \in SUBSET Keys, NEW rb \in Operations \cup {Nobody},
           NEW n \in Nat, NEW m \in Nat
    PROVE  [r EXCEPT !.status = "queued", !.input = 1, !.keys = ks,
                     !.readback = rb, !.req = n, !.ctl = m] \in ExecRow
BY DEF ExecRow

LEMMA ExecRowContinueType ==
    ASSUME NEW r \in ExecRow, NEW ks \in SUBSET Keys, NEW rb \in Operations \cup {Nobody},
           NEW n \in Nat, NEW m \in Nat, NEW i \in Nat, NEW U \in SUBSET {"owner", "peer"}
    PROVE  [r EXCEPT !.status = "queued", !.input = i, !.result = "none", !.current = FALSE,
                     !.keys = ks, !.readback = rb, !.cancelReq = FALSE,
                     !.req = n, !.ctl = m, !.unread = U] \in ExecRow
BY DEF ExecRow

LEMMA ExecRowClaimType ==
    ASSUME NEW r \in ExecRow, NEW n \in Nat, NEW b \in BOOLEAN
    PROVE  [r EXCEPT !.status = "running", !.lease = n, !.drained = FALSE,
                     !.recovering = FALSE, !.leased = b] \in ExecRow
BY DEF ExecRow

LEMMA ExecRowResultType ==
    ASSUME NEW r \in ExecRow, NEW v \in {"output", "error"}, NEW b \in BOOLEAN, NEW s \in ExecStatus
    PROVE  [r EXCEPT !.result = v, !.current = b, !.status = s] \in ExecRow
BY DEF ExecRow, ExecStatus

LEMMA ExecRowType ==
    ASSUME NEW r \in ExecRow, NEW s \in ExecStatus
    PROVE  /\ [r EXCEPT !.recovering = TRUE] \in ExecRow
           /\ [r EXCEPT !.cancelReq = TRUE, !.status = s] \in ExecRow
           /\ [r EXCEPT !.drained = TRUE, !.recovering = FALSE, !.status = s] \in ExecRow
BY DEF ExecRow, ExecStatus

LEMMA ExecRowUnreadType ==
    ASSUME NEW r \in ExecRow, NEW U \in SUBSET {"owner", "peer"}
    PROVE  [r EXCEPT !.unread = U] \in ExecRow
BY DEF ExecRow

LEMMA DrainType == ASSUME TypeOK, NEW e \in Executions, Drain(e) PROVE TypeOK'
<1> DEFINE status == IF exec[e].cancelReq /\ exec[e].status \notin terminalExecutions THEN "cancelled"
                     ELSE IF exec[e].status = "running" /\ exec[e].result = "none" THEN "queued"
                     ELSE exec[e].status
           row == [exec[e] EXCEPT !.drained = TRUE, !.recovering = FALSE, !.status = status]
<1>1. exec[e] \in ExecRow
  BY DEF TypeOK
<1>2. status \in ExecStatus
  BY <1>1, ExecRowFields DEF ExecStatus
<1> HIDE DEF status
<1>3. row \in ExecRow
  BY <1>1, <1>2, ExecRowType
<1> USE DEF status
<1>4. Commit([exec EXCEPT ![e] = row], op, {e}, {}) /\ UNCHANGED <<task, owner, acting, seen, crashes>>
  BY DEF Drain
<1>5. wake' \subseteq wake \cup {Wake(TaskOf[e], "drained", e, exec[e].input)}
  BY DEF Drain
<1>6. run' = [run EXCEPT ![e] = "none"]
  BY DEF Drain
<1> HIDE DEF row, status
<1>7. [exec EXCEPT ![e] = row] \in [Executions -> ExecRow] /\ op \in [Operations -> OpRow]
  BY <1>3 DEF TypeOK
<1>8. Wake(TaskOf[e], "drained", e, exec[e].input) \in WakeRow
  BY <1>1, ExecRowFields, WakeType, ConstantsAssumption
<1> QED  BY <1>4, <1>5, <1>6, <1>7, <1>8, CommitType DEF TypeOK

LEMMA TypeOKExecution == ASSUME TypeOK, NEW e \in Executions, ExecutionStep(e) PROVE TypeOK'
<1> DEFINE t == TaskOf[e]
<1>0. exec[e] \in ExecRow /\ task[t] \in TaskRow /\ t \in Tasks
  BY ConstantsAssumption DEF TypeOK
<1>1. ASSUME NEW ks \in KeySets[e], NEW rb \in Operations \cup {Nobody}, ExecutionDispatch(e, ks, rb)
      PROVE  TypeOK'
  <2>1. ks \in SUBSET Keys
    BY ConstantsAssumption DEF Holders
  <2>2. [NewExec EXCEPT !.status = "queued", !.input = 1, !.keys = ks,
                        !.readback = rb, !.req = task[t].req, !.ctl = task[t].ctl] \in ExecRow
    BY <1>0, <2>1, NewRowsType, TaskRowFields, ExecRowDispatchType
  <2> QED  BY <1>1, <2>2 DEF ExecutionDispatch, TypeOK
<1>2. ASSUME NEW ks \in KeySets[e], NEW rb \in Operations \cup {Nobody}, ExecutionContinue(e, ks, rb)
      PROVE  TypeOK'
  <2> DEFINE same == exec[e].req = task[t].req /\ exec[e].ctl = task[t].ctl
             U == IF same THEN exec[e].unread \ {"peer"} ELSE {}
  <2>1. ks \in SUBSET Keys
    BY ConstantsAssumption DEF Holders
  <2>2. exec[e].input + 1 \in Nat /\ task[t].req \in Nat /\ task[t].ctl \in Nat
    BY <1>0, ExecRowFields, TaskRowFields, SuccType
  <2>3. U \in SUBSET {"owner", "peer"}
    BY <1>0, ExecRowFields
  <2>4. exec' = [exec EXCEPT ![e] = [exec[e] EXCEPT !.status = "queued", !.input = @ + 1, !.result = "none",
                     !.current = FALSE, !.keys = ks, !.readback = rb, !.cancelReq = FALSE,
                     !.req = task[t].req, !.ctl = task[t].ctl, !.unread = U]]
    BY <1>2 DEF ExecutionContinue
  <2> HIDE DEF U, same
  <2>5. [exec[e] EXCEPT !.status = "queued", !.input = exec[e].input + 1, !.result = "none",
                     !.current = FALSE, !.keys = ks, !.readback = rb, !.cancelReq = FALSE,
                     !.req = task[t].req, !.ctl = task[t].ctl, !.unread = U] \in ExecRow
    BY <1>0, <2>1, <2>2, <2>3, ExecRowContinueType
  <2> QED  BY <1>2, <2>4, <2>5 DEF ExecutionContinue, TypeOK
<1>3. CASE ExecutionClaim(e)
  <2> DEFINE b == exec[e].leased \/ exec[e].keys # {}
  <2>1. exec[e].lease + 1 \in Nat
    BY <1>0, ExecRowFields, SuccType
  <2>2. b \in BOOLEAN
    BY Zenon
  <2>3. exec' = [exec EXCEPT ![e] = [exec[e] EXCEPT !.status = "running", !.lease = @ + 1,
                                       !.drained = FALSE, !.recovering = FALSE, !.leased = b]]
    BY <1>3, Zenon DEF ExecutionClaim
  <2> HIDE DEF b
  <2>4. [exec[e] EXCEPT !.status = "running", !.lease = exec[e].lease + 1,
                        !.drained = FALSE, !.recovering = FALSE, !.leased = b] \in ExecRow
    BY <1>0, <2>1, <2>2, ExecRowClaimType
  <2>5. lock' \in [Keys -> Holders \cup {Nobody}]
    BY <1>3 DEF ExecutionClaim, LockAll, Holders, TypeOK
  <2> QED  BY <1>3, <2>3, <2>4, <2>5 DEF ExecutionClaim, TypeOK
<1>4. CASE ExecutionCancel(e)
  <2> DEFINE s == IF exec[e].drained THEN "cancelled" ELSE exec[e].status
             ex == [exec EXCEPT ![e] = [exec[e] EXCEPT !.cancelReq = TRUE, !.status = s]]
  <2>1. s \in ExecStatus
    BY <1>0, ExecRowFields DEF ExecStatus
  <2>2. Commit(ex, op, {e}, {}) /\ UNCHANGED <<task, owner, run, acting, wake, seen, crashes>>
    BY <1>4 DEF ExecutionCancel
  <2> HIDE DEF s
  <2>3. ex \in [Executions -> ExecRow] /\ op \in [Operations -> OpRow]
    BY <1>0, <2>1, ExecRowType DEF TypeOK
  <2> HIDE DEF ex
  <2> QED  BY <2>2, <2>3, CommitType DEF TypeOK
<1>5. CASE NativeEnd(e) \/ SubmissionRaced(e) \/ OrphanGone(e)
  BY <1>5 DEF NativeEnd, SubmissionRaced, OrphanGone, TypeOK
<1>6. CASE ExecutionDrainFailed(e)
  <2>1. [exec[e] EXCEPT !.recovering = TRUE] \in ExecRow
    BY <1>0, ExecRowType DEF ExecStatus
  <2> QED  BY <1>6, <2>1 DEF ExecutionDrainFailed, TypeOK
<1>7. CASE ExecutionDrained(e) \/ RecoverDrained(e)
  BY <1>7, DrainType DEF ExecutionDrained, RecoverDrained
<1>8. ASSUME NEW r \in {"output", "error"}, ExecutionResult(e, r) PROVE TypeOK'
  <2> DEFINE current == executionCurrent(e)
             s == IF ~current THEN "stale" ELSE IF r = "error" THEN "failed" ELSE "succeeded"
             ex == [exec EXCEPT ![e] = [exec[e] EXCEPT !.result = r, !.current = current, !.status = s]]
  <2>1. current \in BOOLEAN
    BY Zenon DEF executionCurrent
  <2>2. s \in ExecStatus
    BY DEF ExecStatus
  <2>3. /\ Commit(ex, op, {e}, {}) /\ UNCHANGED <<task, owner, run, acting, seen, crashes>>
        /\ wake' = wake \cup {Wake(t, "result", e, exec[e].input)}
    BY <1>8 DEF ExecutionResult
  <2> HIDE DEF s, current
  <2>4. ex \in [Executions -> ExecRow] /\ op \in [Operations -> OpRow]
    BY <1>0, <2>1, <2>2, ExecRowResultType DEF TypeOK
  <2>5. Wake(t, "result", e, exec[e].input) \in WakeRow
    BY <1>0, ExecRowFields, WakeType
  <2> HIDE DEF ex
  <2> QED  BY <2>3, <2>4, <2>5, CommitType DEF TypeOK
<1>9. ASSUME NEW kind \in FeedbackKinds, Feedback(e, kind) \/ FeedbackConsumed(e, kind) PROVE TypeOK'
  <2>1. \A U \in SUBSET {"owner", "peer"} : [exec[e] EXCEPT !.unread = U] \in ExecRow
    BY <1>0, ExecRowUnreadType
  <2>2. exec[e].unread \cup {kind} \in SUBSET {"owner", "peer"} /\ exec[e].unread \ {kind} \in SUBSET {"owner", "peer"}
    BY <1>0, ExecRowFields, ConstantsAssumption
  <2>3. PICK U \in SUBSET {"owner", "peer"} : exec' = [exec EXCEPT ![e].unread = U]
    <3>1. \/ exec' = [exec EXCEPT ![e].unread = exec[e].unread \cup {kind}]
          \/ exec' = [exec EXCEPT ![e].unread = exec[e].unread \ {kind}]
      BY <1>9 DEF Feedback, FeedbackConsumed, TypeOK
    <3> QED  BY <2>2, <3>1
  <2>4. exec' \in [Executions -> ExecRow]
    BY <2>1, <2>3 DEF TypeOK
  <2>5. UNCHANGED <<task, owner, run, op, acting, lock, wake, seen, crashes>>
    BY <1>9 DEF Feedback, FeedbackConsumed
  <2> QED  BY <2>4, <2>5 DEF TypeOK
<1> QED
  BY <1>1, <1>2, <1>3, <1>4, <1>5, <1>6, <1>7, <1>8, <1>9 DEF ExecutionStep

OpState == {"absent", "prepared", "starting", "unknown", "succeeded", "failed", "cancelled"}

LEMMA OpRowFields ==
    ASSUME NEW r \in OpRow
    PROVE  /\ r.keys \subseteq Keys /\ r.held \in BOOLEAN /\ r.isolated \in BOOLEAN
           /\ r.state \in OpState
BY DEF OpRow, OpState

LEMMA OpRowPrepareType ==
    ASSUME NEW r \in OpRow, NEW ks \in SUBSET Keys, NEW b \in BOOLEAN,
           NEW n \in Nat, NEW m \in Nat, NEW l \in Nat
    PROVE  [r EXCEPT !.state = "prepared", !.keys = ks, !.held = b,
                     !.req = n, !.ctl = m, !.lease = l] \in OpRow
BY DEF OpRow

LEMMA OpRowType ==
    ASSUME NEW r \in OpRow, NEW s \in OpState
    PROVE  /\ [r EXCEPT !.state = s] \in OpRow
           /\ [r EXCEPT !.state = "unknown", !.restart = TRUE] \in OpRow
           /\ [r EXCEPT !.refused = TRUE] \in OpRow
           /\ [r EXCEPT !.isolated = TRUE] \in OpRow
BY DEF OpRow, OpState

LEMMA TypeOKOperation == ASSUME TypeOK, NEW o \in Operations, OperationStep(o) PROVE TypeOK'
<1> DEFINE e == ExecOf[o]
           t == TaskOf[e]
<1>0. /\ op[o] \in OpRow /\ e \in Executions /\ t \in Tasks
      /\ exec[e] \in ExecRow /\ task[t] \in TaskRow
  BY ConstantsAssumption DEF TypeOK
<1> HIDE DEF e, t
<1>1. ASSUME NEW ks \in KeySets[o], OperationPrepare(o, ks) PROVE TypeOK'
  <2> DEFINE b == exec[e].keys # {}
  <2>1. ks \in SUBSET Keys
    BY ConstantsAssumption DEF Holders
  <2>2. task[t].req \in Nat /\ task[t].ctl \in Nat /\ exec[e].lease \in Nat
    BY <1>0, TaskRowFields, ExecRowFields
  <2>3. op' = [op EXCEPT ![o] = [NewOp EXCEPT !.state = "prepared", !.keys = ks, !.held = b,
                                    !.req = task[t].req, !.ctl = task[t].ctl, !.lease = exec[e].lease]]
    BY <1>1 DEF OperationPrepare, e, t
  <2>4. b \in BOOLEAN
    OBVIOUS
  <2> HIDE DEF b
  <2>5. [NewOp EXCEPT !.state = "prepared", !.keys = ks, !.held = b,
                      !.req = task[t].req, !.ctl = task[t].ctl, !.lease = exec[e].lease] \in OpRow
    BY <2>1, <2>2, <2>4, NewRowsType, OpRowPrepareType
  <2> QED  BY <1>1, <2>3, <2>5 DEF OperationPrepare, TypeOK
<1>2. CASE OperationStart(o)
  <2>1. [op[o] EXCEPT !.state = "starting"] \in OpRow
    BY <1>0, OpRowType DEF OpState
  <2>2. lock' \in [Keys -> Holders \cup {Nobody}]
    BY <1>2 DEF OperationStart, LockAll, Holders, TypeOK
  <2> QED  BY <1>2, <2>1, <2>2 DEF OperationStart, TypeOK
<1>3. CASE OperationStartRefused(o)
  <2>1. [op[o] EXCEPT !.refused = TRUE] \in OpRow
    BY <1>0, OpRowType DEF OpState
  <2> QED  BY <1>3, <2>1 DEF OperationStartRefused, TypeOK
<1>4. CASE EffectEnd(o)
  BY <1>4 DEF EffectEnd, TypeOK
<1>5. ASSUME NEW s \in {"succeeded", "failed", "unknown"}, OperationSettle(o, s) PROVE TypeOK'
  <2>1. [op[o] EXCEPT !.state = s] \in OpRow
    BY <1>0, OpRowType DEF OpState
  <2>2. Settled(o, [op[o] EXCEPT !.state = s]) /\ UNCHANGED <<task, owner, run, acting, seen, crashes>>
    BY <1>5 DEF OperationSettle
  <2>3. wake' \subseteq wake \cup {Note(t)}
    BY <1>5 DEF OperationSettle, t, e
  <2> QED  BY <1>0, <2>1, <2>2, <2>3, SettledType, NoteType DEF TypeOK
<1>6. ASSUME NEW s \in terminalOperations, OperationReconcile(o, s) PROVE TypeOK'
  <2>1. [op[o] EXCEPT !.state = s] \in OpRow
    BY <1>0, OpRowType DEF OpState, terminalOperations
  <2>2. /\ Settled(o, [op[o] EXCEPT !.state = s]) /\ UNCHANGED <<task, owner, run, acting, seen, crashes>>
        /\ wake' = wake \cup {Note(t)}
    BY <1>6 DEF OperationReconcile, t, e
  <2> QED  BY <1>0, <2>1, <2>2, SettledType, NoteType DEF TypeOK
<1>7. ASSUME NEW audit \in {"failed", "isolated"}, OperatorResolve(o, audit) PROVE TypeOK'
  <2>1. [op[o] EXCEPT !.state = "failed"] \in OpRow /\ [op[o] EXCEPT !.isolated = TRUE] \in OpRow
    BY <1>0, OpRowType DEF OpState
  <2>2. /\ \/ Settled(o, [op[o] EXCEPT !.state = "failed"])
           \/ Settled(o, [op[o] EXCEPT !.isolated = TRUE])
        /\ task' = [task EXCEPT ![t].question = FALSE]
        /\ wake' = wake \cup {Note(t)}
        /\ UNCHANGED <<owner, run, acting, seen, crashes>>
    BY <1>7 DEF OperatorResolve, t, e
  <2>3. [task[t] EXCEPT !.question = FALSE] \in TaskRow
    BY <1>0, TaskRowType
  <2> QED  BY <1>0, <2>1, <2>2, <2>3, SettledType, NoteType DEF TypeOK
<1> QED
  BY <1>1, <1>2, <1>3, <1>4, <1>5, <1>6, <1>7 DEF OperationStep

LEMMA TypeOKCrash == ASSUME TypeOK, Crash PROVE TypeOK'
<1>1. \A o \in Operations : [op[o] EXCEPT !.state = "unknown", !.restart = TRUE] \in OpRow
  BY OpRowType DEF TypeOK, OpState
<1>2. \A e \in Executions : [exec[e] EXCEPT !.recovering = TRUE] \in ExecRow
  BY ExecRowType DEF TypeOK, ExecStatus
<1>3. \A t \in Tasks : [task[t] EXCEPT !.recovering = TRUE] \in TaskRow
  BY TaskRowType DEF TypeOK
<1>4. op' \in [Operations -> OpRow]
  BY <1>1 DEF Crash, TypeOK
<1>5. exec' \in [Executions -> ExecRow]
  BY <1>2 DEF Crash, TypeOK
<1>6. task' \in [Tasks -> TaskRow]
  BY <1>3 DEF Crash, TypeOK
<1>7. owner' \in [Tasks -> TurnRow]
  BY NoTurnType DEF Crash
<1>8. seen' \in [Executions -> {"no", "shown", "judged"}] /\ crashes' \in Nat
  BY SuccType DEF Crash, TypeOK
<1>9. run' \in [Executions -> {"none", "live", "ended", "raced", "orphan"}]
  BY DEF Crash
<1> QED  BY <1>4, <1>5, <1>6, <1>7, <1>8, <1>9 DEF Crash, TypeOK

\* Whatever the commands, sessions, effects and crashes, every row has a value
\* the store can hold.
THEOREM TypeCorrect == Spec => []TypeOK
<1>1. TypeOK /\ [Next]_vars => TypeOK'
  <2> SUFFICES ASSUME TypeOK, [Next]_vars PROVE TypeOK'
    OBVIOUS
  <2>1. CASE Next
    BY <2>1, TypeOKTask, TypeOKExecution, TypeOKOperation, TypeOKCrash DEF Next
  <2>2. CASE UNCHANGED vars
    BY <2>2 DEF vars, TypeOK
  <2> QED  BY <2>1, <2>2
<1> QED  BY <1>1, TypeOKInit, PTL DEF Spec

-----------------------------------------------------------------------------
(* Resource locks.  LockInv strengthens EffectsUnderLock and               *)
(* RestartAdmissible to an inductive invariant.                            *)

\* o guards keys of its own
Guarding(o) == ~op[o].held /\ op[o].state \in {"starting", "unknown"} /\ ~op[o].isolated

\* an execution holds exactly the keys of its lease
ExecLocks == \A e \in Executions, k \in Keys : lock[k] = e <=> exec[e].leased /\ k \in exec[e].keys

\* an execution whose keys are not leased guards nothing
LeaseGuards == \A e \in Executions : ~exec[e].leased /\ exec[e].keys # {} =>
    exec[e].drained /\ \A o \in Operations : ExecOf[o] = e => ~operationBlocksRecovery(o)

AbsentIsEmpty == \A e \in Executions : exec[e].status = "absent" =>
    ~exec[e].leased /\ \A o \in Operations : ExecOf[o] = e => op[o].state = "absent"

\* an operation holds exactly the keys it guards itself
OpLocks == \A o \in Operations, k \in Keys : lock[k] = o <=> Guarding(o) /\ k \in op[o].keys

\* an undecided operation that relies on its execution's lease is covered by it
Covered == \A o \in Operations : op[o].held /\ operationBlocksRecovery(o) =>
    exec[ExecOf[o]].keys # {} /\ op[o].keys \subseteq exec[ExecOf[o]].keys

IsolatedIsLate == \A o \in Operations :
    op[o].isolated => op[o].state \notin {"absent", "prepared", "starting"}

ActingIsUndecided == \A o \in acting : op[o].state \in {"starting", "unknown"} /\ ~op[o].isolated

LockInv == /\ ExecLocks /\ LeaseGuards /\ AbsentIsEmpty
           /\ OpLocks /\ Covered /\ IsolatedIsLate /\ ActingIsUndecided

LEMMA LockInvSuffices == TypeOK /\ LockInv => EffectsUnderLock /\ RestartAdmissible
<1> SUFFICES ASSUME TypeOK, LockInv PROVE EffectsUnderLock /\ RestartAdmissible
  OBVIOUS
<1> USE ConstantsAssumption
<1>0. \A e \in Executions : exec[e].keys \subseteq Keys
  BY ExecRowFields DEF TypeOK
<1>1. \A o \in Operations : op[o].keys \subseteq Keys /\ op[o].held \in BOOLEAN
  BY OpRowFields DEF TypeOK
<1>2. \A e \in Executions : heldKeys(e) = IF exec[e].leased THEN exec[e].keys ELSE {}
  BY <1>0 DEF heldKeys, LockInv, ExecLocks
<1>3. \A o \in Operations : heldKeys(o) = IF Guarding(o) THEN op[o].keys ELSE {}
  BY <1>1 DEF heldKeys, LockInv, OpLocks
<1>4. ASSUME NEW o \in Operations, op[o].held, operationBlocksRecovery(o)
      PROVE  exec[ExecOf[o]].leased
  BY <1>4 DEF LockInv, LeaseGuards, Covered
<1>5. EffectsUnderLock
  <2> SUFFICES ASSUME NEW o \in acting PROVE \A k \in Footprint(o) : lock[k] = Holder(o)
    BY DEF EffectsUnderLock
  <2>1. o \in Operations /\ op[o].state \in {"starting", "unknown"} /\ ~op[o].isolated
    BY DEF TypeOK, LockInv, ActingIsUndecided
  <2>2. operationBlocksRecovery(o)
    BY <2>1 DEF operationBlocksRecovery, BlocksIn, terminalOperations
  <2>3. CASE op[o].held
    BY <1>0, <1>4, <2>1, <2>2, <2>3 DEF LockInv, ExecLocks, Footprint, Holder
  <2>4. CASE ~op[o].held
    BY <1>1, <2>1, <2>4 DEF LockInv, OpLocks, Guarding, Footprint, Holder
  <2> QED  BY <2>3, <2>4
<1>6. RestartAdmissible
  <2>1. ASSUME NEW e \in Executions
        PROVE  IF exec[e].leased THEN heldKeys(e) = exec[e].keys
               ELSE /\ heldKeys(e) = {}
                    /\ exec[e].keys # {} => /\ exec[e].drained
                                            /\ \A o \in OpsOf(e) : ~operationBlocksRecovery(o)
    BY <1>2 DEF LockInv, LeaseGuards, OpsOf
  <2>2. ASSUME NEW o \in Operations,
               op[o].state \in {"starting", "unknown"}, operationBlocksRecovery(o)
        PROVE  IF op[o].held THEN op[o].keys \subseteq heldKeys(ExecOf[o])
               ELSE heldKeys(o) = op[o].keys
    <3>1. CASE op[o].held
      BY <1>2, <1>4, <2>2, <3>1 DEF LockInv, Covered
    <3>2. CASE ~op[o].held
      BY <1>3, <2>2, <3>2 DEF Guarding, operationBlocksRecovery, BlocksIn
    <3> QED  BY <3>1, <3>2
  <2> QED  BY <2>1, <2>2 DEF RestartAdmissible
<1> QED  BY <1>5, <1>6

LEMMA LockInvInit == Init => LockInv
BY ConstantsAssumption
DEF Init, LockInv, ExecLocks, LeaseGuards, AbsentIsEmpty, OpLocks, Covered, IsolatedIsLate,
    ActingIsUndecided, Guarding, operationBlocksRecovery, BlocksIn, NewExec, NewOp

\* commands that touch neither leases nor operations
LEMMA LockInvFrame ==
    ASSUME LockInv, UNCHANGED <<op, acting, lock>>,
           \A e \in Executions : /\ exec'[e].leased = exec[e].leased /\ exec'[e].keys = exec[e].keys
                                 /\ exec[e].drained => exec'[e].drained
                                 /\ exec'[e].status = "absent" => exec[e].status = "absent"
    PROVE  LockInv'
<1>1. \A o : operationBlocksRecovery(o)' = operationBlocksRecovery(o) /\ Guarding(o)' = Guarding(o)
  BY DEF operationBlocksRecovery, BlocksIn, Guarding
<1>2. ExecLocks'
  BY DEF LockInv, ExecLocks
<1>3. LeaseGuards'
  BY <1>1 DEF LockInv, LeaseGuards
<1>4. AbsentIsEmpty'
  BY DEF LockInv, AbsentIsEmpty
<1>5. OpLocks'
  BY <1>1 DEF LockInv, OpLocks
<1>6. Covered'
  BY <1>1, ConstantsAssumption DEF LockInv, Covered
<1>7. IsolatedIsLate' /\ ActingIsUndecided'
  BY DEF LockInv, IsolatedIsLate, ActingIsUndecided
<1> QED  BY <1>2, <1>3, <1>4, <1>5, <1>6, <1>7 DEF LockInv

\* releaseExecution and releaseOperation: a command that only settles operations,
\* and drains or ends executions, keeps what is still undecided locked
LEMMA CommitLockInv ==
    ASSUME TypeOK, LockInv,
           NEW ex \in [Executions -> ExecRow], NEW ops \in [Operations -> OpRow],
           NEW E, NEW O, Commit(ex, ops, E, O), E \subseteq Executions, O \subseteq Operations,
           acting' = acting,
           \A e \in Executions : /\ ex[e].leased = exec[e].leased /\ ex[e].keys = exec[e].keys
                                 /\ exec[e].drained => ex[e].drained
                                 /\ ex[e].status = "absent" => exec[e].status = "absent",
           \A o \in Operations \ O : ops[o] = op[o],
           \A o \in O : /\ ~BlocksIn(ops, o) /\ o \notin acting
                        /\ ops[o].keys = op[o].keys /\ ops[o].held = op[o].held
                        /\ op[o].state # "absent"
                        /\ ops[o].isolated =>
                             ops[o].state \notin {"absent", "prepared", "starting"}
    PROVE  LockInv'
<1> DEFINE R == Releasable(ex, ops, E)
<1> USE ConstantsAssumption
<1>0. /\ \A e \in Executions : exec'[e] = IF e \in R THEN [ex[e] EXCEPT !.leased = FALSE] ELSE ex[e]
      /\ op' = ops /\ \A k \in Keys : lock'[k] = IF lock[k] \in R \cup O THEN Nobody ELSE lock[k]
  BY DEF Commit, Release
<1>1. R \subseteq Executions /\ \A e \in R : /\ ex[e].leased /\ ex[e].drained
                                             /\ \A o \in Operations : ExecOf[o] = e => ~BlocksIn(ops, o)
  BY DEF Releasable
<1> HIDE DEF R
<1>2. \A e \in Executions : ex[e] \in ExecRow
  OBVIOUS
<1>3. \A e \in Executions :
        /\ exec'[e].keys = exec[e].keys /\ exec'[e].drained = ex[e].drained
        /\ exec'[e].status = ex[e].status
        /\ exec'[e].leased <=> exec[e].leased /\ e \notin R
  <2> SUFFICES ASSUME NEW e \in Executions
               PROVE  /\ exec'[e].keys = exec[e].keys /\ exec'[e].drained = ex[e].drained
                      /\ exec'[e].status = ex[e].status
                      /\ exec'[e].leased <=> exec[e].leased /\ e \notin R
    OBVIOUS
  <2>1. CASE e \in R
    <3>1. exec'[e] = [ex[e] EXCEPT !.leased = FALSE] /\ ex[e] \in ExecRow
      BY <1>0, <1>2, <2>1
    <3>2. ASSUME NEW r \in ExecRow, NEW s, s = [r EXCEPT !.leased = FALSE]
          PROVE  /\ s.keys = r.keys /\ s.drained = r.drained /\ s.status = r.status /\ s.leased = FALSE
      BY <3>2 DEF ExecRow
    <3> QED  BY <2>1, <3>1, <3>2
  <2>2. CASE e \notin R
    <3>1. exec'[e] = ex[e] /\ ex[e].leased \in BOOLEAN
      BY <1>0, <1>2, <2>2, ExecRowFields
    <3> QED  BY <2>2, <3>1
  <2> QED  BY <2>1, <2>2
<1>4. \A o \in Operations :
        /\ operationBlocksRecovery(o)' <=> BlocksIn(ops, o)
        /\ BlocksIn(ops, o) => operationBlocksRecovery(o) /\ ops[o] = op[o] /\ o \notin O
        /\ Guarding(o)' <=> Guarding(o) /\ o \notin O
        /\ ops[o].keys = op[o].keys /\ ops[o].held = op[o].held
  BY <1>0 DEF operationBlocksRecovery, BlocksIn, Guarding, terminalOperations
<1>5. ExecLocks'
  BY <1>0, <1>1, <1>3 DEF LockInv, ExecLocks
<1>6. LeaseGuards'
  BY <1>1, <1>3, <1>4 DEF LockInv, LeaseGuards
<1>7. AbsentIsEmpty'
  BY <1>0, <1>3 DEF LockInv, AbsentIsEmpty
<1>8. OpLocks'
  BY <1>0, <1>1, <1>4 DEF LockInv, OpLocks
<1>9. Covered'
  BY <1>0, <1>3, <1>4 DEF LockInv, Covered
<1>10. IsolatedIsLate' /\ ActingIsUndecided'
  BY <1>0 DEF LockInv, IsolatedIsLate, ActingIsUndecided, TypeOK
<1> QED  BY <1>5, <1>6, <1>7, <1>8, <1>9, <1>10 DEF LockInv

LEMMA SupersedeLockInv ==
    ASSUME TypeOK, LockInv, NEW t \in Tasks, NEW row, Supersede(t, row)
    PROVE  LockInv'
<1> DEFINE open == {e \in ExecsOf(t) : exec[e].status \notin terminalExecutions}
           ex == [e \in Executions |->
                    IF e \in open
                    THEN [exec[e] EXCEPT !.cancelReq = TRUE,
                                         !.status = IF exec[e].drained THEN "stale" ELSE @]
                    ELSE exec[e]]
           undispatched == {o \in Operations : TaskOf[ExecOf[o]] = t /\ op[o].state = "prepared"}
           ops == [o \in Operations |->
                    IF o \in undispatched THEN [op[o] EXCEPT !.state = "cancelled"] ELSE op[o]]
           E == {ExecOf[o] : o \in undispatched}
<1> USE ConstantsAssumption
<1>1. ASSUME NEW e \in Executions
      PROVE  /\ ex[e] \in ExecRow
             /\ ex[e].leased = exec[e].leased /\ ex[e].keys = exec[e].keys
             /\ exec[e].drained => ex[e].drained
             /\ ex[e].status = "absent" => exec[e].status = "absent"
  <2>1. exec[e] \in ExecRow
    BY DEF TypeOK
  <2>2. ASSUME NEW s \in ExecStatus, ex[e] = [exec[e] EXCEPT !.cancelReq = TRUE, !.status = s]
        PROVE  /\ ex[e] \in ExecRow /\ ex[e].leased = exec[e].leased /\ ex[e].keys = exec[e].keys
               /\ ex[e].drained = exec[e].drained /\ ex[e].status = s
    <3> HIDE DEF ex
    <3> QED  BY <2>1, <2>2, ZenonT(30) DEF ExecRow, ExecStatus
  <2>3. CASE e \in open /\ exec[e].drained
    <3>1. ex[e] = [exec[e] EXCEPT !.cancelReq = TRUE, !.status = "stale"]
      BY <2>3
    <3>2. "stale" \in ExecStatus
      BY DEF ExecStatus
    <3> QED  BY <2>1, <2>2, <3>1, <3>2
  <2>4. CASE e \in open /\ ~exec[e].drained
    <3>1. ex[e] = [exec[e] EXCEPT !.cancelReq = TRUE, !.status = exec[e].status]
      BY <2>4
    <3>2. exec[e].status \in ExecStatus
      BY <2>1, ExecRowFields
    <3> QED  BY <2>1, <2>2, <3>1, <3>2
  <2>5. CASE e \notin open
    BY <2>1, <2>5
  <2> QED  BY <2>3, <2>4, <2>5
<1>2. ASSUME NEW o \in Operations
      PROVE  /\ ops[o] \in OpRow
             /\ o \notin undispatched => ops[o] = op[o]
             /\ o \in undispatched => /\ op[o].state = "prepared" /\ ops[o].state = "cancelled"
                                      /\ ops[o].keys = op[o].keys /\ ops[o].held = op[o].held
                                      /\ ops[o].isolated = op[o].isolated
  <2>1. op[o] \in OpRow
    BY DEF TypeOK
  <2>2. ASSUME NEW r \in OpRow
        PROVE  LET r2 == [r EXCEPT !.state = "cancelled"]
               IN  /\ r2 \in OpRow /\ r2.state = "cancelled" /\ r2.keys = r.keys
                   /\ r2.held = r.held /\ r2.isolated = r.isolated
    BY DEF OpRow
  <2> QED  BY <2>1, <2>2
<1>3. Commit(ex, ops, E, undispatched) /\ acting' = acting
  BY DEF Supersede
<1>4. ex \in [Executions -> ExecRow] /\ ops \in [Operations -> OpRow]
  BY <1>1, <1>2
<1>5. E \subseteq Executions /\ undispatched \subseteq Operations
  OBVIOUS
<1>6. \A o \in undispatched : o \in Operations /\ o \notin acting /\ ~op[o].isolated
  BY DEF LockInv, ActingIsUndecided, IsolatedIsLate
<1> HIDE DEF ex, ops, E, undispatched
<1>7. \A o \in undispatched : ~BlocksIn(ops, o)
  BY <1>2, <1>6 DEF BlocksIn, terminalOperations
<1>8. \A o \in undispatched :
         /\ ~BlocksIn(ops, o) /\ o \notin acting
         /\ ops[o].keys = op[o].keys /\ ops[o].held = op[o].held
         /\ op[o].state # "absent"
         /\ ops[o].isolated => ops[o].state \notin {"absent", "prepared", "starting"}
  BY <1>2, <1>6, <1>7
<1> QED  BY <1>1, <1>2, <1>3, <1>4, <1>5, <1>8, CommitLockInv, SMTT(20)

LEMMA SettledLockInv ==
    ASSUME TypeOK, LockInv, NEW o \in Operations, NEW row \in OpRow, Settled(o, row), acting' = acting,
           row.keys = op[o].keys, row.held = op[o].held, row.isolated \in BOOLEAN,
           op[o].state \in {"starting", "unknown"}, op[o].isolated => row.isolated,
           row.state \in terminalOperations \cup {"unknown"},
           (row.isolated \/ row.state # "unknown") => o \notin acting
    PROVE  LockInv'
<1> DEFINE ops == [op EXCEPT ![o] = row]
<1> USE ConstantsAssumption
<1>1. /\ ops \in [Operations -> OpRow] /\ ops[o] = row
      /\ \A p \in Operations \ {o} : ops[p] = op[p]
  BY DEF TypeOK
<1> HIDE DEF ops
<1>2. CASE BlocksIn(ops, o)
  <2>1. op' = ops /\ UNCHANGED <<exec, lock>>
    BY <1>2 DEF Settled, ops
  <2>2. row.state = "unknown" /\ ~row.isolated
    BY <1>1, <1>2 DEF BlocksIn, terminalOperations
  <2>3. \A p \in Operations : /\ operationBlocksRecovery(p)' <=> operationBlocksRecovery(p)
                              /\ Guarding(p)' <=> Guarding(p)
                              /\ op'[p].keys = op[p].keys /\ op'[p].held = op[p].held
                              /\ op'[p].state = "absent" <=> op[p].state = "absent"
                              /\ op'[p].isolated => op[p].isolated
    <3> SUFFICES ASSUME NEW p \in Operations
                 PROVE  /\ operationBlocksRecovery(p)' <=> operationBlocksRecovery(p)
                        /\ Guarding(p)' <=> Guarding(p)
                        /\ op'[p].keys = op[p].keys /\ op'[p].held = op[p].held
                        /\ op'[p].state = "absent" <=> op[p].state = "absent"
                        /\ op'[p].isolated => op[p].isolated
      OBVIOUS
    <3>1. CASE p = o
      BY <1>1, <2>1, <2>2, <3>1 DEF operationBlocksRecovery, BlocksIn, Guarding, terminalOperations
    <3>2. CASE p # o
      BY <1>1, <2>1, <3>2 DEF operationBlocksRecovery, BlocksIn, Guarding, terminalOperations
    <3> QED  BY <3>1, <3>2
  <2>4. ExecLocks' /\ LeaseGuards' /\ AbsentIsEmpty'
    BY <2>1, <2>3 DEF LockInv, ExecLocks, LeaseGuards, AbsentIsEmpty
  <2>5. OpLocks' /\ Covered'
    BY <2>1, <2>3 DEF LockInv, OpLocks, Covered
  <2>6. IsolatedIsLate' /\ ActingIsUndecided'
    BY <1>1, <2>1, <2>2 DEF LockInv, IsolatedIsLate, ActingIsUndecided, TypeOK
  <2> QED  BY <2>4, <2>5, <2>6 DEF LockInv
<1>3. CASE ~BlocksIn(ops, o)
  <2>1. Commit(exec, ops, {ExecOf[o]}, {o})
    BY <1>3 DEF Settled, ops
  <2>2. o \notin acting
    BY <1>1, <1>3 DEF BlocksIn, terminalOperations
  <2>3. row.isolated => row.state \notin {"absent", "prepared", "starting"}
    BY DEF terminalOperations
  <2>4. exec \in [Executions -> ExecRow] /\ {ExecOf[o]} \subseteq Executions
    BY DEF TypeOK
  <2>5. \A p \in {o} : /\ ~BlocksIn(ops, p) /\ p \notin acting
                       /\ ops[p].keys = op[p].keys /\ ops[p].held = op[p].held
                       /\ op[p].state # "absent"
                       /\ ops[p].isolated => ops[p].state \notin {"absent", "prepared", "starting"}
    BY <1>1, <1>3, <2>2, <2>3
  <2> QED  BY <1>1, <2>1, <2>4, <2>5, CommitLockInv
<1> QED  BY <1>2, <1>3

LEMMA LockInvTask == ASSUME TypeOK, LockInv, NEW t \in Tasks, TaskStep(t) PROVE LockInv'
<1>1. CASE TaskRevise(t)
  BY <1>1, SupersedeLockInv DEF TaskRevise
<1>2. CASE TaskReopen(t)
  <2>1. \E row : Supersede(t, row)
    BY <1>2 DEF TaskReopen
  <2> QED  BY <2>1, SupersedeLockInv
<1>3. CASE \E c \in Controls : TaskControl(t, c)
  <2>1. \E row : Supersede(t, row)
    BY <1>3 DEF TaskControl
  <2> QED  BY <2>1, SupersedeLockInv
<1>4. CASE TaskSupplement(t)
  <2>1. ASSUME NEW e \in Executions
        PROVE  /\ exec'[e].leased = exec[e].leased /\ exec'[e].keys = exec[e].keys
               /\ exec[e].drained => exec'[e].drained
               /\ exec'[e].status = "absent" => exec[e].status = "absent"
    <3>1. exec'[e] = exec[e] \/ exec'[e] = [exec[e] EXCEPT !.unread = @ \cup {"owner"}]
      BY <1>4 DEF TaskSupplement
    <3>2. exec[e] \in ExecRow
      BY DEF TypeOK
    <3> QED  BY <3>1, <3>2 DEF ExecRow
  <2> QED  BY <1>4, <2>1, LockInvFrame DEF TaskSupplement
<1>5. CASE \/ TaskCreate(t) \/ TaskArchive(t) \/ TaskClaim(t) \/ TaskComplete(t) \/ WakeAck(t)
           \/ TaskDrained(t) \/ TaskDrainLost(t) \/ RecoverTask(t) \/ HumanRespond(t)
           \/ \E ask \in BOOLEAN : TaskWait(t, ask)
  <2>1. UNCHANGED <<exec, op, acting, lock>>
    BY <1>5 DEF TaskCreate, TaskArchive, TaskClaim, TaskComplete, WakeAck,
                TaskDrained, TaskDrainLost, RecoverTask, HumanRespond, TaskWait
  <2> QED  BY <2>1, LockInvFrame
<1> QED  BY <1>1, <1>2, <1>3, <1>4, <1>5 DEF TaskStep

LEMMA LockInvDispatch ==
    ASSUME TypeOK, LockInv, NEW e \in Executions, NEW ks, NEW rb, ExecutionDispatch(e, ks, rb)
    PROVE  LockInv'
<1> USE ConstantsAssumption
<1>1. /\ exec[e].status = "absent" /\ UNCHANGED <<op, lock, acting>>
      /\ \A x \in Executions \ {e} : exec'[x] = exec[x]
      /\ exec'[e].keys = ks /\ exec'[e].leased = FALSE /\ exec'[e].drained = TRUE
      /\ exec'[e].status = "queued"
  BY DEF ExecutionDispatch, NewExec, TypeOK
<1>2. ~exec[e].leased /\ \A o \in Operations : ExecOf[o] = e => op[o].state = "absent"
  BY <1>1 DEF LockInv, AbsentIsEmpty
<1>3. \A o \in Operations : /\ operationBlocksRecovery(o)' <=> operationBlocksRecovery(o)
                            /\ Guarding(o)' <=> Guarding(o)
                            /\ ExecOf[o] = e => ~operationBlocksRecovery(o)
  BY <1>1, <1>2 DEF operationBlocksRecovery, BlocksIn, Guarding
<1>4. ExecLocks' /\ LeaseGuards' /\ AbsentIsEmpty'
  BY <1>1, <1>2, <1>3 DEF LockInv, ExecLocks, LeaseGuards, AbsentIsEmpty
<1>5. OpLocks' /\ Covered'
  BY <1>1, <1>3 DEF LockInv, OpLocks, Covered
<1>6. IsolatedIsLate' /\ ActingIsUndecided'
  BY <1>1 DEF LockInv, IsolatedIsLate, ActingIsUndecided
<1> QED  BY <1>4, <1>5, <1>6 DEF LockInv

LEMMA LockInvContinue ==
    ASSUME TypeOK, LockInv, NEW e \in Executions, NEW ks, NEW rb, ExecutionContinue(e, ks, rb)
    PROVE  LockInv'
<1> USE ConstantsAssumption
<1>0. exec[e] \in ExecRow /\ exec \in [Executions -> ExecRow]
  BY DEF TypeOK
<1>1. /\ UNCHANGED <<op, lock, acting>>
      /\ exec[e].drained /\ exec[e].status # "absent"
      /\ ks # exec[e].keys =>
           ~exec[e].leased /\ \A o \in OpsOf(e) : ~operationBlocksRecovery(o)
  BY DEF ExecutionContinue
<1>2. /\ \A x \in Executions \ {e} : exec'[x] = exec[x]
      /\ exec'[e].keys = ks /\ exec'[e].leased = exec[e].leased /\ exec'[e].drained = exec[e].drained
      /\ exec'[e].status = "queued"
  BY <1>0 DEF ExecutionContinue, ExecRow
<1>3. \A o \in Operations : /\ operationBlocksRecovery(o)' <=> operationBlocksRecovery(o)
                            /\ Guarding(o)' <=> Guarding(o)
  BY <1>1 DEF operationBlocksRecovery, BlocksIn, Guarding
<1>4. ks # exec[e].keys => \A o \in Operations : ExecOf[o] = e => ~operationBlocksRecovery(o)
  BY <1>1 DEF OpsOf, operationBlocksRecovery, BlocksIn
<1>5. ExecLocks' /\ LeaseGuards' /\ AbsentIsEmpty'
  <2>1. ExecLocks'
    BY <1>1, <1>2 DEF LockInv, ExecLocks
  <2>2. LeaseGuards'
    BY <1>1, <1>2, <1>3, <1>4 DEF LockInv, LeaseGuards
  <2>3. AbsentIsEmpty'
    BY <1>1, <1>2 DEF LockInv, AbsentIsEmpty
  <2> QED  BY <2>1, <2>2, <2>3
<1>6. OpLocks' /\ Covered'
  BY <1>1, <1>2, <1>3, <1>4 DEF LockInv, OpLocks, Covered
<1>7. IsolatedIsLate' /\ ActingIsUndecided'
  BY <1>1 DEF LockInv, IsolatedIsLate, ActingIsUndecided
<1> QED  BY <1>5, <1>6, <1>7 DEF LockInv

\* execution.claim takes only keys that are free or already its own
LEMMA LockInvClaim ==
    ASSUME TypeOK, LockInv, NEW e \in Executions, ExecutionClaim(e) PROVE LockInv'
<1> USE ConstantsAssumption
<1>0. exec[e] \in ExecRow /\ exec \in [Executions -> ExecRow]
  BY DEF TypeOK
<1>1. /\ UNCHANGED <<op, acting>> /\ exec[e].status # "absent"
      /\ \A k \in exec[e].keys : lock[k] \in {e, Nobody}
      /\ \A k \in Keys : lock'[k] = IF k \in exec[e].keys THEN e ELSE lock[k]
  BY DEF ExecutionClaim, Lockable, LockAll
<1>2. /\ \A x \in Executions \ {e} : exec'[x] = exec[x]
      /\ exec'[e].keys = exec[e].keys /\ exec'[e].status = "running"
      /\ exec'[e].leased <=> exec[e].leased \/ exec[e].keys # {}
  <2>1. exec' = [exec EXCEPT ![e] = [exec[e] EXCEPT !.status = "running", !.lease = @ + 1,
                   !.drained = FALSE, !.recovering = FALSE,
                   !.leased = exec[e].leased \/ exec[e].keys # {}]]
    BY Zenon DEF ExecutionClaim
  <2> QED  BY <1>0, <2>1, ZenonT(30) DEF ExecRow
<1>3. \A o \in Operations : /\ operationBlocksRecovery(o)' <=> operationBlocksRecovery(o)
                            /\ Guarding(o)' <=> Guarding(o)
  BY <1>1 DEF operationBlocksRecovery, BlocksIn, Guarding
<1>4. ExecLocks'
  BY <1>1, <1>2 DEF LockInv, ExecLocks
<1>5. LeaseGuards' /\ AbsentIsEmpty'
  BY <1>1, <1>2, <1>3 DEF LockInv, LeaseGuards, AbsentIsEmpty
<1>6. OpLocks' /\ Covered'
  BY <1>1, <1>2, <1>3 DEF LockInv, OpLocks, Covered
<1>7. IsolatedIsLate' /\ ActingIsUndecided'
  BY <1>1 DEF LockInv, IsolatedIsLate, ActingIsUndecided
<1> QED  BY <1>4, <1>5, <1>6, <1>7 DEF LockInv

\* a command that rewrites one execution row and releases that execution
LEMMA EndLockInv ==
    ASSUME TypeOK, LockInv, NEW e \in Executions, NEW row \in ExecRow,
           Commit([exec EXCEPT ![e] = row], op, {e}, {}), acting' = acting,
           row.leased = exec[e].leased, row.keys = exec[e].keys,
           exec[e].drained => row.drained,
           row.status = "absent" => exec[e].status = "absent"
    PROVE  LockInv'
<1> DEFINE ex == [exec EXCEPT ![e] = row]
<1>1. /\ ex \in [Executions -> ExecRow] /\ op \in [Operations -> OpRow] /\ ex[e] = row
      /\ \A x \in Executions \ {e} : ex[x] = exec[x]
  BY DEF TypeOK
<1>2. Commit(ex, op, {e}, {})
  OBVIOUS
<1> HIDE DEF ex
<1> QED  BY <1>1, <1>2, CommitLockInv

LEMMA LockInvExecution ==
    ASSUME TypeOK, LockInv, NEW e \in Executions, ExecutionStep(e) PROVE LockInv'
<1>0. exec[e] \in ExecRow /\ exec \in [Executions -> ExecRow]
  BY DEF TypeOK
<1>1. CASE \E ks \in KeySets[e], rb \in Operations \cup {Nobody} :
             ExecutionDispatch(e, ks, rb) \/ ExecutionContinue(e, ks, rb)
  BY <1>1, LockInvDispatch, LockInvContinue
<1>2. CASE ExecutionClaim(e)
  BY <1>2, LockInvClaim
<1>3. CASE ExecutionCancel(e)
  <2> DEFINE s == IF exec[e].drained THEN "cancelled" ELSE exec[e].status
             row == [exec[e] EXCEPT !.cancelReq = TRUE, !.status = s]
  <2>1. s \in ExecStatus /\ (s = "absent" => exec[e].status = "absent")
    BY <1>0, ExecRowFields DEF ExecStatus
  <2>2. Commit([exec EXCEPT ![e] = row], op, {e}, {}) /\ acting' = acting
    BY <1>3 DEF ExecutionCancel
  <2> HIDE DEF s
  <2>3. /\ row \in ExecRow /\ row.leased = exec[e].leased /\ row.keys = exec[e].keys
        /\ row.drained = exec[e].drained /\ row.status = s
    BY <1>0, <2>1 DEF ExecRow, ExecStatus
  <2> HIDE DEF row
  <2> QED  BY <2>1, <2>2, <2>3, EndLockInv
<1>4. CASE NativeEnd(e) \/ SubmissionRaced(e) \/ OrphanGone(e)
  <2>1. UNCHANGED <<exec, op, acting, lock>>
    BY <1>4 DEF NativeEnd, SubmissionRaced, OrphanGone
  <2> QED  BY <2>1, LockInvFrame
<1>5. CASE \/ ExecutionDrainFailed(e)
           \/ \E kind \in FeedbackKinds : Feedback(e, kind) \/ FeedbackConsumed(e, kind)
  <2>1. /\ UNCHANGED <<op, acting, lock>>
        /\ \/ exec' = [exec EXCEPT ![e].recovering = TRUE]
           \/ \E U : exec' = [exec EXCEPT ![e].unread = U]
    BY <1>5 DEF ExecutionDrainFailed, Feedback, FeedbackConsumed
  <2>2. ASSUME NEW x \in Executions
        PROVE  /\ exec'[x].leased = exec[x].leased /\ exec'[x].keys = exec[x].keys
               /\ exec[x].drained => exec'[x].drained
               /\ exec'[x].status = "absent" => exec[x].status = "absent"
    <3>1. exec[x] \in ExecRow
      BY <1>0
    <3>2. \/ exec'[x] = exec[x] \/ exec'[x] = [exec[x] EXCEPT !.recovering = TRUE]
          \/ \E U : exec'[x] = [exec[x] EXCEPT !.unread = U]
      BY <1>0, <2>1
    <3> QED  BY <3>1, <3>2 DEF ExecRow
  <2> QED  BY <2>1, <2>2, LockInvFrame
<1>6. CASE ExecutionDrained(e) \/ RecoverDrained(e)
  <2> DEFINE s == IF exec[e].cancelReq /\ exec[e].status \notin terminalExecutions THEN "cancelled"
                  ELSE IF exec[e].status = "running" /\ exec[e].result = "none" THEN "queued"
                  ELSE exec[e].status
             row == [exec[e] EXCEPT !.drained = TRUE, !.recovering = FALSE, !.status = s]
  <2>1. s \in ExecStatus /\ (s = "absent" => exec[e].status = "absent")
    BY <1>0, ExecRowFields DEF ExecStatus
  <2>2. Commit([exec EXCEPT ![e] = row], op, {e}, {}) /\ acting' = acting
    BY <1>6 DEF ExecutionDrained, RecoverDrained, Drain
  <2> HIDE DEF s
  <2>3. /\ row \in ExecRow /\ row.leased = exec[e].leased /\ row.keys = exec[e].keys
        /\ row.drained /\ row.status = s
    BY <1>0, <2>1 DEF ExecRow, ExecStatus
  <2> HIDE DEF row
  <2> QED  BY <2>1, <2>2, <2>3, EndLockInv
<1>7. ASSUME NEW r \in {"output", "error"}, ExecutionResult(e, r) PROVE LockInv'
  <2> DEFINE current == executionCurrent(e)
             s == IF ~current THEN "stale" ELSE IF r = "error" THEN "failed" ELSE "succeeded"
             row == [exec[e] EXCEPT !.result = r, !.current = current, !.status = s]
  <2>1. current \in BOOLEAN
    BY Zenon DEF executionCurrent
  <2>2. s \in ExecStatus /\ s # "absent"
    BY DEF ExecStatus
  <2>3. Commit([exec EXCEPT ![e] = row], op, {e}, {}) /\ acting' = acting
    BY <1>7 DEF ExecutionResult
  <2> HIDE DEF s, current
  <2>4. /\ row \in ExecRow /\ row.leased = exec[e].leased /\ row.keys = exec[e].keys
        /\ row.drained = exec[e].drained /\ row.status = s
    BY <1>0, <2>1, <2>2 DEF ExecRow, ExecStatus
  <2> HIDE DEF row
  <2> QED  BY <2>2, <2>3, <2>4, EndLockInv
<1> QED  BY <1>1, <1>2, <1>3, <1>4, <1>5, <1>6, <1>7 DEF ExecutionStep

\* a prepared row is new: it needs the lease of its execution, or keys of its own later
LEMMA LockInvPrepare ==
    ASSUME TypeOK, LockInv, NEW o \in Operations, NEW ks, OperationPrepare(o, ks) PROVE LockInv'
<1> DEFINE e == ExecOf[o]
<1> USE ConstantsAssumption
<1>1. /\ UNCHANGED <<exec, lock, acting>>
      /\ exec[e].status = "running" /\ ~exec[e].drained
      /\ op[o].state = "absent"
      /\ exec[e].keys # {} => ks \subseteq exec[e].keys
  BY DEF OperationPrepare, assertScope
<1>2. /\ \A p \in Operations \ {o} : op'[p] = op[p]
      /\ op'[o].state = "prepared" /\ op'[o].isolated = FALSE /\ op'[o].keys = ks
      /\ op'[o].held <=> exec[e].keys # {}
  BY DEF OperationPrepare, NewOp, TypeOK
<1>3. e \in Executions
  OBVIOUS
<1> HIDE DEF e
<1>4. \A p \in Operations \ {o} : /\ operationBlocksRecovery(p)' <=> operationBlocksRecovery(p)
                                  /\ Guarding(p)' <=> Guarding(p)
  BY <1>2 DEF operationBlocksRecovery, BlocksIn, Guarding
<1>5. ~Guarding(o) /\ ~Guarding(o)'
  BY <1>1, <1>2 DEF Guarding
<1>6. ExecLocks'
  BY <1>1 DEF LockInv, ExecLocks
<1>7. LeaseGuards'
  <2>1. exec[e].leased \/ exec[e].keys = {}
    BY <1>1, <1>3 DEF LockInv, LeaseGuards
  <2>2. \A p \in Operations : ExecOf[p] # e => p # o
    BY DEF e
  <2> QED  BY <1>1, <1>4, <2>1, <2>2 DEF LockInv, LeaseGuards
<1>8. AbsentIsEmpty'
  <2>1. \A p \in Operations : ExecOf[p] # e => p # o
    BY DEF e
  <2> QED  BY <1>1, <1>2, <2>1 DEF LockInv, AbsentIsEmpty
<1>9. OpLocks'
  BY <1>1, <1>2, <1>4, <1>5 DEF LockInv, OpLocks
<1>10. Covered'
  <2>1. op'[o].held => exec[e].keys # {} /\ op'[o].keys \subseteq exec[e].keys
    BY <1>1, <1>2
  <2>2. \A p \in Operations \ {o} :
          /\ op[p].held /\ operationBlocksRecovery(p) =>
               exec[ExecOf[p]].keys # {} /\ op[p].keys \subseteq exec[ExecOf[p]].keys
          /\ op'[p] = op[p]
    BY <1>2 DEF LockInv, Covered
  <2> QED  BY <1>1, <1>4, <2>1, <2>2 DEF Covered, e
<1>11. IsolatedIsLate'
  BY <1>2 DEF LockInv, IsolatedIsLate
<1>12. ActingIsUndecided'
  BY <1>1, <1>2 DEF LockInv, ActingIsUndecided, TypeOK
<1> QED  BY <1>6, <1>7, <1>8, <1>9, <1>10, <1>11, <1>12 DEF LockInv

LEMMA LockInvStart ==
    ASSUME TypeOK, LockInv, NEW o \in Operations, OperationStart(o) PROVE LockInv'
<1> USE ConstantsAssumption
<1>0. op[o] \in OpRow /\ op \in [Operations -> OpRow]
  BY DEF TypeOK
<1>1. /\ UNCHANGED exec /\ acting' = acting \cup {o}
      /\ op[o].state = "prepared"
      /\ op[o].held => lock' = lock
      /\ ~op[o].held => /\ \A k \in op[o].keys : lock[k] \in {o, Nobody}
                        /\ \A k \in Keys : lock'[k] = IF k \in op[o].keys THEN o ELSE lock[k]
  BY DEF OperationStart, Startable, Lockable, LockAll
<1>2. /\ \A p \in Operations \ {o} : op'[p] = op[p]
      /\ op'[o].state = "starting" /\ op'[o].isolated = op[o].isolated
      /\ op'[o].keys = op[o].keys /\ op'[o].held = op[o].held
  BY <1>0 DEF OperationStart, OpRow
<1>3. ~op[o].isolated
  BY <1>1 DEF LockInv, IsolatedIsLate
<1>4. \A p \in Operations : operationBlocksRecovery(p)' <=> operationBlocksRecovery(p)
  BY <1>1, <1>2 DEF operationBlocksRecovery, BlocksIn, terminalOperations
<1>5. /\ \A p \in Operations \ {o} : Guarding(p)' <=> Guarding(p)
      /\ ~Guarding(o) /\ (Guarding(o)' <=> ~op[o].held)
  BY <1>1, <1>2, <1>3 DEF Guarding
<1>6. ExecLocks'
  BY <1>1 DEF LockInv, ExecLocks
<1>7. LeaseGuards'
  BY <1>1, <1>4 DEF LockInv, LeaseGuards
<1>8. AbsentIsEmpty'
  BY <1>1, <1>2 DEF LockInv, AbsentIsEmpty
<1>9. OpLocks'
  BY <1>1, <1>2, <1>5 DEF LockInv, OpLocks
<1>10. Covered'
  BY <1>1, <1>2, <1>4 DEF LockInv, Covered
<1>11. IsolatedIsLate' /\ ActingIsUndecided'
  BY <1>1, <1>2, <1>3 DEF LockInv, IsolatedIsLate, ActingIsUndecided, TypeOK
<1> QED  BY <1>6, <1>7, <1>8, <1>9, <1>10, <1>11 DEF LockInv

LEMMA LockInvOperation ==
    ASSUME TypeOK, LockInv, NEW o \in Operations, OperationStep(o) PROVE LockInv'
<1>0. op[o] \in OpRow /\ op \in [Operations -> OpRow]
  BY DEF TypeOK
<1>1. CASE \E ks \in KeySets[o] : OperationPrepare(o, ks)
  BY <1>1, LockInvPrepare
<1>2. CASE OperationStart(o)
  BY <1>2, LockInvStart
<1>3. CASE OperationStartRefused(o)
  <2>1. /\ UNCHANGED <<exec, acting, lock>>
        /\ op' = [op EXCEPT ![o].refused = TRUE]
    BY <1>3 DEF OperationStartRefused
  <2>2. ASSUME NEW p \in Operations
        PROVE  /\ op'[p].state = op[p].state /\ op'[p].isolated = op[p].isolated
               /\ op'[p].held = op[p].held /\ op'[p].keys = op[p].keys
    <3>1. op'[p] = op[p] \/ op'[p] = [op[p] EXCEPT !.refused = TRUE]
      BY <1>0, <2>1
    <3>2. op[p] \in OpRow
      BY <1>0
    <3> QED  BY <3>1, <3>2 DEF OpRow
  <2>3. \A p \in Operations : /\ operationBlocksRecovery(p)' <=> operationBlocksRecovery(p)
                              /\ Guarding(p)' <=> Guarding(p)
    BY <2>2 DEF operationBlocksRecovery, BlocksIn, Guarding
  <2>4. ExecLocks' /\ LeaseGuards' /\ AbsentIsEmpty'
    BY <2>1, <2>2, <2>3 DEF LockInv, ExecLocks, LeaseGuards, AbsentIsEmpty
  <2>5. OpLocks' /\ Covered'
    BY <2>1, <2>2, <2>3 DEF LockInv, OpLocks, Covered
  <2>6. IsolatedIsLate' /\ ActingIsUndecided'
    BY <2>1, <2>2 DEF LockInv, IsolatedIsLate, ActingIsUndecided, TypeOK
  <2> QED  BY <2>4, <2>5, <2>6 DEF LockInv
<1>4. CASE EffectEnd(o)
  <2>1. acting' \subseteq acting /\ UNCHANGED <<exec, op, lock>>
    BY <1>4 DEF EffectEnd
  <2>2. \A p : /\ operationBlocksRecovery(p)' <=> operationBlocksRecovery(p)
               /\ Guarding(p)' <=> Guarding(p)
    BY <2>1 DEF operationBlocksRecovery, BlocksIn, Guarding
  <2>3. ExecLocks' /\ LeaseGuards' /\ AbsentIsEmpty'
    BY <2>1, <2>2 DEF LockInv, ExecLocks, LeaseGuards, AbsentIsEmpty
  <2>4. OpLocks' /\ Covered'
    BY <2>1, <2>2 DEF LockInv, OpLocks, Covered
  <2>5. IsolatedIsLate' /\ ActingIsUndecided'
    BY <2>1 DEF LockInv, IsolatedIsLate, ActingIsUndecided
  <2> QED  BY <2>3, <2>4, <2>5 DEF LockInv
<1>5. ASSUME NEW s \in terminalOperations \cup {"unknown"}, Settled(o, [op[o] EXCEPT !.state = s]),
             op[o].state \in {"starting", "unknown"}, acting' = acting,
             (s # "unknown" \/ op[o].isolated) => o \notin acting
      PROVE  LockInv'
  <2> DEFINE row == [op[o] EXCEPT !.state = s]
  <2>1. /\ row \in OpRow /\ row.state = s /\ row.keys = op[o].keys /\ row.held = op[o].held
        /\ row.isolated = op[o].isolated /\ op[o].isolated \in BOOLEAN
    BY <1>0, <1>5 DEF OpRow, terminalOperations
  <2>2. Settled(o, row)
    BY <1>5
  <2> HIDE DEF row
  <2> QED  BY <1>5, <2>1, <2>2, SettledLockInv
<1>6. ASSUME NEW s \in {"succeeded", "failed", "unknown"}, OperationSettle(o, s) PROVE LockInv'
  <2>1. /\ Settled(o, [op[o] EXCEPT !.state = s]) /\ op[o].state = "starting"
        /\ acting' = acting /\ (s # "unknown" => o \notin acting)
    BY <1>6 DEF OperationSettle
  <2>2. ~op[o].isolated
    BY <2>1 DEF LockInv, IsolatedIsLate
  <2> QED  BY <1>5, <2>1, <2>2 DEF terminalOperations
<1>7. ASSUME NEW s \in terminalOperations, OperationReconcile(o, s) PROVE LockInv'
  <2>1. /\ Settled(o, [op[o] EXCEPT !.state = s]) /\ op[o].state = "unknown"
        /\ acting' = acting /\ o \notin acting
    BY <1>7 DEF OperationReconcile
  <2> QED  BY <1>5, <2>1
<1>8. ASSUME NEW audit \in {"failed", "isolated"}, OperatorResolve(o, audit) PROVE LockInv'
  <2>1. /\ op[o].state = "unknown" /\ ~op[o].isolated /\ o \notin acting /\ acting' = acting
        /\ \/ Settled(o, [op[o] EXCEPT !.state = "failed"])
           \/ Settled(o, [op[o] EXCEPT !.isolated = TRUE])
    BY <1>8 DEF OperatorResolve
  <2>2. CASE Settled(o, [op[o] EXCEPT !.state = "failed"])
    BY <1>5, <2>1, <2>2 DEF terminalOperations
  <2>3. CASE Settled(o, [op[o] EXCEPT !.isolated = TRUE])
    <3> DEFINE row == [op[o] EXCEPT !.isolated = TRUE]
    <3>1. /\ row \in OpRow /\ row.state = op[o].state /\ row.keys = op[o].keys
          /\ row.held = op[o].held /\ row.isolated = TRUE
      BY <1>0 DEF OpRow
    <3>2. Settled(o, row)
      BY <2>3
    <3> HIDE DEF row
    <3> QED  BY <2>1, <3>1, <3>2, SettledLockInv
  <2> QED  BY <2>1, <2>2, <2>3
<1> QED  BY <1>1, <1>2, <1>3, <1>4, <1>6, <1>7, <1>8 DEF OperationStep

\* a crash keeps every lease: what it interrupts stays undecided, hence locked
LEMMA LockInvCrash == ASSUME TypeOK, LockInv, Crash PROVE LockInv'
<1> USE ConstantsAssumption
<1>1. UNCHANGED <<acting, lock>>
  BY DEF Crash
<1>2. ASSUME NEW e \in Executions
      PROVE  /\ exec'[e].leased = exec[e].leased /\ exec'[e].keys = exec[e].keys
             /\ exec'[e].drained = exec[e].drained /\ exec'[e].status = exec[e].status
  <2>1. exec'[e] = exec[e] \/ exec'[e] = [exec[e] EXCEPT !.recovering = TRUE]
    BY DEF Crash
  <2>2. exec[e] \in ExecRow
    BY DEF TypeOK
  <2> QED  BY <2>1, <2>2 DEF ExecRow
<1>3. ASSUME NEW o \in Operations
      PROVE  /\ op'[o].isolated = op[o].isolated
             /\ op'[o].held = op[o].held /\ op'[o].keys = op[o].keys
             /\ \/ op'[o].state = op[o].state
                \/ op[o].state = "starting" /\ op'[o].state = "unknown"
  <2>1. \/ op'[o] = op[o]
        \/ op[o].state = "starting" /\ op'[o] = [op[o] EXCEPT !.state = "unknown", !.restart = TRUE]
    BY DEF Crash
  <2>2. op[o] \in OpRow
    BY DEF TypeOK
  <2> QED  BY <2>1, <2>2 DEF OpRow
<1>4. \A o \in Operations : /\ operationBlocksRecovery(o)' <=> operationBlocksRecovery(o)
                            /\ Guarding(o)' <=> Guarding(o)
  BY <1>3 DEF operationBlocksRecovery, BlocksIn, Guarding, terminalOperations
<1>5. ExecLocks' /\ LeaseGuards'
  BY <1>1, <1>2, <1>4 DEF LockInv, ExecLocks, LeaseGuards
<1>6. AbsentIsEmpty'
  BY <1>2, <1>3 DEF LockInv, AbsentIsEmpty
<1>7. OpLocks' /\ Covered'
  BY <1>1, <1>2, <1>3, <1>4 DEF LockInv, OpLocks, Covered
<1>8. IsolatedIsLate' /\ ActingIsUndecided'
  BY <1>1, <1>3 DEF LockInv, IsolatedIsLate, ActingIsUndecided, TypeOK
<1> QED  BY <1>5, <1>6, <1>7, <1>8 DEF LockInv

\* The locks an execution or operation holds are always exactly those of its lease, and
\* whatever is undecided or still running is covered by one (lock, releaseExecution,
\* releaseOperation and the recovery at startup keep this in every order).
THEOREM LocksCorrect == Spec => []LockInv
<1>1. TypeOK /\ LockInv /\ [Next]_vars => LockInv'
  <2> SUFFICES ASSUME TypeOK, LockInv, [Next]_vars PROVE LockInv'
    OBVIOUS
  <2>1. CASE Next
    BY <2>1, LockInvTask, LockInvExecution, LockInvOperation, LockInvCrash DEF Next
  <2>2. CASE UNCHANGED vars
    <3>1. UNCHANGED <<exec, op, acting, lock>>
      BY <2>2 DEF vars
    <3> QED  BY <3>1, LockInvFrame
  <2> QED  BY <2>1, <2>2
<1> QED  BY <1>1, LockInvInit, TypeCorrect, PTL DEF Spec

\* No running effect is ever without its resource locks: for any number of tasks,
\* executions, operations, keys and crashes.
THEOREM EffectsLocked == Spec => []EffectsUnderLock
<1>1. TypeOK /\ LockInv => EffectsUnderLock
  BY LockInvSuffices
<1> QED  BY <1>1, TypeCorrect, LocksCorrect, PTL

\* The resource checks openDynamicTaskStore makes at startup hold in every state a
\* crash can leave, so a restart is never refused for them.
THEOREM RestartAdmitted == Spec => []RestartAdmissible
<1>1. TypeOK /\ LockInv => RestartAdmissible
  BY LockInvSuffices
<1> QED  BY <1>1, TypeCorrect, LocksCorrect, PTL

-----------------------------------------------------------------------------
(* An operation is dispatched at most once.                                *)

Advances == \A o \in Operations : op'[o].state # op[o].state => Rank(op'[o].state) > Rank(op[o].state)

\* the only ways an operation's state changes
Moves == {<<"absent", "prepared">>, <<"prepared", "starting">>, <<"prepared", "cancelled">>,
          <<"starting", "unknown">>, <<"starting", "succeeded">>, <<"starting", "failed">>,
          <<"unknown", "succeeded">>, <<"unknown", "failed">>, <<"unknown", "cancelled">>}

LEMMA MovesAdvance ==
    ASSUME \A o \in Operations : op'[o].state = op[o].state \/ <<op[o].state, op'[o].state>> \in Moves
    PROVE  Advances
<1>1. \A m \in Moves : Rank(m[2]) > Rank(m[1])
  BY DEF Moves, Rank
<1>2. ASSUME NEW o \in Operations, op'[o].state # op[o].state
      PROVE  Rank(op'[o].state) > Rank(op[o].state)
  BY <1>1, <1>2
<1> QED  BY <1>2 DEF Advances

\* a command that writes one operation row
LEMMA OneMove ==
    ASSUME TypeOK, NEW o \in Operations, NEW row, op' = [op EXCEPT ![o] = row],
           row.state = op[o].state \/ <<op[o].state, row.state>> \in Moves
    PROVE  Advances
<1>1. ASSUME NEW p \in Operations
      PROVE  op'[p].state = op[p].state \/ <<op[p].state, op'[p].state>> \in Moves
  BY DEF TypeOK
<1> QED  BY <1>1, MovesAdvance

LEMMA AdvancesOperation == ASSUME TypeOK, NEW o \in Operations, OperationStep(o) PROVE Advances
<1>0. op[o] \in OpRow
  BY DEF TypeOK
<1>1. \A s \in OpState : LET row == [op[o] EXCEPT !.state = s] IN row.state = s
  BY <1>0 DEF OpRow
<1>2. ASSUME NEW row, Settled(o, row) PROVE op' = [op EXCEPT ![o] = row]
  BY <1>2 DEF Settled, Commit
<1>3. ASSUME NEW ks \in KeySets[o], OperationPrepare(o, ks) PROVE Advances
  <2> DEFINE row == [NewOp EXCEPT !.state = "prepared", !.keys = ks,
                       !.held = exec[ExecOf[o]].keys # {}, !.req = task[TaskOf[ExecOf[o]]].req,
                       !.ctl = task[TaskOf[ExecOf[o]]].ctl, !.lease = exec[ExecOf[o]].lease]
  <2>1. op' = [op EXCEPT ![o] = row] /\ op[o].state = "absent"
    BY <1>3 DEF OperationPrepare
  <2>2. row.state = "prepared"
    BY DEF NewOp
  <2> HIDE DEF row
  <2> QED  BY <2>1, <2>2, OneMove DEF Moves
<1>4. CASE OperationStart(o)
  <2>1. /\ op' = [op EXCEPT ![o] = [op[o] EXCEPT !.state = "starting"]]
        /\ op[o].state = "prepared"
    BY <1>4 DEF OperationStart, Startable
  <2>2. [op[o] EXCEPT !.state = "starting"].state = "starting"
    BY <1>1 DEF OpState
  <2> QED  BY <2>1, <2>2, OneMove DEF Moves
<1>5. CASE OperationStartRefused(o)
  <2>1. op' = [op EXCEPT ![o] = [op[o] EXCEPT !.refused = TRUE]]
    BY <1>5 DEF OperationStartRefused
  <2>2. [op[o] EXCEPT !.refused = TRUE].state = op[o].state
    BY <1>0 DEF OpRow
  <2> QED  BY <2>1, <2>2, OneMove
<1>6. CASE EffectEnd(o)
  BY <1>6 DEF EffectEnd, Advances
<1>7. ASSUME NEW s \in {"succeeded", "failed", "unknown"}, OperationSettle(o, s) PROVE Advances
  <2>1. op' = [op EXCEPT ![o] = [op[o] EXCEPT !.state = s]] /\ op[o].state = "starting"
    BY <1>2, <1>7 DEF OperationSettle
  <2>2. [op[o] EXCEPT !.state = s].state = s
    BY <1>1 DEF OpState
  <2> QED  BY <2>1, <2>2, OneMove DEF Moves
<1>8. ASSUME NEW s \in terminalOperations, OperationReconcile(o, s) PROVE Advances
  <2>1. op' = [op EXCEPT ![o] = [op[o] EXCEPT !.state = s]] /\ op[o].state = "unknown"
    BY <1>2, <1>8 DEF OperationReconcile
  <2>2. [op[o] EXCEPT !.state = s].state = s
    BY <1>1 DEF OpState, terminalOperations
  <2> QED  BY <2>1, <2>2, OneMove DEF Moves, terminalOperations
<1>9. ASSUME NEW audit \in {"failed", "isolated"}, OperatorResolve(o, audit) PROVE Advances
  <2>1. /\ op[o].state = "unknown"
        /\ \/ op' = [op EXCEPT ![o] = [op[o] EXCEPT !.state = "failed"]]
           \/ op' = [op EXCEPT ![o] = [op[o] EXCEPT !.isolated = TRUE]]
    BY <1>2, <1>9 DEF OperatorResolve
  <2>2. /\ [op[o] EXCEPT !.state = "failed"].state = "failed"
        /\ [op[o] EXCEPT !.isolated = TRUE].state = op[o].state
    BY <1>0 DEF OpRow
  <2> QED  BY <2>1, <2>2, OneMove DEF Moves
<1> QED  BY <1>3, <1>4, <1>5, <1>6, <1>7, <1>8, <1>9 DEF OperationStep

LEMMA AdvancesSupersede == ASSUME TypeOK, NEW t, NEW row, Supersede(t, row) PROVE Advances
<1>1. ASSUME NEW o \in Operations
      PROVE  op'[o].state = op[o].state \/ <<op[o].state, op'[o].state>> \in Moves
  <2>1. \/ op'[o] = op[o]
        \/ op[o].state = "prepared" /\ op'[o] = [op[o] EXCEPT !.state = "cancelled"]
    BY DEF Supersede, Commit
  <2>2. op[o] \in OpRow
    BY DEF TypeOK
  <2>3. [op[o] EXCEPT !.state = "cancelled"].state = "cancelled"
    BY <2>2 DEF OpRow
  <2> QED  BY <2>1, <2>3 DEF Moves
<1> QED  BY <1>1, MovesAdvance

LEMMA AdvancesCrash == ASSUME TypeOK, Crash PROVE Advances
<1>1. ASSUME NEW o \in Operations
      PROVE  op'[o].state = op[o].state \/ <<op[o].state, op'[o].state>> \in Moves
  <2>1. \/ op'[o] = op[o]
        \/ op[o].state = "starting" /\ op'[o] = [op[o] EXCEPT !.state = "unknown", !.restart = TRUE]
    BY DEF Crash
  <2>2. op[o] \in OpRow
    BY DEF TypeOK
  <2>3. [op[o] EXCEPT !.state = "unknown", !.restart = TRUE].state = "unknown"
    BY <2>2 DEF OpRow
  <2> QED  BY <2>1, <2>3 DEF Moves
<1> QED  BY <1>1, MovesAdvance

LEMMA AdvancesTask == ASSUME TypeOK, NEW t \in Tasks, TaskStep(t) PROVE Advances
<1>1. CASE TaskRevise(t) \/ TaskReopen(t) \/ \E c \in Controls : TaskControl(t, c)
  <2>1. \E row : Supersede(t, row)
    BY <1>1 DEF TaskRevise, TaskReopen, TaskControl
  <2> QED  BY <2>1, AdvancesSupersede
<1>2. CASE \/ TaskCreate(t) \/ TaskSupplement(t) \/ TaskArchive(t) \/ TaskClaim(t) \/ TaskComplete(t)
           \/ WakeAck(t) \/ TaskDrained(t) \/ TaskDrainLost(t) \/ RecoverTask(t) \/ HumanRespond(t)
           \/ \E ask \in BOOLEAN : TaskWait(t, ask)
  <2>1. op' = op
    BY <1>2 DEF TaskCreate, TaskSupplement, TaskArchive, TaskClaim, TaskComplete, WakeAck,
                TaskDrained, TaskDrainLost, RecoverTask, HumanRespond, TaskWait
  <2> QED  BY <2>1 DEF Advances
<1> QED  BY <1>1, <1>2 DEF TaskStep

LEMMA AdvancesExecution == ASSUME NEW e \in Executions, ExecutionStep(e) PROVE Advances
<1>1. op' = op
  <2>1. Drain(e) => op' = op
    BY DEF Drain, Commit
  <2>2. ExecutionCancel(e) => op' = op
    BY DEF ExecutionCancel, Commit
  <2>3. \A r : ExecutionResult(e, r) => op' = op
    BY DEF ExecutionResult, Commit
  <2> QED
    BY <2>1, <2>2, <2>3
    DEF ExecutionStep, ExecutionDispatch, ExecutionContinue, ExecutionClaim, NativeEnd,
        SubmissionRaced, ExecutionDrainFailed, OrphanGone, ExecutionDrained, RecoverDrained,
        Feedback, FeedbackConsumed
<1> QED  BY <1>1 DEF Advances

\* No operation is ever dispatched twice: its state only moves on, so a restart, an
\* audit or a revision never makes a started operation startable again.
THEOREM NeverRedispatched == Spec => DispatchedOnce
<1>1. TypeOK /\ [Next]_vars => [Advances]_vars
  <2> SUFFICES ASSUME TypeOK, Next PROVE Advances
    BY DEF vars
  <2> QED  BY AdvancesTask, AdvancesExecution, AdvancesOperation, AdvancesCrash DEF Next
<1>2. [][Advances]_vars => DispatchedOnce
  BY PTL DEF DispatchedOnce, Advances
<1> QED  BY <1>1, <1>2, TypeCorrect, PTL DEF Spec
-----------------------------------------------------------------------------
(* The lock table implements KeyLeases.  All steps but three only let      *)
(* holders go; and no step changes what a running effect relies on.        *)

Rests == acting' = acting /\ \E H \in SUBSET Holders : lock' = Release(lock, H)

\* the keys of an execution change only while nothing of it is undecided
KeysKept == \A e \in Executions :
    \/ exec'[e].keys = exec[e].keys
    \/ \A o \in Operations : ExecOf[o] = e => ~operationBlocksRecovery(o)

CallKept == \A o \in Operations :
    op[o].state # "absent" => op'[o].keys = op[o].keys /\ op'[o].held = op[o].held

LEMMA RestsFrame == ASSUME TypeOK, UNCHANGED <<acting, lock>> PROVE Rests
<1>1. lock = Release(lock, {})
  BY DEF Release, TypeOK
<1> QED  BY <1>1 DEF Rests

LEMMA CallKeptFrame == ASSUME op' = op PROVE CallKept
BY DEF CallKept

LEMMA KeysKeptFrame == ASSUME exec' = exec PROVE KeysKept
BY DEF KeysKept

\* releaseExecution and releaseOperation write no keys into a row
LEMMA CommitRests ==
    ASSUME NEW ex \in [Executions -> ExecRow], NEW ops, NEW E, NEW O, Commit(ex, ops, E, O),
           E \subseteq Executions, O \subseteq Operations, acting' = acting,
           \A e \in Executions : ex[e].keys = exec[e].keys,
           \A o \in Operations : op[o].state # "absent" =>
                ops[o].keys = op[o].keys /\ ops[o].held = op[o].held
    PROVE  Rests /\ KeysKept /\ CallKept
<1> DEFINE R == Releasable(ex, ops, E)
<1>1. /\ \A e \in Executions : exec'[e] = IF e \in R THEN [ex[e] EXCEPT !.leased = FALSE] ELSE ex[e]
      /\ op' = ops /\ lock' = Release(lock, R \cup O)
  BY DEF Commit
<1>2. R \cup O \in SUBSET Holders
  BY DEF Releasable, Holders
<1> HIDE DEF R
<1>3. ASSUME NEW e \in Executions PROVE exec'[e].keys = exec[e].keys
  <2>1. exec'[e] = ex[e] \/ exec'[e] = [ex[e] EXCEPT !.leased = FALSE]
    BY <1>1
  <2>2. ex[e] \in ExecRow
    OBVIOUS
  <2> QED  BY <2>1, <2>2 DEF ExecRow
<1> QED  BY <1>1, <1>2, <1>3 DEF Rests, KeysKept, CallKept

LEMMA SupersedeRests ==
    ASSUME TypeOK, NEW t \in Tasks, NEW row, Supersede(t, row)
    PROVE  Rests /\ KeysKept /\ CallKept
<1> DEFINE open == {e \in ExecsOf(t) : exec[e].status \notin terminalExecutions}
           ex == [e \in Executions |->
                    IF e \in open
                    THEN [exec[e] EXCEPT !.cancelReq = TRUE,
                                         !.status = IF exec[e].drained THEN "stale" ELSE @]
                    ELSE exec[e]]
           undispatched == {o \in Operations : TaskOf[ExecOf[o]] = t /\ op[o].state = "prepared"}
           ops == [o \in Operations |->
                    IF o \in undispatched THEN [op[o] EXCEPT !.state = "cancelled"] ELSE op[o]]
           E == {ExecOf[o] : o \in undispatched}
<1> USE ConstantsAssumption
<1>1. ASSUME NEW e \in Executions PROVE ex[e] \in ExecRow /\ ex[e].keys = exec[e].keys
  <2>1. exec[e] \in ExecRow
    BY DEF TypeOK
  <2>2. ASSUME NEW r \in ExecRow
        PROVE  LET s == [r EXCEPT !.cancelReq = TRUE, !.status = IF r.drained THEN "stale" ELSE @]
               IN  s \in ExecRow /\ s.keys = r.keys
    BY DEF ExecRow
  <2> QED  BY <2>1, <2>2
<1>2. ASSUME NEW o \in Operations PROVE ops[o].keys = op[o].keys /\ ops[o].held = op[o].held
  <2>1. op[o] \in OpRow
    BY DEF TypeOK
  <2>2. ASSUME NEW r \in OpRow
        PROVE  LET s == [r EXCEPT !.state = "cancelled"] IN s.keys = r.keys /\ s.held = r.held
    BY DEF OpRow
  <2> QED  BY <2>1, <2>2
<1>3. Commit(ex, ops, E, undispatched) /\ acting' = acting
  BY DEF Supersede
<1>4. ex \in [Executions -> ExecRow]
  BY <1>1
<1>5. E \subseteq Executions /\ undispatched \subseteq Operations
  OBVIOUS
<1> HIDE DEF ex, ops, E, undispatched
<1> QED  BY <1>1, <1>2, <1>3, <1>4, <1>5, CommitRests

LEMMA TaskRests ==
    ASSUME TypeOK, NEW t \in Tasks, TaskStep(t) PROVE Rests /\ KeysKept /\ CallKept
<1>1. CASE TaskRevise(t) \/ TaskReopen(t) \/ \E c \in Controls : TaskControl(t, c)
  <2>1. \E row : Supersede(t, row)
    BY <1>1 DEF TaskRevise, TaskReopen, TaskControl
  <2> QED  BY <2>1, SupersedeRests
<1>2. CASE TaskSupplement(t)
  <2>1. UNCHANGED <<op, acting, lock>>
    BY <1>2 DEF TaskSupplement
  <2>2. ASSUME NEW e \in Executions PROVE exec'[e].keys = exec[e].keys
    <3>1. exec'[e] = exec[e] \/ exec'[e] = [exec[e] EXCEPT !.unread = @ \cup {"owner"}]
      BY <1>2 DEF TaskSupplement
    <3>2. exec[e] \in ExecRow
      BY DEF TypeOK
    <3> QED  BY <3>1, <3>2 DEF ExecRow
  <2> QED  BY <2>1, <2>2, RestsFrame, CallKeptFrame DEF KeysKept
<1>3. CASE \/ TaskCreate(t) \/ TaskArchive(t) \/ TaskClaim(t) \/ TaskComplete(t) \/ WakeAck(t)
           \/ TaskDrained(t) \/ TaskDrainLost(t) \/ RecoverTask(t) \/ HumanRespond(t)
           \/ \E ask \in BOOLEAN : TaskWait(t, ask)
  <2>1. UNCHANGED <<exec, op, acting, lock>>
    BY <1>3 DEF TaskCreate, TaskArchive, TaskClaim, TaskComplete, WakeAck,
                TaskDrained, TaskDrainLost, RecoverTask, HumanRespond, TaskWait
  <2> QED  BY <2>1, RestsFrame, CallKeptFrame, KeysKeptFrame
<1> QED  BY <1>1, <1>2, <1>3 DEF TaskStep

\* a command that rewrites one execution row, but not its keys, and releases it
LEMMA EndRests ==
    ASSUME TypeOK, NEW e \in Executions, NEW row \in ExecRow,
           Commit([exec EXCEPT ![e] = row], op, {e}, {}), acting' = acting,
           row.keys = exec[e].keys
    PROVE  Rests /\ KeysKept /\ CallKept
<1> DEFINE ex == [exec EXCEPT ![e] = row]
<1>1. ex \in [Executions -> ExecRow] /\ \A x \in Executions : ex[x].keys = exec[x].keys
  BY DEF TypeOK
<1>2. Commit(ex, op, {e}, {})
  OBVIOUS
<1> HIDE DEF ex
<1> QED  BY <1>1, <1>2, CommitRests

LEMMA ExecutionRests ==
    ASSUME TypeOK, LockInv, NEW e \in Executions, ExecutionStep(e)
    PROVE  (Rests \/ ExecutionClaim(e)) /\ KeysKept /\ CallKept
<1>0. exec[e] \in ExecRow /\ exec \in [Executions -> ExecRow]
  BY DEF TypeOK
<1>1. ASSUME NEW ks, NEW rb, ExecutionDispatch(e, ks, rb) PROVE Rests /\ KeysKept /\ CallKept
  <2>1. /\ UNCHANGED <<op, acting, lock>> /\ exec[e].status = "absent"
        /\ \A x \in Executions \ {e} : exec'[x] = exec[x]
    BY <1>0, <1>1 DEF ExecutionDispatch
  <2>2. \A o \in Operations : ExecOf[o] = e => ~operationBlocksRecovery(o)
    BY <2>1 DEF LockInv, AbsentIsEmpty, operationBlocksRecovery, BlocksIn
  <2> QED  BY <2>1, <2>2, RestsFrame, CallKeptFrame DEF KeysKept
<1>2. ASSUME NEW ks, NEW rb, ExecutionContinue(e, ks, rb) PROVE Rests /\ KeysKept /\ CallKept
  <2>1. /\ UNCHANGED <<op, acting, lock>>
        /\ ks # exec[e].keys => \A o \in OpsOf(e) : ~operationBlocksRecovery(o)
    BY <1>2 DEF ExecutionContinue
  <2>2. /\ \A x \in Executions \ {e} : exec'[x] = exec[x]
        /\ exec'[e].keys = ks
    BY <1>0, <1>2 DEF ExecutionContinue, ExecRow
  <2>3. ks # exec[e].keys => \A o \in Operations : ExecOf[o] = e => ~operationBlocksRecovery(o)
    BY <2>1 DEF OpsOf, operationBlocksRecovery, BlocksIn
  <2> QED  BY <2>1, <2>2, <2>3, RestsFrame, CallKeptFrame DEF KeysKept
<1>3. CASE ExecutionClaim(e)
  <2>1. op' = op
    BY <1>3 DEF ExecutionClaim
  <2>2. exec' = [exec EXCEPT ![e] = [exec[e] EXCEPT !.status = "running", !.lease = @ + 1,
                   !.drained = FALSE, !.recovering = FALSE,
                   !.leased = exec[e].leased \/ exec[e].keys # {}]]
    BY <1>3, Zenon DEF ExecutionClaim
  <2>3. \A x \in Executions : exec'[x].keys = exec[x].keys
    BY <1>0, <2>2 DEF ExecRow
  <2> QED  BY <1>3, <2>1, <2>3, CallKeptFrame DEF KeysKept
<1>4. CASE ExecutionCancel(e)
  <2> DEFINE s == IF exec[e].drained THEN "cancelled" ELSE exec[e].status
             row == [exec[e] EXCEPT !.cancelReq = TRUE, !.status = s]
  <2>1. s \in ExecStatus
    BY <1>0, ExecRowFields DEF ExecStatus
  <2>2. Commit([exec EXCEPT ![e] = row], op, {e}, {}) /\ acting' = acting
    BY <1>4 DEF ExecutionCancel
  <2> HIDE DEF s
  <2>3. row \in ExecRow /\ row.keys = exec[e].keys
    BY <1>0, <2>1 DEF ExecRow, ExecStatus
  <2> HIDE DEF row
  <2> QED  BY <2>2, <2>3, EndRests
<1>5. CASE NativeEnd(e) \/ SubmissionRaced(e) \/ OrphanGone(e)
  <2>1. UNCHANGED <<exec, op, acting, lock>>
    BY <1>5 DEF NativeEnd, SubmissionRaced, OrphanGone
  <2> QED  BY <2>1, RestsFrame, CallKeptFrame, KeysKeptFrame
<1>6. CASE \/ ExecutionDrainFailed(e)
           \/ \E kind \in FeedbackKinds : Feedback(e, kind) \/ FeedbackConsumed(e, kind)
  <2>1. /\ UNCHANGED <<op, acting, lock>>
        /\ \/ exec' = [exec EXCEPT ![e].recovering = TRUE]
           \/ \E U : exec' = [exec EXCEPT ![e].unread = U]
    BY <1>6 DEF ExecutionDrainFailed, Feedback, FeedbackConsumed
  <2>2. ASSUME NEW x \in Executions PROVE exec'[x].keys = exec[x].keys
    <3>1. exec[x] \in ExecRow
      BY <1>0
    <3>2. \/ exec'[x] = exec[x] \/ exec'[x] = [exec[x] EXCEPT !.recovering = TRUE]
          \/ \E U : exec'[x] = [exec[x] EXCEPT !.unread = U]
      BY <1>0, <2>1
    <3> QED  BY <3>1, <3>2 DEF ExecRow
  <2> QED  BY <2>1, <2>2, RestsFrame, CallKeptFrame DEF KeysKept
<1>7. CASE ExecutionDrained(e) \/ RecoverDrained(e)
  <2> DEFINE s == IF exec[e].cancelReq /\ exec[e].status \notin terminalExecutions THEN "cancelled"
                  ELSE IF exec[e].status = "running" /\ exec[e].result = "none" THEN "queued"
                  ELSE exec[e].status
             row == [exec[e] EXCEPT !.drained = TRUE, !.recovering = FALSE, !.status = s]
  <2>1. s \in ExecStatus
    BY <1>0, ExecRowFields DEF ExecStatus
  <2>2. Commit([exec EXCEPT ![e] = row], op, {e}, {}) /\ acting' = acting
    BY <1>7 DEF ExecutionDrained, RecoverDrained, Drain
  <2> HIDE DEF s
  <2>3. row \in ExecRow /\ row.keys = exec[e].keys
    BY <1>0, <2>1 DEF ExecRow, ExecStatus
  <2> HIDE DEF row
  <2> QED  BY <2>2, <2>3, EndRests
<1>8. ASSUME NEW r \in {"output", "error"}, ExecutionResult(e, r) PROVE Rests /\ KeysKept /\ CallKept
  <2> DEFINE current == executionCurrent(e)
             s == IF ~current THEN "stale" ELSE IF r = "error" THEN "failed" ELSE "succeeded"
             row == [exec[e] EXCEPT !.result = r, !.current = current, !.status = s]
  <2>1. current \in BOOLEAN
    BY Zenon DEF executionCurrent
  <2>2. s \in ExecStatus
    BY DEF ExecStatus
  <2>3. Commit([exec EXCEPT ![e] = row], op, {e}, {}) /\ acting' = acting
    BY <1>8 DEF ExecutionResult
  <2> HIDE DEF s, current
  <2>4. row \in ExecRow /\ row.keys = exec[e].keys
    BY <1>0, <2>1, <2>2 DEF ExecRow, ExecStatus
  <2> HIDE DEF row
  <2> QED  BY <2>3, <2>4, EndRests
<1> QED  BY <1>1, <1>2, <1>3, <1>4, <1>5, <1>6, <1>7, <1>8 DEF ExecutionStep

LEMMA OperationRests ==
    ASSUME TypeOK, NEW o \in Operations, OperationStep(o)
    PROVE  (Rests \/ OperationStart(o) \/ EffectEnd(o)) /\ KeysKept /\ CallKept
<1>0. op[o] \in OpRow /\ op \in [Operations -> OpRow]
  BY DEF TypeOK
<1>1. ASSUME NEW row, op' = [op EXCEPT ![o] = row], row.keys = op[o].keys, row.held = op[o].held
      PROVE  CallKept
  BY <1>0, <1>1 DEF CallKept
<1>2. ASSUME NEW row, Settled(o, row), acting' = acting, row.keys = op[o].keys, row.held = op[o].held
      PROVE  Rests /\ KeysKept /\ CallKept
  <2> DEFINE ops == [op EXCEPT ![o] = row]
  <2>1. CASE BlocksIn(ops, o)
    <3>1. op' = ops /\ UNCHANGED <<exec, acting, lock>>
      BY <1>2, <2>1 DEF Settled
    <3> QED  BY <1>1, <1>2, <3>1, RestsFrame, KeysKeptFrame
  <2>2. CASE ~BlocksIn(ops, o)
    <3>1. Commit(exec, ops, {ExecOf[o]}, {o})
      BY <1>2, <2>2 DEF Settled
    <3>2. exec \in [Executions -> ExecRow] /\ {ExecOf[o]} \subseteq Executions
      BY ConstantsAssumption DEF TypeOK
    <3>3. \A p \in Operations : ops[p].keys = op[p].keys /\ ops[p].held = op[p].held
      BY <1>0, <1>2
    <3> HIDE DEF ops
    <3> QED  BY <1>2, <3>1, <3>2, <3>3, CommitRests
  <2> QED  BY <2>1, <2>2
<1>3. \A s : LET row == [op[o] EXCEPT !.state = s] IN row.keys = op[o].keys /\ row.held = op[o].held
  BY <1>0 DEF OpRow
<1>4. ASSUME NEW ks, OperationPrepare(o, ks) PROVE Rests /\ KeysKept /\ CallKept
  <2>1. /\ UNCHANGED <<exec, acting, lock>> /\ op[o].state = "absent"
        /\ \A p \in Operations \ {o} : op'[p] = op[p]
    BY <1>0, <1>4 DEF OperationPrepare
  <2> QED  BY <2>1, RestsFrame, KeysKeptFrame DEF CallKept
<1>5. CASE OperationStart(o)
  <2>1. exec' = exec /\ op' = [op EXCEPT ![o] = [op[o] EXCEPT !.state = "starting"]]
    BY <1>5 DEF OperationStart
  <2> QED  BY <1>1, <1>3, <1>5, <2>1, KeysKeptFrame
<1>6. CASE OperationStartRefused(o)
  <2>1. /\ UNCHANGED <<exec, acting, lock>>
        /\ op' = [op EXCEPT ![o] = [op[o] EXCEPT !.refused = TRUE]]
    BY <1>6 DEF OperationStartRefused
  <2>2. LET row == [op[o] EXCEPT !.refused = TRUE] IN row.keys = op[o].keys /\ row.held = op[o].held
    BY <1>0 DEF OpRow
  <2> QED  BY <1>1, <2>1, <2>2, RestsFrame, KeysKeptFrame
<1>7. CASE EffectEnd(o)
  <2>1. exec' = exec /\ op' = op
    BY <1>7 DEF EffectEnd
  <2> QED  BY <1>7, <2>1, CallKeptFrame, KeysKeptFrame
<1>8. ASSUME NEW s, OperationSettle(o, s) \/ OperationReconcile(o, s)
      PROVE  Rests /\ KeysKept /\ CallKept
  <2>1. Settled(o, [op[o] EXCEPT !.state = s]) /\ acting' = acting
    BY <1>8 DEF OperationSettle, OperationReconcile
  <2> QED  BY <1>2, <1>3, <2>1
<1>9. ASSUME NEW audit, OperatorResolve(o, audit) PROVE Rests /\ KeysKept /\ CallKept
  <2>1. /\ acting' = acting
        /\ \/ Settled(o, [op[o] EXCEPT !.state = "failed"])
           \/ Settled(o, [op[o] EXCEPT !.isolated = TRUE])
    BY <1>9 DEF OperatorResolve
  <2>2. LET row == [op[o] EXCEPT !.isolated = TRUE] IN row.keys = op[o].keys /\ row.held = op[o].held
    BY <1>0 DEF OpRow
  <2> QED  BY <1>2, <1>3, <2>1, <2>2
<1> QED  BY <1>4, <1>5, <1>6, <1>7, <1>8, <1>9 DEF OperationStep

LEMMA CrashRests == ASSUME TypeOK, Crash PROVE Rests /\ KeysKept /\ CallKept
<1>1. UNCHANGED <<acting, lock>>
  BY DEF Crash
<1>2. ASSUME NEW e \in Executions PROVE exec'[e].keys = exec[e].keys
  <2>1. exec'[e] = exec[e] \/ exec'[e] = [exec[e] EXCEPT !.recovering = TRUE]
    BY DEF Crash
  <2>2. exec[e] \in ExecRow
    BY DEF TypeOK
  <2> QED  BY <2>1, <2>2 DEF ExecRow
<1>3. ASSUME NEW o \in Operations PROVE op'[o].keys = op[o].keys /\ op'[o].held = op[o].held
  <2>1. op'[o] = op[o] \/ op'[o] = [op[o] EXCEPT !.state = "unknown", !.restart = TRUE]
    BY DEF Crash
  <2>2. op[o] \in OpRow
    BY DEF TypeOK
  <2> QED  BY <2>1, <2>2 DEF OpRow
<1> QED  BY <1>1, <1>2, <1>3, RestsFrame DEF KeysKept, CallKept

LEMMA LockSteps ==
    ASSUME TypeOK, LockInv, [Next]_vars
    PROVE  /\ \/ Rests \/ \E e \in Executions : ExecutionClaim(e)
              \/ \E o \in Operations : OperationStart(o) \/ EffectEnd(o)
           /\ KeysKept /\ CallKept
<1>1. CASE Next
  BY <1>1, TaskRests, ExecutionRests, OperationRests, CrashRests DEF Next
<1>2. CASE UNCHANGED vars
  <2>1. UNCHANGED <<exec, op, acting, lock>>
    BY <1>2 DEF vars
  <2> QED  BY <2>1, RestsFrame, CallKeptFrame, KeysKeptFrame
<1> QED  BY <1>1, <1>2

LEMMA AdvancesNext == ASSUME TypeOK, [Next]_vars PROVE Advances
<1>1. CASE Next
  BY <1>1, AdvancesTask, AdvancesExecution, AdvancesOperation, AdvancesCrash DEF Next
<1>2. CASE UNCHANGED vars
  BY <1>2 DEF vars, Advances
<1> QED  BY <1>1, <1>2

\* what a running effect relies on stays as it was when it was started
LEMMA FootprintKept ==
    ASSUME TypeOK, LockInv, KeysKept, CallKept, NEW o \in acting
    PROVE  Footprint(o)' = Footprint(o) /\ Holder(o)' = Holder(o)
<1> USE ConstantsAssumption
<1>1. o \in Operations /\ op[o].state \in {"starting", "unknown"} /\ ~op[o].isolated
  BY DEF TypeOK, LockInv, ActingIsUndecided
<1>2. operationBlocksRecovery(o)
  BY <1>1 DEF operationBlocksRecovery, BlocksIn, terminalOperations
<1>3. exec'[ExecOf[o]].keys = exec[ExecOf[o]].keys
  BY <1>1, <1>2 DEF KeysKept
<1>4. op'[o].keys = op[o].keys /\ op'[o].held = op[o].held
  BY <1>1 DEF CallKept
<1> QED  BY <1>3, <1>4 DEF Footprint, Holder

\* an operation that is not idle never becomes idle again
LEMMA LateStaysLate ==
    ASSUME TypeOK, TypeOK', Advances, NEW o \in Operations,
           op[o].state \notin {"absent", "prepared"}
    PROVE  op'[o].state \notin {"absent", "prepared"}
<1>1. op[o].state \in OpState /\ op'[o].state \in OpState
  BY OpRowFields DEF TypeOK
<1>2. \A s \in OpState \ {"absent", "prepared"} : Rank(s) > 1
  BY DEF OpState, Rank
<1>3. Rank("absent") = 0 /\ Rank("prepared") = 1
  BY DEF Rank
<1>4. Rank(op[o].state) > 1
  BY <1>1, <1>2
<1>5. \A s \in OpState : Rank(s) \in Nat
  BY DEF OpState, Rank
<1>6. op'[o].state = op[o].state \/ Rank(op'[o].state) > Rank(op[o].state)
  BY DEF Advances
<1> HIDE DEF Rank
<1>7. Rank(op'[o].state) > 1
  BY <1>1, <1>4, <1>5, <1>6
<1> QED  BY <1>3, <1>7

LEMMA LateSteps ==
    ASSUME TypeOK, TypeOK', Advances
    PROVE  \A o \in Operations : op[o].state \notin {"absent", "prepared"} =>
                                 op'[o].state \notin {"absent", "prepared"}
BY LateStaysLate

LEMMA LeasesInit == Init => Leases!Init
<1> SUFFICES ASSUME Init PROVE Leases!Init
  OBVIOUS
<1>1. /\ \A k \in Keys : lock[k] = Nobody
      /\ \A o \in Operations : Phase[o] = "idle" /\ Needs[o] = {}
  BY DEF Init, Phase, Needs, NewOp
<1>2. lock \in [Keys -> Executions \cup Operations \cup {Nobody}]
  BY DEF Init
<1>3. Phase \in [Operations -> {"idle", "running", "over"}]
  BY <1>1 DEF Phase
<1>4. Needs \in [Operations -> SUBSET Keys]
  BY <1>1 DEF Needs
<1> QED  BY <1>1, <1>2, <1>3, <1>4 DEF Leases!Init

LEMMA PhaseIs == \A o \in Operations :
    Phase[o] = IF o \in acting THEN "running"
               ELSE IF op[o].state \in {"absent", "prepared"} THEN "idle" ELSE "over"
BY DEF Phase

LEMMA NeedsIs == \A o \in Operations : Needs[o] = IF o \in acting THEN Footprint(o) ELSE {}
BY DEF Needs

\* letting holders go is retiring those of them that hold something: none of them is
\* still needed, for what is needed is locked before and after
LEMMA LeasesRetired ==
    ASSUME TypeOK, TypeOK', LockInv, LockInv', Advances, KeysKept, CallKept, Rests
    PROVE  Leases!Next
<1> USE ConstantsAssumption
<1>1. PICK H \in SUBSET Holders : lock' = Release(lock, H)
  BY DEF Rests
<1>2. acting' = acting /\ acting \subseteq Operations
  BY DEF Rests, TypeOK
<1> DEFINE G == {h \in H : Leases!Held(h) # {}}
           S == {o \in Operations : Phase[o] = "idle" /\ op'[o].state \notin {"absent", "prepared"}}
<1>3. \A o \in acting : Footprint(o)' = Footprint(o) /\ Holder(o)' = Holder(o)
  BY FootprintKept
<1>4. EffectsUnderLock /\ EffectsUnderLock'
  <2>1. EffectsUnderLock
    BY LockInvSuffices
  <2>2. (TypeOK /\ LockInv => EffectsUnderLock)'
    BY LockInvSuffices, PTL
  <2> QED  BY <2>1, <2>2
<1>5. G \in SUBSET Leases!Free
  <2> SUFFICES ASSUME NEW h \in H, Leases!Held(h) # {}, NEW k \in Leases!Held(h), k \in Leases!Needed
               PROVE  FALSE
    BY DEF Leases!Free, Holders
  <2>1. k \in Keys /\ lock[k] = h
    BY DEF Leases!Held
  <2>2. PICK o \in Operations : k \in Needs[o]
    BY DEF Leases!Needed
  <2>3. o \in acting /\ k \in Footprint(o)
    BY <2>2, NeedsIs
  <2>4. lock'[k] = Holder(o)
    BY <1>2, <1>3, <1>4, <2>3 DEF EffectsUnderLock
  <2>5. lock'[k] = Nobody
    BY <1>1, <2>1 DEF Release
  <2>6. Holder(o) \in Executions \cup Operations
    BY <2>3, <1>2 DEF Holder
  <2> QED  BY <2>4, <2>5, <2>6
<1>6. S \in SUBSET Leases!Idle
  BY DEF Leases!Idle
<1>7. lock' = [k \in Keys |-> IF lock[k] \in G THEN Nobody ELSE lock[k]]
  <2>1. \A k \in Keys : lock[k] \in H <=> lock[k] \in G
    BY DEF Leases!Held
  <2> HIDE DEF G
  <2> QED  BY <1>1, <2>1 DEF Release
<1>8. Phase' = [o \in Operations |-> IF o \in S THEN "over" ELSE Phase[o]]
  <2>1. ASSUME NEW o \in Operations PROVE Phase'[o] = IF o \in S THEN "over" ELSE Phase[o]
    <3>1. Phase'[o] = IF o \in acting THEN "running"
                      ELSE IF op'[o].state \in {"absent", "prepared"} THEN "idle" ELSE "over"
      BY <1>2 DEF Phase
    <3>2. op[o].state \notin {"absent", "prepared"} => op'[o].state \notin {"absent", "prepared"}
      BY LateSteps
    <3> QED  BY <3>1, <3>2, PhaseIs
  <2>2. Phase' = [o \in Operations |-> Phase'[o]]
    BY DEF Phase
  <2> HIDE DEF S
  <2> QED  BY <2>1, <2>2
<1>9. Needs' = Needs
  BY <1>2, <1>3 DEF Needs
<1> HIDE DEF G, S
<1>10. Leases!Retire(G, S)
  BY <1>7, <1>8, <1>9 DEF Leases!Retire
<1> QED  BY <1>5, <1>6, <1>10 DEF Leases!Next

LEMMA LeasesClaimed ==
    ASSUME TypeOK, LockInv, KeysKept, CallKept, NEW e \in Executions, ExecutionClaim(e)
    PROVE  Leases!Next
<1>1. /\ acting' = acting /\ op' = op /\ acting \subseteq Operations
      /\ \A k \in exec[e].keys : lock[k] \in {e, Nobody}
      /\ lock' = [k \in Keys |-> IF k \in exec[e].keys THEN e ELSE lock[k]]
  BY DEF ExecutionClaim, Lockable, LockAll, TypeOK
<1>2. exec[e].keys \in SUBSET Keys /\ exec[e].leased \in BOOLEAN
  BY ExecRowFields DEF TypeOK
<1>3. Leases!Held(e) \in {{}, exec[e].keys}
  BY <1>2 DEF Leases!Held, LockInv, ExecLocks
<1>4. Phase' = Phase
  BY <1>1 DEF Phase
<1>5. Needs' = Needs
  <2>1. \A o \in acting : Footprint(o)' = Footprint(o)
    BY FootprintKept
  <2> QED  BY <1>1, <2>1 DEF Needs
<1>6. Leases!Take(e, exec[e].keys)
  BY <1>1, <1>3 DEF Leases!Take
<1>7. Leases!Lease(e, exec[e].keys)
  BY <1>4, <1>5, <1>6 DEF Leases!Lease
<1> QED  BY <1>2, <1>7 DEF Leases!Next

LEMMA LeasesBegun ==
    ASSUME TypeOK, LockInv, KeysKept, CallKept, NEW o \in Operations, OperationStart(o)
    PROVE  Leases!Next
<1> USE ConstantsAssumption
<1>0. op[o] \in OpRow /\ op \in [Operations -> OpRow]
  BY DEF TypeOK
<1>1. /\ exec' = exec /\ acting' = acting \cup {o} /\ acting \subseteq Operations
      /\ op[o].state = "prepared"
  BY DEF OperationStart, Startable, TypeOK
<1>2. /\ \A p \in Operations \ {o} : op'[p] = op[p]
      /\ op'[o].keys = op[o].keys /\ op'[o].held = op[o].held
  BY <1>0 DEF OperationStart, OpRow
<1>3. o \notin acting
  BY <1>1 DEF LockInv, ActingIsUndecided
<1>4. Footprint(o)' = Footprint(o)
  BY <1>1, <1>2 DEF Footprint
<1>5. Phase' = [Phase EXCEPT ![o] = "running"]
  BY <1>1, <1>2 DEF Phase
<1>6. Needs' = [Needs EXCEPT ![o] = Footprint(o)]
  <2>1. \A p \in acting : Footprint(p)' = Footprint(p)
    BY FootprintKept
  <2>2. \A p \in Operations : p # o => (p \in acting' <=> p \in acting)
    BY <1>1
  <2>3. ASSUME NEW p \in Operations PROVE Needs'[p] = IF p = o THEN Footprint(o) ELSE Needs[p]
    <3>1. Needs'[p] = IF p \in acting' THEN Footprint(p)' ELSE {}
      BY DEF Needs
    <3> QED  BY <1>1, <1>4, <2>1, <2>2, <3>1, NeedsIs
  <2>4. Needs' = [p \in Operations |-> Needs'[p]] /\ Needs = [p \in Operations |-> Needs[p]]
    BY DEF Needs
  <2> QED  BY <2>3, <2>4
<1>7. Phase[o] = "idle"
  BY <1>1, <1>3, PhaseIs
<1>8. Leases!Begin(o, Footprint(o))
  BY <1>5, <1>6, <1>7 DEF Leases!Begin
<1>9. CASE op[o].held
  <2>1. lock' = lock /\ heldKeys(ExecOf[o]) = exec[ExecOf[o]].keys
    BY <1>9 DEF OperationStart, Startable
  <2>2. Leases!Held(ExecOf[o]) = Footprint(o)
    BY <1>9, <2>1 DEF Leases!Held, heldKeys, Footprint
  <2>3. Leases!BeginUnderLease(o)
    BY <1>8, <2>1, <2>2 DEF Leases!BeginUnderLease
  <2> QED  BY <2>3 DEF Leases!Next
<1>10. CASE ~op[o].held
  <2>1. /\ \A k \in op[o].keys : lock[k] \in {o, Nobody}
        /\ lock' = [k \in Keys |-> IF k \in op[o].keys THEN o ELSE lock[k]]
    BY <1>10 DEF OperationStart, Startable, Lockable, LockAll
  <2>2. Footprint(o) = op[o].keys /\ op[o].keys \in SUBSET Keys
    BY <1>0, <1>10, OpRowFields DEF Footprint
  <2>3. Leases!Held(o) = {}
    BY <1>1 DEF Leases!Held, LockInv, OpLocks, Guarding
  <2>4. Leases!Take(o, op[o].keys)
    BY <2>1, <2>3 DEF Leases!Take
  <2>5. Leases!BeginAlone(o, op[o].keys)
    BY <1>8, <2>2, <2>4 DEF Leases!BeginAlone
  <2> QED  BY <2>2, <2>5 DEF Leases!Next
<1> QED  BY <1>9, <1>10

LEMMA LeasesEnded ==
    ASSUME TypeOK, LockInv, NEW o \in Operations, EffectEnd(o) PROVE Leases!Next
<1>1. /\ o \in acting /\ acting' = acting \ {o} /\ UNCHANGED <<exec, op, lock>>
      /\ acting \subseteq Operations
  BY DEF EffectEnd, TypeOK
<1>2. op[o].state \notin {"absent", "prepared"}
  BY <1>1 DEF LockInv, ActingIsUndecided
<1>3. Phase' = [Phase EXCEPT ![o] = "over"]
  BY <1>1, <1>2 DEF Phase
<1>4. Needs' = [Needs EXCEPT ![o] = {}]
  BY <1>1 DEF Needs, Footprint
<1>5. Phase[o] = "running"
  BY <1>1, PhaseIs
<1>6. Leases!End(o)
  BY <1>1, <1>3, <1>4, <1>5 DEF Leases!End
<1> QED  BY <1>6 DEF Leases!Next

\* Whatever the commands and crashes, executions get all keys they ask for or none, an
\* effect is started once and under keys that cover it, and those stay locked until it
\* is over: the lock table implements a table of leases.
THEOREM LedgerImplementsLeases == Spec => ImplementsLeases
<1>1. TypeOK /\ TypeOK' /\ LockInv /\ LockInv' /\ [Next]_vars
        => [Leases!Next]_(Leases!vars)
  <2> SUFFICES ASSUME TypeOK, TypeOK', LockInv, LockInv', [Next]_vars PROVE Leases!Next
    OBVIOUS
  <2>1. KeysKept /\ CallKept /\ Advances
    BY LockSteps, AdvancesNext
  <2> QED  BY <2>1, LockSteps, LeasesRetired, LeasesClaimed, LeasesBegun, LeasesEnded
<1> QED
  BY <1>1, LeasesInit, TypeCorrect, LocksCorrect, PTL DEF Spec, ImplementsLeases, Leases!Spec
=============================================================================
