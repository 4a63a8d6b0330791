---------------------------- MODULE MCTaskLedger ----------------------------
(* Instances of TaskLedger for TLC: one task, one or two executions, each    *)
(* with at most one operation.                                               *)
EXTENDS TaskLedger

CONSTANTS t1, e1, e2, o1, o2, k1, k2

MCTaskOf == [e \in Executions |-> t1]
MCExecOf == [o \in Operations |-> IF o = o1 THEN e1 ELSE e2]

\* every holder may ask for one key or for nothing
AnyKeys == [h \in Executions \cup Operations |-> {{}, {k1}}]

\* the first execution needs the key, its operation and the second one do not
WriterAndReader == [h \in Executions \cup Operations |-> IF h = e1 THEN {{k1}} ELSE {{}}]

\* both executions need both keys
BothKeys == [h \in Executions \cup Operations |-> {{k1, k2}}]

-----------------------------------------------------------------------------
(* A task that was cancelled, then reopened, over an unknown operation.  Its *)
(* execution was interrupted by a restart and is not drained yet, or it is   *)
(* over, whether the operation was interrupted or returned an error.         *)

ReopenedTask == [NewTask EXCEPT !.status = "active", !.req = 2, !.ctl = 3, !.lease = 1, !.gate = {o1}]

Interruption == [NewExec EXCEPT !.req = 1, !.ctl = 1, !.input = 1, !.lease = 1, !.keys = {k1},
                                !.leased = TRUE, !.cancelReq = TRUE, !.status = "running",
                                !.drained = FALSE, !.recovering = TRUE]
Finished == [Interruption EXCEPT !.status = "cancelled", !.drained = TRUE, !.recovering = FALSE]
Failed == [Finished EXCEPT !.status = "failed", !.result = "error", !.current = TRUE, !.cancelReq = FALSE]

UnknownOp(restart) == [NewOp EXCEPT !.state = "unknown", !.req = 1, !.ctl = 1, !.lease = 1,
                                    !.held = TRUE, !.restart = restart]

ReopenedInit ==
    /\ task = [t \in Tasks |-> ReopenedTask]
    /\ owner = [t \in Tasks |-> NoTurn("none")]
    /\ \E first \in {<<Interruption, TRUE, {}>>, <<Finished, TRUE, {}>>,
                     <<Failed, FALSE, {Wake(t1, "result", e1, 1)}>>} :
          /\ exec = [e \in Executions |-> IF e = e1 THEN first[1] ELSE NewExec]
          /\ op = [o \in Operations |-> IF o = o1 THEN UnknownOp(first[2]) ELSE NewOp]
          /\ wake = {Note(t1)} \cup first[3]
    /\ run = [e \in Executions |-> "none"]
    /\ acting \in {{}, {o1}}
    /\ lock = [k \in Keys |-> e1]
    /\ seen = [e \in Executions |-> "no"]
    /\ crashes = 1

-----------------------------------------------------------------------------
(* Five cases share a run.  Each needs large bounds for its own part and     *)
(* small ones for the others': a behaviour goes on within one of them.       *)

Unused(e) == exec[e] = NewExec
Wants(e, k) == Unused(e) \/ exec[e].keys = {k}
OnlyWriter == Wants(e1, k1) /\ exec[e2].keys = {} /\ \A o \in Operations : op[o].keys = {}
Undisturbed == task[t1].req <= 1 /\ task[t1].ctl <= 1 /\ task[t1].ctx = 0 /\ task[t1].control = "active"
Silent == \A e \in Executions : exec[e].unread = {}
Drains == owner[t1].phase # "lost" /\ \A e \in Executions : run[e] # "orphan"
Pair == ~task[t1].question /\ ~exec[e2].cancelReq /\ (Unused(e1) => Unused(e2))
Once == task[t1].lease <= 1 /\ \A e \in Executions : exec[e].lease <= 1 /\ exec[e].input <= 1

\* two executions, one with an operation, that compete for the key
Contenders == crashes = 0 /\ Once /\ Pair /\ Wants(e2, k1) /\ exec[e2].readback = Nobody

\* a writer and its operation, run again with the next input or after a crash
Reruns == /\ Unused(e2) /\ Wants(e1, k1) /\ (op[o1] = NewOp \/ op[o1].keys = {k1})
          /\ task[t1].lease <= 2 /\ ~task[t1].question
          /\ (crashes = 0 \/ exec[e1].input <= 1)

\* two executions that exchange feedback, with sessions that fail to drain
Peers == /\ Undisturbed /\ Pair /\ op[o1] = NewOp /\ exec[e2].unread = {}
         /\ task[t1].lease <= 2 /\ \A e \in Executions : exec[e].lease <= 1 /\ exec[e].input <= 1

\* one execution and its operation in all of a task's life; a second turn where there is
\* no feedback or supplement, and no question beside two other events
Life == LET events == task[t1].req + task[t1].ctl + task[t1].ctx - 2 IN
        /\ Unused(e2) /\ Drains /\ events <= 2
        /\ exec[e1].lease <= 1 /\ exec[e1].input <= 1
        /\ \/ task[t1].lease <= 1
           \/ task[t1].lease = 2 /\ Silent /\ task[t1].ctx = 0 /\ (Pair \/ events <= 1)

\* the audit of what a restart left, in a task that was reopened over it
Audits == /\ crashes = 1 /\ task[t1].ctl = 3 /\ task[t1].ctx = 0 /\ task[t1].control = "active"
          /\ OnlyWriter /\ Silent /\ Drains
          /\ task[t1].lease <= 2 /\ \A e \in Executions : exec[e].input <= 1

Within ==
    \/ /\ op[o2] = NewOp
       /\ \/ Undisturbed /\ Silent /\ Drains /\ (Contenders \/ Reruns)
          \/ crashes = 0 /\ OnlyWriter /\ task[t1].req <= 2 /\ task[t1].ctl <= 2 /\ (Peers \/ Life)
    \/ Audits

SafetySpec == (Init \/ ReopenedInit) /\ [][Next]_vars

=============================================================================
