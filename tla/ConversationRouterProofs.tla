----------------------- MODULE ConversationRouterProofs -----------------------
(* Proofs about ConversationRouter, for any messages, facts, arrangements,     *)
(* faults and bounds.                                                          *)
EXTENDS ConversationRouter, FiniteSetTheorems, TLAPS

-----------------------------------------------------------------------------
(* Numbering: operations and decisions are numbered on without gaps, so that   *)
(* their count is the last number in use.                                      *)

OpsInOrder == \E k \in 0 .. MaxOps : \A o \in Ops : op[o].status # "absent" <=> o <= k

DecisionsInOrder ==
    \E k \in 0 .. MaxDecisions : \A d \in 1 .. MaxDecisions : decision[d] # {} <=> d <= k

LEMMA CountInitial ==
    ASSUME NEW n \in Nat, NEW k \in 0 .. n, NEW P, P = 1 .. k
    PROVE  Cardinality(P) = k
BY FS_Interval

LEMMA DecidedIsLast ==
    ASSUME OpsInOrder
    PROVE  Decided \in 0 .. MaxOps /\ \A o \in Ops : op[o].status # "absent" <=> o <= Decided
<1>1. PICK k \in 0 .. MaxOps : \A o \in Ops : op[o].status # "absent" <=> o <= k
  BY DEF OpsInOrder
<1>2. {o \in Ops : op[o].status # "absent"} = 1 .. k
  BY <1>1, RouterAssumption DEF Ops
<1>3. Decided = k
  BY <1>2, CountInitial, RouterAssumption DEF Decided
<1> QED  BY <1>1, <1>3

LEMMA NextDecisionIsFree ==
    ASSUME DecisionsInOrder
    PROVE  /\ NextDecision \in 1 .. MaxDecisions + 1
           /\ \A d \in 1 .. MaxDecisions : decision[d] # {} <=> d < NextDecision
<1>1. PICK k \in 0 .. MaxDecisions : \A d \in 1 .. MaxDecisions : decision[d] # {} <=> d <= k
  BY DEF DecisionsInOrder
<1>2. Decisions = 1 .. k
  BY <1>1, RouterAssumption DEF Decisions
<1>3. NextDecision = k + 1
  BY <1>2, CountInitial, RouterAssumption DEF NextDecision
<1> QED  BY <1>1, <1>3, RouterAssumption

-----------------------------------------------------------------------------
(* Type correctness.  An arrangement is revised once per rejected operation,   *)
(* so its revision stays within the operations there are.                      *)

Rejections == {o \in Ops : op[o].status = "rejected"}

Revised == \A a \in Arrangements : arr[a].rev <= Cardinality(Rejections)

\* the operation whose outcome is to be recorded is pending
AtWork ==
    /\ At("record") \/ At("reject") => router.op \in Ops /\ op[router.op].status = "pending"
    /\ At("claimed") \/ At("running") => active # {}

TypeInv == TypeOK /\ OpsInOrder /\ DecisionsInOrder /\ Revised /\ AtWork

LEMMA RecordType ==
    ASSUME TypeOK, NEW keys \in SUBSET FailureKeys, RecordFailure(keys)
    PROVE  failed' \subseteq FailureKeys /\ retrying' \subseteq FailureKeys
BY DEF TypeOK, RecordFailure

LEMMA ResolveType ==
    ASSUME TypeOK, NEW keys, ResolveFailure(keys)
    PROVE  failed' \subseteq FailureKeys /\ retrying' \subseteq FailureKeys
BY DEF TypeOK, ResolveFailure

LEMMA FailureTypes ==
    ASSUME NEW S \in SUBSET Sources
    PROVE  /\ \A phase \in {"triage", "reply", "turn"} : Failures(phase, 0, S) \in SUBSET FailureKeys
           /\ \A o \in Ops : Failures("apply", o, S) \in SUBSET FailureKeys
BY DEF Failures, FailureKeys

LEMMA GotoType ==
    ASSUME TypeOK, NEW pc \in {"idle", "apply", "record", "reject", "triage", "loop", "claimed", "running"},
           Goto(pc)
    PROVE  router' \in RouterRow /\ router'.pc = pc /\ router'.op = router.op
BY DEF TypeOK, RouterRow, Goto

LEMMA HostDiesType ==
    ASSUME TypeOK, HostDies
    PROVE  router' \in RouterRow /\ router'.pc = "idle" /\ crashes' \in 0 .. MaxCrashes
<1>1. router' \in RouterRow /\ router'.pc = "idle"
  BY RouterAssumption DEF HostDies, Idle, RouterRow
<1>2. crashes' \in 0 .. MaxCrashes
  BY RouterAssumption DEF HostDies, TypeOK
<1> QED  BY <1>1, <1>2

LEMMA UnrecordedType ==
    ASSUME TypeOK, NEW keys \in SUBSET FailureKeys, Unrecorded(keys)
    PROVE  /\ failed' \subseteq FailureKeys /\ retrying' \subseteq FailureKeys
           /\ router' \in RouterRow /\ router'.pc = "idle"
           /\ crashes' \in 0 .. MaxCrashes
<1>1. CASE Throw(keys) /\ UNCHANGED crashes
  BY <1>1, RecordType, GotoType DEF Throw, TypeOK
<1>2. CASE HostDies /\ UNCHANGED failures
  BY <1>2, HostDiesType DEF failures, TypeOK
<1> QED  BY <1>1, <1>2 DEF Unrecorded

\* a reply leaves the pass where it is or ends it
LEMMA ReplyEnds ==
    ASSUME TypeOK
    PROVE  /\ \A s \in Sources : TriageReply(s) => router' = router \/ router'.pc = "idle"
           /\ \A o \in Ops : ApplyReply(o) => router' = router \/ router'.pc = "idle"
<1>1. \A keys : Throw(keys) => router'.pc = "idle"
  BY GotoType DEF Throw
<1>2. \A keys : Unrecorded(keys) => router'.pc = "idle"
  BY <1>1, HostDiesType DEF Unrecorded
<1> QED  BY <1>1, <1>2 DEF TriageReply, ApplyReply

\* what the steps write into the rows stays in their types
LEMMA RowWrites ==
    /\ \A r \in [version : 0 .. MaxVersion, own : {"no", "evident", "retired"}] :
          /\ r.version < MaxVersion =>
                [r EXCEPT !.version = @ + 1] \in [version : 0 .. MaxVersion, own : {"no", "evident", "retired"}]
          /\ \A own \in {"evident", "retired"} :
                [r EXCEPT !.own = own] \in [version : 0 .. MaxVersion, own : {"no", "evident", "retired"}]
    /\ \A r \in [recorded : BOOLEAN, retired : BOOLEAN, routed : {"no", "done", "superseded"}] :
          /\ [r EXCEPT !.recorded = TRUE] \in
                [recorded : BOOLEAN, retired : BOOLEAN, routed : {"no", "done", "superseded"}]
          /\ [r EXCEPT !.retired = TRUE] \in
                [recorded : BOOLEAN, retired : BOOLEAN, routed : {"no", "done", "superseded"}]
          /\ \A routed \in {"done", "superseded"} : [r EXCEPT !.routed = routed] \in
                [recorded : BOOLEAN, retired : BOOLEAN, routed : {"no", "done", "superseded"}]
    /\ \A r \in [verdict : {"none", "silent", "process"}, reply : {"none", "pending", "applied"}] :
          [r EXCEPT !.reply = "applied"] \in
             [verdict : {"none", "silent", "process"}, reply : {"none", "pending", "applied"}]
    /\ \A r \in [version : 1 .. MaxPrereq, settled : BOOLEAN] :
          [r EXCEPT !.settled = TRUE] \in [version : 1 .. MaxPrereq, settled : BOOLEAN]
<1>1. \A r \in [version : 0 .. MaxVersion, own : {"no", "evident", "retired"}] :
         r.version < MaxVersion => r.version + 1 \in 0 .. MaxVersion
  BY RouterAssumption
<1> QED  BY <1>1

LEMMA RouterWrites ==
    ASSUME NEW r \in RouterRow,
           NEW pc \in {"idle", "apply", "record", "reject", "triage", "loop", "claimed", "running"},
           NEW o \in 0 .. MaxOps
    PROVE  /\ [r EXCEPT !.pc = pc, !.op = o] \in RouterRow
           /\ [r EXCEPT !.pc = pc, !.op = o].op = o /\ [r EXCEPT !.pc = pc, !.op = o].pc = pc
BY DEF RouterRow

LEMMA OpRefs ==
    ASSUME TypeOK, NEW o \in Ops
    PROVE  op[o] \in OpRow /\ op[o].refs \subseteq Sources
BY DEF TypeOK, OpRow

LEMMA OpFields ==
    ASSUME TypeOK, NEW o \in Ops
    PROVE  /\ op[o] \in OpRow
           /\ op[o].refs \in SUBSET Sources
           /\ OpFailures(o) \in SUBSET FailureKeys
           /\ \A st \in {"applied", "rejected"} :
                 /\ [op EXCEPT ![o].status = st] \in [Ops -> OpRow]
                 /\ \A p \in Ops : /\ p # o => [op EXCEPT ![o].status = st][p] = op[p]
                                   /\ [op EXCEPT ![o].status = st][o] = [op[o] EXCEPT !.status = st]
                                   /\ [op EXCEPT ![o].status = st][o].status = st
<1>1. op[o] \in OpRow
  BY DEF TypeOK
<1>2. op[o].refs \in SUBSET Sources
  BY <1>1 DEF OpRow
<1>3. \A st \in {"applied", "rejected"} : [op[o] EXCEPT !.status = st] \in OpRow
  BY <1>1 DEF OpRow
<1>4. \A st \in {"applied", "rejected"} : [op[o] EXCEPT !.status = st].status = st
  BY <1>1 DEF OpRow
<1>5. OpFailures(o) \in SUBSET FailureKeys
  BY <1>2, FailureTypes DEF OpFailures
<1> QED  BY <1>1, <1>2, <1>3, <1>4, <1>5 DEF TypeOK

LEMMA RejectionsFinite ==
    IsFiniteSet(Rejections) /\ Cardinality(Rejections) \in Nat /\ Cardinality(Rejections) <= MaxOps
<1>1. IsFiniteSet(Ops) /\ Cardinality(Ops) = MaxOps
  BY FS_Interval, RouterAssumption DEF Ops
<1>2. Rejections \in SUBSET Ops
  BY DEF Rejections
<1> QED  BY <1>1, <1>2, FS_Subset, FS_CardinalityType

LEMMA ExposedType ==
    ASSUME TypeOK
    PROVE  Exposed \subseteq Sources /\ \A i \in active : Admitted(i) \subseteq Sources
<1>1. ASSUME NEW i \in Inputs PROVE Admitted(i) \subseteq Sources
  <2>1. CASE \E s \in Sources : i = SourceInput(s)
    BY <2>1 DEF SourceInput, Admitted
  <2>2. CASE \E f \in Facts : i = FactInput(f)
    BY <2>2 DEF FactInput, Admitted
  <2>3. CASE \E o \in Ops : i = RetryInput(o)
    <3>1. PICK o \in Ops : i = RetryInput(o)
      BY <2>3
    <3>2. Admitted(i) = op[o].refs
      BY <3>1 DEF RetryInput, Admitted
    <3> QED  BY <3>2, OpRefs
  <2>4. CASE \E a \in Arrangements, w \in Wakes : i = DependencyInput(a, w)
    BY <2>4 DEF DependencyInput, Admitted, TypeOK, ArrRow
  <2> QED  BY <2>1, <2>2, <2>3, <2>4 DEF Inputs
<1>2. ASSUME NEW i \in Inputs, i[1] = "fact" PROVE fact[i[2]].refs \subseteq Sources
  <2>1. \E f \in Facts : i = FactInput(f)
    BY <1>2 DEF Inputs, SourceInput, FactInput, RetryInput, DependencyInput
  <2> QED  BY <2>1 DEF FactInput, TypeOK
<1> QED  BY <1>1, <1>2 DEF Exposed, TypeOK

-----------------------------------------------------------------------------
(* What a commit does to the operations and the arrangements.                  *)

NewOps(n) == {o \in Ops : Decided < o /\ o <= Decided + n}

Kept(o) ==
    /\ op'[o].status = op[o].status /\ op'[o].kind = op[o].kind /\ op'[o].refs = op[o].refs
    /\ op'[o].dec = op[o].dec /\ op'[o].arr = op[o].arr

Opened(o) ==
    /\ op'[o].status = "pending" /\ op'[o].dec = NextDecision
    /\ op'[o].arr # None =>
          /\ arr[op'[o].arr].status = "waiting"
          /\ arr'[op'[o].arr].status = "accepted" /\ arr'[op'[o].arr].op = o

LEMMA CommitOps ==
    ASSUME TypeInv, NEW n \in 0 .. BatchOps, NextDecision <= MaxDecisions,
           NEW new \in [1 .. n -> {p \in Proposals : Proposable(p)}], Adopt(n, new)
    PROVE  /\ op' \in [Ops -> OpRow]
           /\ Decided \in 0 .. MaxOps /\ n \in Nat /\ Decided + n <= MaxOps
           /\ \A o \in Ops \ NewOps(n) : Kept(o)
           /\ \A o \in NewOps(n) : /\ o - Decided \in 1 .. n
                                   /\ op'[o].status = "pending" /\ op'[o].dec = NextDecision
                                   /\ op'[o].arr = new[o - Decided].arr
<1> USE RouterAssumption
<1>1. Decided \in 0 .. MaxOps /\ n \in Nat /\ Decided + n <= MaxOps
  BY DecidedIsLast DEF TypeInv, BatchOps
<1>2. NextDecision \in 1 .. MaxDecisions
  BY NextDecisionIsFree DEF TypeInv
<1>3. ASSUME NEW o \in Ops, o \notin NewOps(n)
      PROVE  op'[o] \in OpRow /\ Kept(o)
  <2>1. op[o] \in OpRow
    BY DEF TypeInv, TypeOK
  <2>2. CASE \E j \in 1 .. n : new[j].retryOf = o
    <3>1. PICK j \in 1 .. n : j = CHOOSE k \in 1 .. n : new[k].retryOf = o
      BY <2>2
    <3>2. op'[o] = [op[o] EXCEPT !.retriedBy = Decided + j]
      BY <1>1, <1>3, <2>2, <3>1 DEF Adopt, NewOps, Ops
    <3>3. Decided + j \in 0 .. MaxOps
      BY <1>1
    <3> QED  BY <2>1, <3>2, <3>3 DEF OpRow, Kept
  <2>3. CASE ~\E j \in 1 .. n : new[j].retryOf = o
    <3>1. op'[o] = op[o]
      BY <1>1, <1>3, <2>3 DEF Adopt, NewOps, Ops
    <3> QED  BY <2>1, <3>1 DEF Kept
  <2> QED  BY <2>2, <2>3
<1>4. ASSUME NEW o \in NewOps(n)
      PROVE  /\ op'[o] \in OpRow /\ o - Decided \in 1 .. n
             /\ op'[o].status = "pending" /\ op'[o].dec = NextDecision
             /\ op'[o].arr = new[o - Decided].arr
  <2>1. o \in Ops /\ o - Decided \in 1 .. n /\ o \in Decided + 1 .. Decided + n
    BY <1>1 DEF NewOps, Ops
  <2>2. PICK p \in Proposals : p = new[o - Decided]
    BY <2>1
  <2>3. op'[o] = [status |-> "pending", kind |-> p.kind, refs |-> p.refs, dec |-> NextDecision,
                  arr |-> p.arr, dep |-> p.dep, retryOf |-> p.retryOf, retriedBy |-> 0]
    BY <2>1, <2>2 DEF Adopt
  <2>4. /\ p.kind \in {"task", "reply"} /\ p.refs \in SUBSET Exposed /\ p.arr \in Arrangements \cup {None}
        /\ p.dep \in {0, prereq.version} /\ p.retryOf \in 0 .. MaxOps
    BY DEF Proposals
  <2>5. p.refs \in SUBSET Sources /\ p.dep \in 0 .. MaxPrereq
    BY <2>4, ExposedType DEF TypeInv, TypeOK
  <2>6. op'[o] \in OpRow
    BY <1>2, <2>3, <2>4, <2>5 DEF OpRow
  <2> QED  BY <2>1, <2>2, <2>3, <2>6
<1>5. op' \in [Ops -> OpRow]
  <2>1. \A o \in Ops : op'[o] \in OpRow
    BY <1>3, <1>4
  <2> QED  BY <2>1 DEF Adopt
<1> QED  BY <1>1, <1>3, <1>4, <1>5

\* an arrangement is left as it is, added, or taken up by one new operation
Untaken(a, n) == arr'[a] = arr[a] /\ \A o \in NewOps(n) : op'[o].arr # a

Added(a, refs) == arr[a].status = "none" /\ arr'[a] = [NoArr EXCEPT !.status = "waiting", !.refs = refs]

TakenUp(a) ==
    /\ arr[a].status = "waiting" /\ arr'[a].status = "accepted"
    /\ arr'[a].woken = arr[a].woken /\ arr'[a].rev = arr[a].rev

LEMMA CommitArrs ==
    ASSUME TypeInv, NEW n \in 0 .. BatchOps, NextDecision <= MaxDecisions,
           NEW new \in [1 .. n -> {p \in Proposals : Proposable(p)}], Answers(new), Adopt(n, new),
           NEW added \in Arrangements \cup {None}, NEW refs \in SUBSET Exposed,
           Arrange(n, new, added, refs)
    PROVE  /\ arr' \in [Arrangements -> ArrRow]
           /\ \A o \in NewOps(n) : Opened(o)
           /\ \A a \in Arrangements : Untaken(a, n) \/ Added(a, refs) \/ TakenUp(a)
<1> USE RouterAssumption
<1>1. /\ Decided \in 0 .. MaxOps /\ n \in Nat /\ Decided + n <= MaxOps
      /\ \A o \in NewOps(n) : /\ o - Decided \in 1 .. n
                              /\ op'[o].status = "pending" /\ op'[o].dec = NextDecision
                              /\ op'[o].arr = new[o - Decided].arr
  BY CommitOps
<1>2. ASSUME NEW j \in 1 .. n, new[j].arr # None
      PROVE  new[j].arr \in Arrangements /\ arr[new[j].arr].status = "waiting"
  <2>1. new[j] \in Proposals /\ Proposable(new[j])
    OBVIOUS
  <2> QED  BY <1>2, <2>1 DEF Proposals, Proposable, Available
<1>3. ASSUME NEW j \in 1 .. n, NEW k \in 1 .. n, new[j].arr # None, new[k].arr = new[j].arr
      PROVE  j = k
  BY <1>3 DEF Answers
<1>4. added # None => arr[added].status = "none"
  BY DEF Arrange
<1>5. ASSUME NEW a \in Arrangements, NEW j \in 1 .. n, new[j].arr = a
      PROVE  /\ arr[a].status = "waiting" /\ a # added /\ Decided + j \in 0 .. MaxOps
             /\ arr'[a] = [arr[a] EXCEPT !.status = "accepted", !.op = Decided + j]
  <2>1. arr[a].status = "waiting"
    BY <1>2, <1>5
  <2>2. a # added
    BY <1>4, <2>1
  <2>3. j = CHOOSE k \in 1 .. n : new[k].arr = a
    BY <1>3, <1>5
  <2>4. arr'[a] = [arr[a] EXCEPT !.status = "accepted", !.op = Decided + j]
    BY <1>5, <2>2, <2>3 DEF Arrange
  <2> QED  BY <1>1, <2>1, <2>2, <2>4
<1>6. ASSUME NEW a \in Arrangements
      PROVE  /\ arr'[a] \in ArrRow
             /\ Untaken(a, n) \/ Added(a, refs) \/ TakenUp(a)
  <2>1. arr[a] \in ArrRow
    BY DEF TypeInv, TypeOK
  <2>2. CASE \E j \in 1 .. n : new[j].arr = a
    <3>1. PICK j \in 1 .. n : new[j].arr = a
      BY <2>2
    <3>2. /\ arr[a].status = "waiting" /\ Decided + j \in 0 .. MaxOps
          /\ arr'[a] = [arr[a] EXCEPT !.status = "accepted", !.op = Decided + j]
      BY <1>5, <3>1
    <3> QED  BY <2>1, <3>2 DEF ArrRow, TakenUp
  <2>3. CASE a = added /\ ~\E j \in 1 .. n : new[j].arr = a
    <3>1. arr'[a] = [NoArr EXCEPT !.status = "waiting", !.refs = refs]
      BY <2>3 DEF Arrange
    <3>2. refs \in SUBSET Sources
      BY ExposedType DEF TypeInv
    <3>3. arr'[a] = [status |-> "waiting", refs |-> refs, rev |-> 0, op |-> 0, woken |-> {}]
      BY <3>1 DEF NoArr
    <3>4. arr'[a] \in ArrRow
      BY <3>2, <3>3 DEF ArrRow
    <3> QED  BY <1>4, <2>3, <3>1, <3>4 DEF Added
  <2>4. CASE a # added /\ ~\E j \in 1 .. n : new[j].arr = a
    BY <1>1, <2>1, <2>4, ZenonT(30) DEF Arrange, Untaken
  <2> QED  BY <2>2, <2>3, <2>4
<1>7. ASSUME NEW o \in NewOps(n) PROVE Opened(o)
  <2>1. o - Decided \in 1 .. n /\ op'[o].arr = new[o - Decided].arr /\ Decided + (o - Decided) = o
    BY <1>1 DEF NewOps, Ops
  <2>2. CASE op'[o].arr = None
    BY <1>1, <2>2 DEF Opened
  <2>3. CASE op'[o].arr # None
    <3>1. op'[o].arr \in Arrangements
      BY <1>2, <2>1, <2>3
    <3>2. PICK j \in 1 .. n : j = o - Decided
      BY <2>1
    <3>4. PICK a \in Arrangements : a = op'[o].arr
      BY <3>1
    <3>5. arr[a].status = "waiting" /\ arr'[a] = [arr[a] EXCEPT !.status = "accepted", !.op = Decided + j]
      BY <1>5, <2>1, <3>2, <3>4
    <3>6. Decided + j = o
      BY <2>1, <3>2
    <3>3. arr[a] \in ArrRow
      BY DEF TypeInv, TypeOK
    <3> QED  BY <1>1, <3>3, <3>4, <3>5, <3>6 DEF Opened, ArrRow
  <2> QED  BY <2>2, <2>3
<1>8. arr' \in [Arrangements -> ArrRow]
  BY <1>6 DEF Arrange
<1> QED  BY <1>6, <1>7, <1>8

-----------------------------------------------------------------------------
LEMMA TypeInit == Init => TypeInv
<1> SUFFICES ASSUME Init PROVE TypeInv
  OBVIOUS
<1> USE RouterAssumption
<1>1. TypeOK
  BY DEF Init, TypeOK, OpRow, NoOp, ArrRow, NoArr, RouterRow, Idle, Ops
<1>2. OpsInOrder
  <2>1. \A o \in Ops : op[o].status # "absent" <=> o <= 0
    BY DEF Init, NoOp, Ops
  <2> QED  BY <2>1 DEF OpsInOrder
<1>3. DecisionsInOrder
  <2>1. \A d \in 1 .. MaxDecisions : decision[d] # {} <=> d <= 0
    BY DEF Init
  <2> QED  BY <2>1 DEF DecisionsInOrder
<1>4. Revised
  BY RejectionsFinite DEF Init, NoArr, Revised
<1>5. AtWork
  BY DEF Init, Idle, At, AtWork
<1> QED  BY <1>1, <1>2, <1>3, <1>4, <1>5 DEF TypeInv

LEMMA TypeStep == TypeInv /\ [Next]_vars => TypeOK'
<1> SUFFICES ASSUME TypeInv, [Next]_vars PROVE TypeOK'
  OBVIOUS
<1> USE RouterAssumption
<1>a. TypeOK
  BY DEF TypeInv
<1>0. CASE UNCHANGED vars
  BY <1>a, <1>0 DEF vars, batches, failures, TypeOK
<1>1. ASSUME NEW m \in Messages, Ingest(m) \/ OwnEvidence(m) \/ RetireMessage(m) PROVE TypeOK'
  <2>1. message[m] \in [version : 0 .. MaxVersion, own : {"no", "evident", "retired"}]
    BY <1>a DEF TypeOK
  <2>2. CASE Ingest(m)
    <3>1. message' \in [Messages -> [version : 0 .. MaxVersion, own : {"no", "evident", "retired"}]]
      BY <1>a, <2>1, <2>2, RowWrites DEF Ingest, TypeOK
    <3> QED  BY <1>a, <2>2, <3>1 DEF Ingest, batches, failures, TypeOK
  <2>3. CASE OwnEvidence(m)
    <3>1. message' \in [Messages -> [version : 0 .. MaxVersion, own : {"no", "evident", "retired"}]]
      BY <1>a, <2>1, <2>3, RowWrites DEF OwnEvidence, TypeOK
    <3> QED  BY <1>a, <2>3, <3>1 DEF OwnEvidence, batches, failures, TypeOK
  <2>4. CASE RetireMessage(m)
    <3>1. message' \in [Messages -> [version : 0 .. MaxVersion, own : {"no", "evident", "retired"}]]
      BY <1>a, <2>1, <2>4, RowWrites DEF RetireMessage, TypeOK
    <3> QED  BY <1>a, <2>4, <3>1 DEF RetireMessage, batches, failures, TypeOK
  <2> QED  BY <1>1, <2>2, <2>3, <2>4
<1>2. ASSUME NEW s \in Sources, RecordSource(s) \/ RetireSource(s) PROVE TypeOK'
  <2>0. source[s] \in [recorded : BOOLEAN, retired : BOOLEAN, routed : {"no", "done", "superseded"}]
    BY <1>a DEF TypeOK
  <2>1. source' \in [Sources -> [recorded : BOOLEAN, retired : BOOLEAN, routed : {"no", "done", "superseded"}]]
    <3>1. [source[s] EXCEPT !.recorded = TRUE] \in [recorded : BOOLEAN, retired : BOOLEAN, routed : {"no", "done", "superseded"}]
      BY <2>0, RowWrites
    <3>2. [source[s] EXCEPT !.retired = TRUE] \in [recorded : BOOLEAN, retired : BOOLEAN, routed : {"no", "done", "superseded"}]
      BY <2>0, RowWrites
    <3> QED  BY <1>a, <1>2, <3>1, <3>2, ZenonT(30) DEF RecordSource, RetireSource, TypeOK
  <2> QED  BY <1>a, <1>2, <2>1 DEF RecordSource, RetireSource, batches, failures, TypeOK
<1>3. CASE PrereqSettles \/ PrereqChanges
  <2>1. prereq' \in [version : 1 .. MaxPrereq, settled : BOOLEAN]
    <3>1. prereq \in [version : 1 .. MaxPrereq, settled : BOOLEAN]
      BY <1>a DEF TypeOK
    <3>2. CASE PrereqSettles
      BY <3>1, <3>2, RowWrites DEF PrereqSettles
    <3>3. CASE PrereqChanges
      <4>1. prereq.version + 1 \in 1 .. MaxPrereq
        BY <3>1, <3>3 DEF PrereqChanges
      <4> QED  BY <3>3, <4>1 DEF PrereqChanges
    <3> QED  BY <1>3, <3>2, <3>3
  <2> QED  BY <1>a, <1>3, <2>1 DEF PrereqSettles, PrereqChanges, batches, failures, TypeOK
<1>4. ASSUME NEW f \in Facts, ProduceFact(f) PROVE TypeOK'
  <2>1. PICK o \in receipts : fact' = [fact EXCEPT ![f].refs = op[o].refs,
                                 ![f].state = IF \E s \in op[o].refs : source[s].retired THEN "blocked" ELSE "pending"]
    BY <1>4 DEF ProduceFact
  <2>2. op[o].refs \in SUBSET Sources
    BY <1>a, OpRefs DEF TypeOK
  <2>3. fact' \in [Facts -> [state : {"none", "pending", "blocked", "enqueued"},
                              refs : SUBSET Sources, enqueued : BOOLEAN]]
    <3>1. \A r \in [state : {"none", "pending", "blocked", "enqueued"}, refs : SUBSET Sources, enqueued : BOOLEAN],
             refs \in SUBSET Sources, state \in {"blocked", "pending"} :
                [r EXCEPT !.refs = refs, !.state = state] \in
                   [state : {"none", "pending", "blocked", "enqueued"}, refs : SUBSET Sources, enqueued : BOOLEAN]
      OBVIOUS
    <3>2. fact' = [fact EXCEPT ![f] = [fact[f] EXCEPT !.refs = op[o].refs,
                      !.state = IF \E s \in op[o].refs : source[s].retired THEN "blocked" ELSE "pending"]]
      BY <1>a, <2>1 DEF TypeOK
    <3>3. fact[f] \in [state : {"none", "pending", "blocked", "enqueued"}, refs : SUBSET Sources, enqueued : BOOLEAN]
      BY <1>a DEF TypeOK
    <3>4. \A state \in {"blocked", "pending"} : [fact[f] EXCEPT !.refs = op[o].refs, !.state = state] \in
             [state : {"none", "pending", "blocked", "enqueued"}, refs : SUBSET Sources, enqueued : BOOLEAN]
      BY <2>2, <3>1, <3>3
    <3>5. CASE \E s \in op[o].refs : source[s].retired
      BY <1>a, <3>2, <3>4, <3>5 DEF TypeOK
    <3>6. CASE ~\E s \in op[o].refs : source[s].retired
      BY <1>a, <3>2, <3>4, <3>6 DEF TypeOK
    <3> QED  BY <3>5, <3>6
  <2> QED  BY <1>a, <1>4, <2>3 DEF ProduceFact, batches, failures, TypeOK
<1>5. ASSUME NEW f \in Facts, EnqueueFact(f) PROVE TypeOK'
  <2>1. FactInput(f) \in Inputs
    BY DEF Inputs
  <2> QED  BY <1>a, <1>5, <2>1, ZenonT(30) DEF EnqueueFact, failures, TypeOK
<1>6. ASSUME NEW f \in Facts, FactEnqueued(f) PROVE TypeOK'
  BY <1>a, <1>6, ZenonT(30) DEF FactEnqueued, batches, failures, TypeOK
<1>7. CASE StartPass
  <2>1. router' = [pc |-> "apply", then |-> "read", todo |-> {}, op |-> 0]
    BY <1>7 DEF StartPass, Idle
  <2>2. router' \in RouterRow
    BY <2>1 DEF RouterRow
  <2> QED  BY <1>a, <1>7, <2>2 DEF StartPass, batches, failures, TypeOK
<1>8. ASSUME NEW s \in Sources, TriageReply(s) PROVE TypeOK'
  <2>1. Failures("reply", 0, {s}) \in SUBSET FailureKeys
    BY FailureTypes
  <2>2. 0 \in 0 .. MaxOps
    BY RouterAssumption
  <2>3. outbox' \subseteq (0 .. MaxOps) \X Sources
    BY <1>a, <1>8, <2>2 DEF TriageReply, TypeOK
  <2>4. CASE Throw(Failures("reply", 0, {s})) /\ UNCHANGED <<triage, crashes>>
    BY <1>a, <1>8, <2>1, <2>3, <2>4, RecordType, GotoType DEF Throw, TriageReply, batches, TypeOK
  <2>5. CASE Unrecorded(Failures("reply", 0, {s})) /\ UNCHANGED triage
    BY <1>a, <1>8, <2>1, <2>3, <2>5, UnrecordedType DEF TriageReply, batches, TypeOK
  <2>6. CASE /\ triage' = [triage EXCEPT ![s].reply = "applied"]
             /\ ResolveFailure(Failures("reply", 0, {s})) /\ UNCHANGED <<router, crashes>>
    <3>1. triage' \in [Sources -> [verdict : {"none", "silent", "process"}, reply : {"none", "pending", "applied"}]]
      <4>1. triage[s] \in [verdict : {"none", "silent", "process"}, reply : {"none", "pending", "applied"}]
        BY <1>a DEF TypeOK
      <4>2. [triage[s] EXCEPT !.reply = "applied"] \in [verdict : {"none", "silent", "process"}, reply : {"none", "pending", "applied"}]
        BY <4>1, RowWrites
      <4> QED  BY <1>a, <2>6, <4>2 DEF TypeOK
    <3> QED  BY <1>a, <1>8, <2>3, <2>6, <3>1, ResolveType DEF TriageReply, batches, TypeOK
  <2> QED  BY <1>8, <2>4, <2>5, <2>6 DEF TriageReply
<1>9. ASSUME NEW s \in Sources, SourceProcessed(s) PROVE TypeOK'
  <2>1. CASE source[s].retired
    BY <1>a, <1>9, <2>1, GotoType DEF SourceProcessed, batches, failures, TypeOK
  <2>2. CASE ~source[s].retired
    <3>1. source' \in [Sources -> [recorded : BOOLEAN, retired : BOOLEAN, routed : {"no", "done", "superseded"}]]
      <4>1. source[s] \in [recorded : BOOLEAN, retired : BOOLEAN, routed : {"no", "done", "superseded"}]
        BY <1>a DEF TypeOK
      <4>2. \A routed \in {"done", "superseded"} : [source[s] EXCEPT !.routed = routed] \in
               [recorded : BOOLEAN, retired : BOOLEAN, routed : {"no", "done", "superseded"}]
        BY <4>1, RowWrites
      <4>3. PICK routed \in {"done", "superseded"} : source' = [source EXCEPT ![s].routed = routed]
        BY <1>9, <2>2 DEF SourceProcessed
      <4>4. source' = [source EXCEPT ![s] = [source[s] EXCEPT !.routed = routed]]
        BY <1>a, <4>3 DEF TypeOK
      <4> QED  BY <1>a, <4>2, <4>4 DEF TypeOK
    <3> QED  BY <1>a, <1>9, <2>2, <3>1 DEF SourceProcessed, batches, failures, TypeOK
  <2> QED  BY <2>1, <2>2
<1>10. ASSUME NEW o \in Ops, ApplyTask(o) PROVE TypeOK'
  <2>1. receipts' \subseteq Ops
    BY <1>a, <1>10 DEF ApplyTask, TypeOK
  <2>2. OpFailures(o) \in SUBSET FailureKeys /\ {} \in SUBSET FailureKeys
    BY <1>a, OpFields
  <2>3. CASE \E keys \in SUBSET FailureKeys : Throw(keys)
    BY <1>a, <1>10, <2>1, <2>3, RecordType, GotoType DEF Throw, ApplyTask, batches, TypeOK
  <2>4. CASE \E pc \in {"record", "reject"} : router' = [router EXCEPT !.pc = pc, !.op = o] /\ UNCHANGED failures
    <3>1. router' \in RouterRow
      <4>1. router \in RouterRow /\ o \in 0 .. MaxOps
        BY <1>a DEF TypeOK, Ops
      <4>2. PICK pc \in {"record", "reject"} : router' = [router EXCEPT !.pc = pc, !.op = o]
        BY <2>4
      <4>3. [router EXCEPT !.pc = pc, !.op = o] \in RouterRow
        BY <4>1, RouterWrites
      <4> QED  BY <4>2, <4>3
    <3> QED  BY <1>a, <1>10, <2>1, <2>4, <3>1 DEF ApplyTask, batches, failures, TypeOK
  <2> QED  BY <1>10, <2>2, <2>3, <2>4 DEF ApplyTask
<1>11. ASSUME NEW o \in Ops, ApplyReply(o) PROVE TypeOK'
  <2>1. OpFailures(o) \in SUBSET FailureKeys
    BY <1>a, OpFields
  <2>2. outbox' \subseteq (0 .. MaxOps) \X Sources
    <3>1. o \in 0 .. MaxOps /\ op[o].refs \subseteq Sources
      BY <1>a, OpRefs, RouterAssumption DEF Ops
    <3> QED  BY <1>a, <1>11, <3>1 DEF ApplyReply, TypeOK
  <2>3. CASE Throw(OpFailures(o)) /\ UNCHANGED <<op, crashes>>
    BY <1>a, <1>11, <2>1, <2>2, <2>3, RecordType, GotoType DEF Throw, ApplyReply, batches, TypeOK
  <2>4. CASE Unrecorded(OpFailures(o)) /\ UNCHANGED op
    BY <1>a, <1>11, <2>1, <2>2, <2>4, UnrecordedType DEF ApplyReply, batches, TypeOK
  <2>5. CASE /\ op' = [op EXCEPT ![o].status = "applied"]
             /\ ResolveFailure(OpFailures(o)) /\ UNCHANGED <<router, crashes>>
    <3>1. op' \in [Ops -> OpRow]
      BY <1>a, <2>5, OpFields
    <3> QED  BY <1>a, <1>11, <2>2, <2>5, <3>1, ResolveType DEF ApplyReply, batches, TypeOK
  <2> QED  BY <1>11, <2>3, <2>4, <2>5 DEF ApplyReply
<1>12. CASE RecordApplication
  <2>1. router.op \in Ops
    BY <1>12 DEF RecordApplication, TypeInv, AtWork
  <2>2. op' \in [Ops -> OpRow]
    BY <1>a, <1>12, <2>1, OpFields DEF RecordApplication
  <2>3. router' \in RouterRow
    <3>1. router \in RouterRow /\ 0 \in 0 .. MaxOps
      BY <1>a DEF TypeOK
    <3> QED  BY <1>12, <3>1, RouterWrites DEF RecordApplication
  <2> QED  BY <1>a, <1>12, <2>2, <2>3, ResolveType DEF RecordApplication, batches, TypeOK
<1>13. CASE RecordRejection
  <2>1. router.op \in Ops /\ op[router.op].status = "pending"
    BY <1>13 DEF RecordRejection, TypeInv, AtWork
  <2>2. op' \in [Ops -> OpRow] /\ op'[router.op].status = "rejected"
    BY <1>a, <1>13, <2>1, OpFields DEF RecordRejection
  <2>3. router' \in RouterRow
    <3>1. router \in RouterRow /\ 0 \in 0 .. MaxOps
      BY <1>a DEF TypeOK
    <3> QED  BY <1>13, <3>1, RouterWrites DEF RecordRejection
  <2>4. RetryInput(router.op) \in Inputs
    BY <2>1 DEF Inputs
  <2>5. Cardinality(Rejections) + 1 <= MaxOps
    <3>1. Rejections \cup {router.op} \in SUBSET Ops /\ router.op \notin Rejections
      BY <2>1 DEF Rejections
    <3>2. Cardinality(Rejections \cup {router.op}) = Cardinality(Rejections) + 1
      BY <3>1, RejectionsFinite, FS_AddElement
    <3>3. IsFiniteSet(Ops) /\ Cardinality(Ops) = MaxOps
      BY FS_Interval DEF Ops
    <3> QED  BY <3>1, <3>2, <3>3, FS_Subset
  <2>6. \A a \in Arrangements : arr[a] \in ArrRow /\ arr[a].rev + 1 \in 0 .. MaxOps
    BY <1>a, <2>5, RejectionsFinite DEF TypeInv, Revised, TypeOK, ArrRow
  <2>7. arr' \in [Arrangements -> ArrRow]
    <3>1. ASSUME NEW a \in Arrangements
          PROVE  [arr[a] EXCEPT !.status = "waiting", !.rev = @ + 1, !.op = 0] \in ArrRow
      <4>1. PICK r \in ArrRow : r = arr[a] /\ r.rev + 1 \in 0 .. MaxOps
        BY <2>6
      <4>2. \A v \in 0 .. MaxOps : [r EXCEPT !.status = "waiting", !.rev = v, !.op = 0] \in ArrRow
        <5>1. 0 \in 0 .. MaxOps /\ "waiting" \in {"none", "waiting", "accepted"}
          OBVIOUS
        <5> QED  BY <4>1, <5>1 DEF ArrRow
      <4> QED  BY <4>1, <4>2
    <3> QED  BY <1>13, <2>6, <3>1 DEF RecordRejection
  <2> QED  BY <1>a, <1>13, <2>2, <2>3, <2>4, <2>7, ResolveType DEF RecordRejection, TypeOK
<1>14. CASE Applied
  <2>1. router' \in RouterRow
    BY <1>a, <1>14 DEF Applied, RouterRow, Unrouted, TypeOK
  <2> QED  BY <1>a, <1>14, <2>1 DEF Applied, batches, failures, TypeOK
<1>15. ASSUME NEW s \in Sources, TriageKnown(s) PROVE TypeOK'
  <2>1. router' \in RouterRow
    BY <1>a, <1>15 DEF TriageKnown, RouterRow, TypeOK
  <2> QED  BY <1>a, <1>15, <2>1, ResolveType DEF TriageKnown, batches, TypeOK
<1>16. ASSUME NEW s \in Sources, TriageSkipped(s) PROVE TypeOK'
  <2>1. router' \in RouterRow
    BY <1>a, <1>16 DEF TriageSkipped, RouterRow, TypeOK
  <2> QED  BY <1>a, <1>16, <2>1 DEF TriageSkipped, batches, failures, TypeOK
<1>17. ASSUME NEW s \in Sources, TriageAccept(s) PROVE TypeOK'
  <2>1. router' \in RouterRow
    BY <1>a, <1>17 DEF TriageAccept, RouterRow, TypeOK
  <2>2. SourceInput(s) \in Inputs
    BY DEF Inputs
  <2>3. queue' \subseteq Inputs /\ triage' \in [Sources -> [verdict : {"none", "silent", "process"},
                                                           reply : {"none", "pending", "applied"}]]
    BY <1>a, <1>17, <2>2 DEF TriageAccept, TypeOK
  <2> QED  BY <1>a, <1>17, <2>1, <2>3, ResolveType DEF TriageAccept, TypeOK
<1>18. ASSUME NEW s \in Sources, TriageFails(s) PROVE TypeOK'
  <2>1. Failures("triage", 0, {s}) \in SUBSET FailureKeys
    BY FailureTypes
  <2> QED  BY <1>a, <1>18, <2>1, RecordType, GotoType DEF Throw, TriageFails, batches, TypeOK
<1>19. CASE Triaged \/ PassEnds \/ BeginTurn
  BY <1>a, <1>19, GotoType DEF Triaged, PassEnds, BeginTurn, batches, failures, TypeOK
<1>20. ASSUME NEW a \in Arrangements, WakeArrangement(a) PROVE TypeOK'
  <2>1. <<arr[a].rev, prereq.version>> \in Wakes /\ arr[a] \in ArrRow
    BY <1>a DEF TypeOK, ArrRow, Wakes
  <2>2. DependencyInput(a, <<arr[a].rev, prereq.version>>) \in Inputs
    BY <2>1 DEF Inputs
  <2>3. arr' \in [Arrangements -> ArrRow]
    BY <1>a, <1>20, <2>1 DEF WakeArrangement, ArrRow, TypeOK
  <2> QED  BY <1>a, <1>20, <2>2, <2>3 DEF WakeArrangement, failures, TypeOK
<1>21. CASE Claim
  BY <1>a, <1>21, GotoType DEF Claim, failures, TypeOK
<1>22. CASE ReleaseStale
  BY <1>a, <1>22, GotoType, ResolveType DEF ReleaseStale, Outdated, TypeOK
<1>23. CASE Commit
  <2>1. op' \in [Ops -> OpRow] /\ arr' \in [Arrangements -> ArrRow]
    BY <1>23, CommitOps, CommitArrs DEF Commit
  <2>2. router' \in RouterRow
    BY <1>a, <1>23 DEF Commit, RouterRow, TypeOK
  <2>3. decision' \in [1 .. MaxDecisions -> SUBSET Inputs]
    BY <1>a, <1>23 DEF Commit, TypeOK
  <2> QED  BY <1>a, <1>23, <2>1, <2>2, <2>3, ResolveType DEF Commit, TypeOK
<1>24. CASE TurnFails
  <2>1. Failures("turn", 0, Exposed) \in SUBSET FailureKeys
    BY <1>a, FailureTypes, ExposedType
  <2> QED  BY <1>a, <1>24, <2>1, RecordType, GotoType DEF Throw, TurnFails, batches, TypeOK
<1>25. ASSUME NEW k \in FailureKeys, HumanRetry(k) PROVE TypeOK'
  BY <1>a, <1>25 DEF HumanRetry, batches, TypeOK
<1>26. CASE Crash
  BY <1>a, <1>26, HostDiesType DEF Crash, batches, failures, TypeOK
<1> QED
  BY <1>0, <1>1, <1>2, <1>3, <1>4, <1>5, <1>6, <1>7, <1>8, <1>9, <1>10, <1>11, <1>12, <1>13, <1>14,
     <1>15, <1>16, <1>17, <1>18, <1>19, <1>20, <1>21, <1>22, <1>23, <1>24, <1>25, <1>26
     DEF Next, Pass, Surroundings

-----------------------------------------------------------------------------
(* Operations are written by six actions only.  Every other step leaves them,  *)
(* the decisions and the receipts alone, keeps what an arrangement is taken up *)
(* by, and starts no recording.                                                *)

Quiet ==
    /\ UNCHANGED <<op, decision, receipts>>
    /\ \A a \in Arrangements :
          arr'[a].status = arr[a].status /\ arr'[a].op = arr[a].op /\ arr'[a].rev = arr[a].rev
    /\ At("record")' \/ At("reject")' => router' = router

LEMMA StepKinds ==
    ASSUME TypeInv, [Next]_vars
    PROVE  \/ Quiet
           \/ \E o \in Ops : ApplyTask(o) \/ ApplyReply(o)
           \/ RecordApplication \/ RecordRejection \/ Commit
<1>a. TypeOK /\ router \in RouterRow /\ arr \in [Arrangements -> ArrRow]
  BY DEF TypeInv, TypeOK
<1>1. CASE UNCHANGED vars
  BY <1>1 DEF vars, batches, Quiet
<1>2. CASE Surroundings
  <2>1. CASE Crash
    BY <2>1 DEF Crash, HostDies, Idle, At, batches, Quiet
  <2>2. CASE \E m \in Messages : Ingest(m) \/ OwnEvidence(m) \/ RetireMessage(m)
    BY <2>2 DEF Ingest, OwnEvidence, RetireMessage, batches, Quiet
  <2>3. CASE \E s \in Sources : RecordSource(s) \/ RetireSource(s)
    BY <2>3 DEF RecordSource, RetireSource, batches, Quiet
  <2>4. CASE PrereqSettles \/ PrereqChanges
    BY <2>4 DEF PrereqSettles, PrereqChanges, batches, Quiet
  <2>5. CASE \E f \in Facts : ProduceFact(f) \/ EnqueueFact(f) \/ FactEnqueued(f)
    BY <2>5 DEF ProduceFact, EnqueueFact, FactEnqueued, batches, Quiet
  <2>6. CASE \E k \in FailureKeys : HumanRetry(k)
    BY <2>6 DEF HumanRetry, batches, Quiet
  <2> QED  BY <1>2, <2>1, <2>2, <2>3, <2>4, <2>5, <2>6 DEF Surroundings
<1>3. CASE \E s \in Sources : TriageReply(s) \/ SourceProcessed(s)
  <2>1. ASSUME NEW s \in Sources, TriageReply(s) PROVE Quiet
    <3>1. ~At("record")' /\ ~At("reject")'
      BY <1>a, <2>1, ReplyEnds DEF TriageReply, At
    <3> QED  BY <2>1, <3>1 DEF TriageReply, batches, Quiet
  <2>2. ASSUME NEW s \in Sources, SourceProcessed(s) PROVE Quiet
    BY <1>a, <2>2 DEF SourceProcessed, Goto, At, RouterRow, batches, Quiet
  <2> QED  BY <1>3, <2>1, <2>2
<1>4. CASE \E s \in Sources : TriageKnown(s) \/ TriageSkipped(s)
  BY <1>a, <1>4 DEF TriageKnown, TriageSkipped, At, RouterRow, batches, Quiet
<1>5. CASE \E s \in Sources : TriageAccept(s) \/ TriageFails(s)
  BY <1>a, <1>5 DEF TriageAccept, TriageFails, Throw, Goto, At, RouterRow, batches, Quiet
<1>6. CASE StartPass \/ Triaged \/ Claim \/ PassEnds
  BY <1>a, <1>6 DEF StartPass, Idle, Triaged, Claim, PassEnds, Goto, At, RouterRow, batches, Quiet
<1>7. CASE ReleaseStale \/ BeginTurn \/ TurnFails
  BY <1>a, <1>7 DEF ReleaseStale, BeginTurn, TurnFails, Throw, Goto, At, RouterRow, batches, Quiet
<1>8. CASE Applied
  BY <1>a, <1>8 DEF Applied, At, RouterRow, batches, Quiet
<1>9. ASSUME NEW a \in Arrangements, WakeArrangement(a) PROVE Quiet
  <2>1. \A b \in Arrangements : arr'[b].status = arr[b].status /\ arr'[b].op = arr[b].op /\ arr'[b].rev = arr[b].rev
    BY <1>a, <1>9 DEF WakeArrangement, ArrRow
  <2> QED  BY <1>9, <2>1 DEF WakeArrangement, Quiet
<1> QED  BY <1>1, <1>2, <1>3, <1>4, <1>5, <1>6, <1>7, <1>8, <1>9 DEF Next, Pass

\* a batch that is claimed or worked on is not empty
LEMMA BatchAtWork ==
    ASSUME TypeInv, [Next]_vars
    PROVE  At("claimed")' \/ At("running")' => active' # {}
<1>a. TypeOK /\ router \in RouterRow /\ (At("claimed") \/ At("running") => active # {})
  BY DEF TypeInv, TypeOK, AtWork
<1>1. CASE UNCHANGED vars
  BY <1>a, <1>1 DEF vars, batches, At
<1>2. CASE Surroundings
  <2>1. CASE Crash
    BY <2>1 DEF Crash, HostDies, Idle, At
  <2>2. CASE \E m \in Messages : Ingest(m) \/ OwnEvidence(m) \/ RetireMessage(m)
    BY <1>a, <2>2 DEF Ingest, OwnEvidence, RetireMessage, batches, At
  <2>3. CASE \E s \in Sources : RecordSource(s) \/ RetireSource(s)
    BY <1>a, <2>3 DEF RecordSource, RetireSource, batches, At
  <2>4. CASE PrereqSettles \/ PrereqChanges
    BY <1>a, <2>4 DEF PrereqSettles, PrereqChanges, batches, At
  <2>5. CASE \E f \in Facts : ProduceFact(f) \/ EnqueueFact(f) \/ FactEnqueued(f)
    BY <1>a, <2>5 DEF ProduceFact, EnqueueFact, FactEnqueued, batches, At
  <2>6. CASE \E k \in FailureKeys : HumanRetry(k)
    BY <1>a, <2>6 DEF HumanRetry, batches, At
  <2> QED  BY <1>2, <2>1, <2>2, <2>3, <2>4, <2>5, <2>6 DEF Surroundings
<1>3. CASE \E s \in Sources : TriageReply(s) \/ SourceProcessed(s)
  <2>1. ASSUME NEW s \in Sources, TriageReply(s) PROVE ~At("claimed")' /\ ~At("running")'
    BY <1>a, <2>1, ReplyEnds DEF TriageReply, At
  <2>2. ASSUME NEW s \in Sources, SourceProcessed(s) PROVE At("claimed")' \/ At("running")' => active' # {}
    BY <1>a, <2>2 DEF SourceProcessed, Goto, At, RouterRow, batches
  <2> QED  BY <1>3, <2>1, <2>2
<1>4. CASE \E s \in Sources : TriageKnown(s) \/ TriageSkipped(s)
  BY <1>a, <1>4 DEF TriageKnown, TriageSkipped, At, RouterRow, batches
<1>5. CASE \E s \in Sources : TriageAccept(s) \/ TriageFails(s)
  BY <1>a, <1>5 DEF TriageAccept, TriageFails, Throw, Goto, At, RouterRow, batches
<1>6. CASE StartPass \/ Triaged \/ Claim \/ PassEnds
  BY <1>a, <1>6 DEF StartPass, Idle, Triaged, Claim, PassEnds, Goto, At, RouterRow, batches
<1>7. CASE ReleaseStale \/ BeginTurn \/ TurnFails
  BY <1>a, <1>7 DEF ReleaseStale, BeginTurn, TurnFails, Throw, Goto, At, RouterRow, batches
<1>8. CASE Applied
  BY <1>a, <1>8 DEF Applied, At, RouterRow, batches
<1>9. CASE \E a \in Arrangements : WakeArrangement(a)
  BY <1>a, <1>9 DEF WakeArrangement, At
<1>10. CASE \E o \in Ops : ApplyTask(o) \/ ApplyReply(o)
  <2>1. ASSUME NEW o \in Ops, ApplyTask(o) PROVE ~At("claimed")' /\ ~At("running")'
    BY <1>a, <2>1 DEF ApplyTask, Throw, Goto, At, RouterRow
  <2>2. ASSUME NEW o \in Ops, ApplyReply(o) PROVE ~At("claimed")' /\ ~At("running")'
    BY <1>a, <2>2, ReplyEnds DEF ApplyReply, At
  <2> QED  BY <1>10, <2>1, <2>2
<1>11. CASE RecordApplication \/ RecordRejection \/ Commit
  BY <1>a, <1>11 DEF RecordApplication, RecordRejection, Commit, At, RouterRow
<1> QED  BY <1>1, <1>2, <1>3, <1>4, <1>5, <1>6, <1>7, <1>8, <1>9, <1>10, <1>11 DEF Next, Pass

LEMMA OpWrites ==
    ASSUME TypeInv, [Next]_vars
    PROVE  \/ op' = op
           \/ \E o \in Ops, st \in {"applied", "rejected"} :
                 op[o].status = "pending" /\ op' = [op EXCEPT ![o].status = st]
           \/ Commit
<1>1. ASSUME NEW o \in Ops, ApplyTask(o) PROVE op' = op
  BY <1>1 DEF ApplyTask
<1>2. ASSUME NEW o \in Ops, ApplyReply(o)
      PROVE  op[o].status = "pending" /\ (op' = op \/ op' = [op EXCEPT ![o].status = "applied"])
  BY <1>2 DEF ApplyReply, OpDue
<1>3. CASE RecordApplication
  BY <1>3 DEF RecordApplication, TypeInv, AtWork
<1>4. CASE RecordRejection
  BY <1>4 DEF RecordRejection, TypeInv, AtWork
<1> QED  BY <1>1, <1>2, <1>3, <1>4, StepKinds DEF Quiet

\* the status of each operation after such a write
LEMMA StatusWritten ==
    ASSUME TypeInv, NEW o \in Ops, NEW st \in {"applied", "rejected"}, op' = [op EXCEPT ![o].status = st]
    PROVE  op'[o].status = st /\ \A p \in Ops \ {o} : op'[p] = op[p]
<1>1. TypeOK
  BY DEF TypeInv
<1> QED  BY <1>1, OpFields

LEMMA NumberStep ==
    ASSUME TypeInv, [Next]_vars
    PROVE  OpsInOrder' /\ DecisionsInOrder'
<1> USE RouterAssumption
<1>0. OpsInOrder /\ DecisionsInOrder
  BY DEF TypeInv
<1>1. ASSUME op' = op PROVE OpsInOrder'
  <2>1. \A p \in Ops : op'[p].status # "absent" <=> op[p].status # "absent"
    BY <1>1
  <2> QED  BY <1>0, <2>1 DEF OpsInOrder
<1>2. ASSUME NEW o \in Ops, NEW st \in {"applied", "rejected"},
             op[o].status = "pending", op' = [op EXCEPT ![o].status = st]
      PROVE  OpsInOrder'
  <2>1. \A p \in Ops : op'[p].status # "absent" <=> op[p].status # "absent"
    BY <1>2, StatusWritten
  <2> QED  BY <1>0, <2>1 DEF OpsInOrder
<1>3. ASSUME Commit PROVE OpsInOrder' /\ DecisionsInOrder'
  <2>1. PICK n \in 0 .. BatchOps : \E new \in [1 .. n -> {p \in Proposals : Proposable(p)}] : Adopt(n, new)
    BY <1>3 DEF Commit
  <2>a. PICK new \in [1 .. n -> {p \in Proposals : Proposable(p)}] : Adopt(n, new)
    BY <2>1
  <2>2. NextDecision <= MaxDecisions
    BY <1>3 DEF Commit
  <2>3. /\ Decided \in 0 .. MaxOps /\ n \in Nat /\ Decided + n <= MaxOps
        /\ \A o \in Ops \ NewOps(n) : Kept(o)
        /\ \A o \in NewOps(n) : op'[o].status = "pending"
    BY <2>a, <2>2, CommitOps
  <2>4. \A o \in Ops : op[o].status # "absent" <=> o <= Decided
    BY <1>0, DecidedIsLast
  <2>5. \A o \in Ops : op'[o].status # "absent" <=> o <= Decided + n
    <3>1. ASSUME NEW o \in Ops, o \in NewOps(n) PROVE op'[o].status # "absent" <=> o <= Decided + n
      BY <2>3, <3>1 DEF NewOps
    <3>2. ASSUME NEW o \in Ops, o \notin NewOps(n) PROVE op'[o].status # "absent" <=> o <= Decided + n
      BY <2>3, <2>4, <3>2 DEF NewOps, Kept, Ops
    <3> QED  BY <3>1, <3>2
  <2>6. OpsInOrder'
    <3>1. Decided + n \in 0 .. MaxOps
      BY <2>3
    <3> QED  BY <2>5, <3>1 DEF OpsInOrder
  <2>7. /\ NextDecision \in 1 .. MaxDecisions
        /\ \A d \in 1 .. MaxDecisions : decision[d] # {} <=> d < NextDecision
    BY <1>0, <2>2, NextDecisionIsFree
  <2>8. active # {} /\ decision' = [decision EXCEPT ![NextDecision] = active]
    BY <1>3 DEF Commit, TypeInv, AtWork
  <2>9. \A d \in 1 .. MaxDecisions : decision'[d] # {} <=> d <= NextDecision
    BY <2>7, <2>8 DEF TypeInv, TypeOK
  <2>10. DecisionsInOrder'
    <3>1. PICK k \in 0 .. MaxDecisions : k = NextDecision
      BY <2>7
    <3>2. \A d \in 1 .. MaxDecisions : decision'[d] # {} <=> d <= k
      BY <2>9, <3>1
    <3> QED  BY <3>2 DEF DecisionsInOrder
  <2> QED  BY <2>6, <2>10
<1>4. ASSUME ~Commit PROVE decision' = decision
  <2>1. CASE \E o \in Ops : ApplyTask(o) \/ ApplyReply(o)
    BY <2>1 DEF ApplyTask, ApplyReply, batches
  <2>2. CASE RecordApplication \/ RecordRejection
    BY <2>2 DEF RecordApplication, RecordRejection, batches
  <2> QED  BY <1>4, <2>1, <2>2, StepKinds DEF Quiet
<1>5. CASE Commit
  BY <1>3, <1>5
<1>6. CASE ~Commit
  <2>1. DecisionsInOrder'
    BY <1>0, <1>4, <1>6 DEF DecisionsInOrder
  <2> QED  BY <1>1, <1>2, <1>6, <2>1, OpWrites
<1> QED  BY <1>5, <1>6

LEMMA RevisedStep ==
    ASSUME TypeInv, [Next]_vars
    PROVE  Revised'
<1> USE RouterAssumption
<1>0. Revised /\ TypeOK
  BY DEF TypeInv
<1>a. Cardinality(Rejections) \in Nat /\ Cardinality(Rejections)' \in Nat
  <2>1. IsFiniteSet(Ops)
    BY FS_Interval DEF Ops
  <2>2. IsFiniteSet(Rejections')
    BY <2>1, FS_Subset DEF Rejections
  <2> QED  BY <2>2, RejectionsFinite, FS_CardinalityType
<1>1. ASSUME op' = op \/ (\A o \in Ops : op[o].status = "rejected" <=> op'[o].status = "rejected"),
             \A a \in Arrangements : arr'[a].rev = arr[a].rev \/ arr'[a].rev = 0
      PROVE  Revised'
  <2>1. Rejections' = Rejections
    BY <1>1 DEF Rejections
  <2>2. \A a \in Arrangements : arr'[a].rev <= Cardinality(Rejections)
    BY <1>0, <1>1, <1>a DEF Revised
  <2> QED  BY <2>1, <2>2 DEF Revised
<1>2. CASE Quiet
  BY <1>1, <1>2 DEF Quiet
<1>3. ASSUME NEW o \in Ops, ApplyTask(o) \/ ApplyReply(o) PROVE Revised'
  <2>1. arr' = arr /\ op[o].status = "pending" /\ (op' = op \/ op' = [op EXCEPT ![o].status = "applied"])
    BY <1>3 DEF ApplyTask, ApplyReply, OpDue
  <2>2. op' = op \/ (\A p \in Ops : op[p].status = "rejected" <=> op'[p].status = "rejected")
    BY <2>1, StatusWritten
  <2> QED  BY <1>1, <2>1, <2>2
<1>4. CASE RecordApplication
  <2>1. router.op \in Ops /\ op[router.op].status = "pending" /\ arr' = arr
        /\ op' = [op EXCEPT ![router.op].status = "applied"]
    BY <1>4 DEF RecordApplication, TypeInv, AtWork
  <2>2. \A p \in Ops : op[p].status = "rejected" <=> op'[p].status = "rejected"
    BY <2>1, StatusWritten
  <2> QED  BY <1>1, <2>1, <2>2
<1>5. CASE RecordRejection
  <2>1. router.op \in Ops /\ op[router.op].status = "pending"
        /\ op' = [op EXCEPT ![router.op].status = "rejected"]
    BY <1>5 DEF RecordRejection, TypeInv, AtWork
  <2>2. Rejections' = Rejections \cup {router.op} /\ router.op \notin Rejections
    <3>1. op'[router.op].status = "rejected" /\ \A p \in Ops \ {router.op} : op'[p] = op[p]
      BY <2>1, StatusWritten
    <3> QED  BY <2>1, <3>1 DEF Rejections, Ops
  <2>3. Cardinality(Rejections)' = Cardinality(Rejections) + 1
    BY <2>2, RejectionsFinite, FS_AddElement
  <2>4. ASSUME NEW a \in Arrangements PROVE arr'[a].rev = arr[a].rev \/ arr'[a].rev = arr[a].rev + 1
    <3>1. arr[a] \in ArrRow
      BY <1>0 DEF TypeOK
    <3> QED  BY <1>5, <3>1 DEF RecordRejection, ArrRow
  <2>5. \A a \in Arrangements : arr[a].rev \in Nat
    BY <1>0 DEF TypeOK, ArrRow
  <2> QED  BY <1>0, <1>a, <2>3, <2>4, <2>5 DEF Revised
<1>6. CASE Commit
  <2>a. PICK n \in 0 .. BatchOps :
           \E new \in [1 .. n -> {p \in Proposals : Proposable(p)}],
              added \in Arrangements \cup {None}, refs \in SUBSET Exposed :
                 Answers(new) /\ Adopt(n, new) /\ Arrange(n, new, added, refs)
    BY <1>6 DEF Commit
  <2>1. PICK new \in [1 .. n -> {p \in Proposals : Proposable(p)}],
             added \in Arrangements \cup {None}, refs \in SUBSET Exposed :
                Answers(new) /\ Adopt(n, new) /\ Arrange(n, new, added, refs)
    BY <2>a
  <2>2. NextDecision <= MaxDecisions
    BY <1>6 DEF Commit
  <2>3. \A a \in Arrangements : arr'[a].rev = arr[a].rev \/ arr'[a].rev = 0
    <3>1. \A a \in Arrangements : Untaken(a, n) \/ Added(a, refs) \/ TakenUp(a)
      BY <2>1, <2>2, CommitArrs
    <3>2. \A a \in Arrangements : Added(a, refs) => arr'[a].rev = 0
      BY DEF Added, NoArr
    <3> QED  BY <3>1, <3>2 DEF Untaken, TakenUp
  <2>4. /\ Decided \in 0 .. MaxOps /\ n \in Nat
        /\ \A o \in Ops \ NewOps(n) : Kept(o)
        /\ \A o \in NewOps(n) : op'[o].status = "pending"
    BY <2>1, <2>2, CommitOps
  <2>5. \A o \in NewOps(n) : op[o].status = "absent"
    BY DecidedIsLast, <2>4 DEF NewOps, Ops, TypeInv
  <2>6. \A o \in Ops : op[o].status = "rejected" <=> op'[o].status = "rejected"
    BY <2>4, <2>5 DEF Kept
  <2> QED  BY <1>1, <2>3, <2>6
<1> QED  BY <1>2, <1>3, <1>4, <1>5, <1>6, StepKinds

LEMMA AtWorkStep ==
    ASSUME TypeInv, [Next]_vars
    PROVE  AtWork'
<1>0. TypeOK /\ AtWork /\ router \in RouterRow
  BY DEF TypeInv, TypeOK
<1>1. At("record")' \/ At("reject")' => router'.op \in Ops /\ op'[router'.op].status = "pending"
  <2>1. CASE Quiet
    BY <1>0, <2>1 DEF Quiet, AtWork, At
  <2>2. ASSUME NEW o \in Ops, ApplyTask(o)
        PROVE  At("record")' \/ At("reject")' => router'.op \in Ops /\ op'[router'.op].status = "pending"
    BY <1>0, <2>2 DEF ApplyTask, OpDue, Throw, Goto, At, RouterRow
  <2>3. CASE \E o \in Ops : ApplyReply(o)
    BY <1>0, <2>3, ReplyEnds DEF ApplyReply, At
  <2>4. CASE RecordApplication \/ RecordRejection \/ Commit
    BY <1>0, <2>4 DEF RecordApplication, RecordRejection, Commit, At, RouterRow
  <2> QED  BY <2>1, <2>2, <2>3, <2>4, StepKinds
<1> QED  BY <1>1, BatchAtWork DEF AtWork

LEMMA TypeInvInvariant == Spec => []TypeInv
<1>1. TypeInv /\ [Next]_vars => TypeInv'
  BY TypeStep, NumberStep, RevisedStep, AtWorkStep DEF TypeInv
<1> QED  BY TypeInit, <1>1, PTL DEF Spec

(* Every variable keeps its type: in particular an arrangement is revised at   *)
(* most once per rejected operation, and what is recorded as a failure names a *)
(* request of the router and a source.                                         *)
THEOREM TypeCorrect == Spec => []TypeOK
BY TypeInvInvariant, PTL DEF TypeInv

-----------------------------------------------------------------------------
(* The record of an operation agrees with its effect.  The outcome that a pass *)
(* is about to record is one the receipts bear out: nothing else is applied in *)
(* between, for a group has one pass at a time.                                *)

Committed(o) == op[o].status # "absent" /\ op[o].kind = "task"

RecordInv ==
    /\ \A o \in receipts : Committed(o)
    /\ At("record") => router.op \in receipts
    /\ At("reject") => router.op \notin receipts
    /\ RecordsAgree

\* what a write of a status keeps of the operations
LEMMA FieldsKept ==
    ASSUME TypeInv, NEW o \in Ops, NEW st \in {"applied", "rejected"}, op' = [op EXCEPT ![o].status = st]
    PROVE  \A p \in Ops : op'[p].kind = op[p].kind /\ op'[p].arr = op[p].arr /\ op'[p].dec = op[p].dec
<1>1. op[o] \in OpRow /\ TypeOK
  BY OpFields DEF TypeInv
<1>2. op'[o] = [op[o] EXCEPT !.status = st]
  BY <1>1, OpFields
<1>3. op'[o].kind = op[o].kind /\ op'[o].arr = op[o].arr /\ op'[o].dec = op[o].dec
  BY <1>1, <1>2 DEF OpRow
<1> QED  BY <1>3, StatusWritten

\* a commit adds operations that were absent and changes no status
LEMMA CommitStep ==
    ASSUME TypeInv, Commit
    PROVE  \E N \in SUBSET Ops :
              /\ \A o \in Ops \ N : Kept(o)
              /\ \A o \in N : op[o].status = "absent" /\ Opened(o)
              /\ \A a \in Arrangements : arr[a].status = "accepted" => arr'[a] = arr[a]
<1>1. PICK n \in 0 .. BatchOps :
         \E new \in [1 .. n -> {p \in Proposals : Proposable(p)}],
            added \in Arrangements \cup {None}, refs \in SUBSET Exposed :
               Answers(new) /\ Adopt(n, new) /\ Arrange(n, new, added, refs)
  BY DEF Commit
<1>2. PICK new \in [1 .. n -> {p \in Proposals : Proposable(p)}],
           added \in Arrangements \cup {None}, refs \in SUBSET Exposed :
              Answers(new) /\ Adopt(n, new) /\ Arrange(n, new, added, refs)
  BY <1>1
<1>3. NextDecision <= MaxDecisions
  BY DEF Commit
<1>4. Decided \in 0 .. MaxOps /\ n \in Nat /\ \A o \in Ops \ NewOps(n) : Kept(o)
  BY <1>2, <1>3, CommitOps
<1>5. \A o \in NewOps(n) : op[o].status = "absent"
  BY DecidedIsLast, <1>4, RouterAssumption DEF NewOps, Ops, TypeInv
<1>6. /\ \A o \in NewOps(n) : Opened(o)
      /\ \A a \in Arrangements : arr[a].status = "accepted" => arr'[a] = arr[a]
  BY <1>2, <1>3, CommitArrs DEF Untaken, Added, TakenUp
<1> QED  BY <1>4, <1>5, <1>6 DEF NewOps

LEMMA RecordInit == Init => RecordInv
BY DEF Init, Idle, At, NoOp, RecordsAgree, RecordInv

LEMMA RecordStep ==
    ASSUME TypeInv, RecordInv, [Next]_vars
    PROVE  RecordInv'
<1>0. TypeOK /\ AtWork /\ router \in RouterRow /\ receipts \subseteq Ops
  BY DEF TypeInv, TypeOK
<1>1. CASE Quiet
  BY <1>0, <1>1 DEF Quiet, RecordInv, RecordsAgree, Committed, At
<1>2. ASSUME NEW o \in Ops, ApplyTask(o) PROVE RecordInv'
  <2>1. op' = op /\ op[o].status = "pending" /\ op[o].kind = "task" /\ At("apply")
        /\ receipts' \in {receipts, receipts \cup {o}}
    BY <1>2 DEF ApplyTask, OpDue
  <2>2. /\ At("record")' => router'.op \in receipts'
        /\ At("reject")' => router'.op \notin receipts'
    <3>1. CASE Refused(o) /\ router' = [router EXCEPT !.pc = "reject", !.op = o] /\ receipts' = receipts
      BY <1>0, <3>1 DEF Refused, At, RouterRow
    <3>2. CASE receipts' = receipts \cup {o} /\ router' = [router EXCEPT !.pc = "record", !.op = o]
      BY <1>0, <3>2 DEF At, RouterRow
    <3>3. CASE Goto("idle")
      BY <1>0, <3>3 DEF Goto, At, RouterRow
    <3> QED  BY <1>2, <3>1, <3>2, <3>3 DEF ApplyTask, Throw
  <2> QED  BY <2>1, <2>2 DEF RecordInv, RecordsAgree, Committed
<1>3. ASSUME NEW o \in Ops, ApplyReply(o) PROVE RecordInv'
  <2>1. receipts' = receipts /\ op[o].status = "pending" /\ op[o].kind = "reply" /\ At("apply")
        /\ (op' = op \/ op' = [op EXCEPT ![o].status = "applied"])
    BY <1>3 DEF ApplyReply, OpDue
  <2>2. ~At("record")' /\ ~At("reject")'
    BY <1>0, <1>3, <2>1, ReplyEnds DEF At
  <2>3. \A p \in Ops : op'[p].kind = op[p].kind /\ (op'[p].status = op[p].status \/ op'[p].kind = "reply")
    BY <2>1, FieldsKept, StatusWritten
  <2> QED  BY <1>0, <2>1, <2>2, <2>3 DEF RecordInv, RecordsAgree, Committed
<1>4. CASE RecordApplication \/ RecordRejection
  <2>1. PICK o \in Ops, st \in {"applied", "rejected"} :
           /\ o = router.op /\ receipts' = receipts /\ op[o].status = "pending"
           /\ op' = [op EXCEPT ![o].status = st]
           /\ st = "applied" => o \in receipts
           /\ st = "rejected" => o \notin receipts
    BY <1>0, <1>4 DEF RecordApplication, RecordRejection, RecordInv, AtWork
  <2>2. ~At("record")' /\ ~At("reject")'
    BY <1>0, <1>4 DEF RecordApplication, RecordRejection, At, RouterRow
  <2>3. op'[o].status = st /\ \A p \in Ops : op'[p].kind = op[p].kind /\ (p # o => op'[p] = op[p])
    BY <2>1, FieldsKept, StatusWritten
  <2> QED  BY <1>0, <2>1, <2>2, <2>3 DEF RecordInv, RecordsAgree, Committed
<1>5. CASE Commit
  <2>1. PICK N \in SUBSET Ops :
           /\ \A o \in Ops \ N : Kept(o)
           /\ \A o \in N : op[o].status = "absent" /\ Opened(o)
    BY <1>5, CommitStep
  <2>2. receipts' = receipts /\ ~At("record")' /\ ~At("reject")'
    BY <1>0, <1>5 DEF Commit, At, RouterRow
  <2>3. \A o \in receipts : o \notin N
    BY <2>1 DEF RecordInv, Committed
  <2>4. \A o \in N : op'[o].status = "pending"
    BY <2>1 DEF Opened
  <2>5. \A o \in Ops \ N : op'[o].status = op[o].status /\ op'[o].kind = op[o].kind
    BY <2>1 DEF Kept
  <2> QED  BY <1>0, <2>2, <2>3, <2>4, <2>5 DEF RecordInv, RecordsAgree, Committed
<1> QED  BY <1>1, <1>2, <1>3, <1>4, <1>5, StepKinds

LEMMA RecordInvariant == Spec => []RecordInv
<1>1. TypeInv /\ RecordInv /\ [Next]_vars => RecordInv'
  BY RecordStep
<1> QED  BY RecordInit, <1>1, TypeInvInvariant, PTL DEF Spec

(* No task action the router takes for rejected ever had its effect, and none  *)
(* it takes for applied is without one, over crashes, failures and lost        *)
(* answers.                                                                    *)
THEOREM RecordAgreement == Spec => []RecordsAgree
BY RecordInvariant, PTL DEF RecordInv

-----------------------------------------------------------------------------
(* An arranged task exists once.  An operation that may still have its effect, *)
(* or had it, holds its arrangement.                                           *)

Holds(o) == op[o].status \in {"pending", "applied"} /\ op[o].arr # None =>
                arr[op[o].arr].status = "accepted" /\ arr[op[o].arr].op = o

HoldInv == \A o \in Ops : Holds(o)

LEMMA HoldInit == Init => HoldInv
BY DEF Init, NoOp, Holds, HoldInv

LEMMA HoldStep ==
    ASSUME TypeInv, HoldInv, [Next]_vars
    PROVE  HoldInv'
<1>0. TypeOK /\ AtWork
  BY DEF TypeInv
<1>a. \A o \in Ops : op[o].arr # None => op[o].arr \in Arrangements
  BY <1>0 DEF TypeOK, OpRow
<1>1. CASE Quiet
  BY <1>a, <1>1 DEF Quiet, HoldInv, Holds
<1>2. ASSUME NEW o \in Ops, ApplyTask(o) PROVE HoldInv'
  BY <1>2 DEF ApplyTask, HoldInv, Holds
<1>3. ASSUME NEW o \in Ops, op[o].status = "pending", op' = [op EXCEPT ![o].status = "applied"], arr' = arr
      PROVE  HoldInv'
  <2>1. \A p \in Ops : op'[p].arr = op[p].arr /\ (p # o => op'[p] = op[p])
    BY <1>3, FieldsKept, StatusWritten
  <2> QED  BY <1>3, <2>1 DEF HoldInv, Holds
<1>4. ASSUME NEW o \in Ops, ApplyReply(o) PROVE HoldInv'
  <2>1. arr' = arr /\ op[o].status = "pending" /\ (op' = op \/ op' = [op EXCEPT ![o].status = "applied"])
    BY <1>4 DEF ApplyReply, OpDue
  <2>2. CASE op' = op
    BY <2>1, <2>2 DEF HoldInv, Holds
  <2> QED  BY <1>3, <2>1, <2>2
<1>5. CASE RecordApplication
  BY <1>0, <1>3, <1>5 DEF RecordApplication, AtWork
<1>6. CASE RecordRejection
  <2>1. PICK o \in Ops : /\ o = router.op /\ op[o].status = "pending"
                         /\ op' = [op EXCEPT ![o].status = "rejected"]
    BY <1>0, <1>6 DEF RecordRejection, AtWork
  <2>2. op'[o].status = "rejected" /\ \A p \in Ops : p # o => op'[p] = op[p]
    BY <2>1, StatusWritten
  <2>3. \A a \in Arrangements : arr[a].op # o => arr'[a] = arr[a]
    BY <1>6, <2>1 DEF RecordRejection
  <2>4. ASSUME NEW p \in Ops PROVE Holds(p)'
    <3>1. CASE p = o
      BY <2>2, <3>1 DEF Holds
    <3>2. CASE p # o /\ op[p].status \in {"pending", "applied"} /\ op[p].arr # None
      <4>1. op'[p] = op[p] /\ op[p].arr \in Arrangements /\ arr[op[p].arr].op = p
            /\ arr[op[p].arr].status = "accepted"
        BY <1>a, <2>2, <3>2 DEF HoldInv, Holds
      <4> QED  BY <2>3, <3>2, <4>1 DEF Holds
    <3>3. CASE p # o /\ ~(op[p].status \in {"pending", "applied"} /\ op[p].arr # None)
      BY <2>2, <3>3 DEF Holds
    <3> QED  BY <3>1, <3>2, <3>3
  <2> QED  BY <2>4 DEF HoldInv, Ops
<1>7. CASE Commit
  <2>1. PICK N \in SUBSET Ops :
           /\ \A o \in Ops \ N : Kept(o)
           /\ \A o \in N : Opened(o)
           /\ \A a \in Arrangements : arr[a].status = "accepted" => arr'[a] = arr[a]
    BY <1>7, CommitStep
  <2>2. \A o \in N : Holds(o)'
    BY <2>1 DEF Opened, Holds
  <2>3. \A o \in Ops \ N : Holds(o)'
    BY <1>a, <2>1 DEF Kept, HoldInv, Holds
  <2> QED  BY <2>2, <2>3 DEF HoldInv, Ops
<1> QED  BY <1>1, <1>2, <1>4, <1>5, <1>6, <1>7, StepKinds

LEMMA HoldInvariant == Spec => []HoldInv
<1>1. TypeInv /\ HoldInv /\ [Next]_vars => HoldInv'
  BY HoldStep
<1> QED  BY HoldInit, <1>1, TypeInvInvariant, PTL DEF Spec

(* A task that was arranged for is created by one operation at most, and its   *)
(* arrangement stays with that operation, however often it was rejected,       *)
(* retried and woken before.                                                   *)
THEOREM ArrangedTaskOnce == Spec => []ArrangedOnce
<1>1. TypeInv /\ RecordInv /\ HoldInv => ArrangedOnce
  <2> SUFFICES ASSUME TypeInv, RecordInv, HoldInv, NEW a \in Arrangements, NEW o \in receipts, op[o].arr = a
               PROVE  arr[a].status = "accepted" /\ arr[a].op = o
    BY DEF ArrangedOnce
  <2>1. op[o] \in OpRow /\ o \in Ops
    BY DEF TypeInv, TypeOK
  <2>2. op[o].status \in {"pending", "applied"}
    BY <2>1 DEF RecordInv, Committed, RecordsAgree, OpRow
  <2>3. op[o].arr # None
    BY RouterAssumption
  <2> QED  BY <2>1, <2>2, <2>3 DEF HoldInv, Holds
<1> QED  BY <1>1, TypeInvInvariant, RecordInvariant, HoldInvariant, PTL

-----------------------------------------------------------------------------
(* The inbox.  What an input was made from tells whether it was offered, and   *)
(* keeps telling; an input is in at most one place, and in none before it is   *)
(* offered.                                                                    *)

Consumed == UNION {decision[d] : d \in 1 .. MaxDecisions}

Offered ==
    {SourceInput(s) : s \in {t \in Sources : triage[t].verdict # "none"}}
    \cup {FactInput(f) : f \in {g \in Facts : fact[g].enqueued}}
    \cup {RetryInput(o) : o \in {p \in Ops : op[p].status = "rejected"}}
    \cup {i \in Inputs : \E a \in Arrangements : \E w \in arr[a].woken : i = DependencyInput(a, w)}

Apart ==
    /\ queue \cap active = {} /\ queue \cap abandoned = {} /\ queue \cap Consumed = {}
    /\ active \cap abandoned = {} /\ active \cap Consumed = {} /\ abandoned \cap Consumed = {}

InboxInv ==
    /\ Apart
    /\ queue \cup active \cup abandoned \cup Consumed \subseteq Offered
    /\ \A a \in Arrangements : arr[a].status = "none" => arr[a].woken = {}

Offers(i) ==
    /\ i \in Inputs \ Offered /\ i \in Offered'
    /\ queue' = queue \cup {i} /\ UNCHANGED <<active, abandoned, decision>>

Claims ==
    /\ active = {} /\ queue # {}
    /\ active' = queue /\ queue' = {} /\ UNCHANGED <<abandoned, decision>>

Drops(S) ==
    /\ S # {}
    /\ active' = {} /\ queue' = queue \cup (active \ S) /\ abandoned' = abandoned \cup S
    /\ UNCHANGED decision

Consumes ==
    /\ active # {} /\ active' = {}
    /\ Consumed' = Consumed \cup active
    /\ UNCHANGED <<queue, abandoned>>

\* what tells is not forgotten, step by step
LEMMA TellTales ==
    ASSUME TypeInv, InboxInv, [Next]_vars
    PROVE  /\ \A s \in Sources : triage[s].verdict # "none" => triage'[s].verdict # "none"
           /\ \A f \in Facts : fact[f].enqueued => fact'[f].enqueued
           /\ \A o \in Ops : op[o].status = "rejected" => op'[o].status = "rejected"
           /\ \A a \in Arrangements :
                 /\ arr[a].woken \subseteq arr'[a].woken
                 /\ arr'[a].status = "none" => arr'[a].woken = {}
<1>0. TypeOK /\ \A a \in Arrangements : arr[a].status = "none" => arr[a].woken = {}
  BY DEF TypeInv, InboxInv
<1>1. \A s \in Sources : triage[s].verdict # "none" => triage'[s].verdict # "none"
  <2>1. ASSUME NEW s \in Sources, TriageReply(s)
        PROVE  \A t \in Sources : triage[t].verdict # "none" => triage'[t].verdict # "none"
    <3>1. triage[s] \in [verdict : {"none", "silent", "process"}, reply : {"none", "pending", "applied"}]
      BY <1>0 DEF TypeOK
    <3>2. [triage[s] EXCEPT !.reply = "applied"].verdict = triage[s].verdict
      BY <3>1
    <3>3. triage' = triage \/ triage' = [triage EXCEPT ![s] = [triage[s] EXCEPT !.reply = "applied"]]
      BY <1>0, <2>1 DEF TriageReply, TypeOK
    <3> QED  BY <1>0, <3>2, <3>3 DEF TypeOK
  <2>2. ASSUME NEW s \in Sources, TriageAccept(s)
        PROVE  \A t \in Sources : triage[t].verdict # "none" => triage'[t].verdict # "none"
    BY <1>0, <2>2 DEF TriageAccept, TypeOK
  <2>3. CASE ~\E s \in Sources : TriageReply(s) \/ TriageAccept(s)
    <3>1. triage' = triage
      <4>1. CASE Surroundings \/ UNCHANGED vars
        BY <4>1 DEF Surroundings, vars, Ingest, OwnEvidence, RetireMessage, RecordSource, RetireSource,
                    PrereqSettles, PrereqChanges, ProduceFact, EnqueueFact, FactEnqueued, HumanRetry, Crash
      <4>2. CASE \E s \in Sources : SourceProcessed(s) \/ TriageKnown(s) \/ TriageSkipped(s) \/ TriageFails(s)
        BY <4>2 DEF SourceProcessed, TriageKnown, TriageSkipped, TriageFails
      <4>3. CASE \/ StartPass \/ Applied \/ Triaged \/ RecordApplication \/ RecordRejection
                 \/ Claim \/ PassEnds \/ ReleaseStale \/ BeginTurn \/ Commit \/ TurnFails
        BY <4>3 DEF StartPass, Applied, Triaged, RecordApplication, RecordRejection,
                    Claim, PassEnds, ReleaseStale, BeginTurn, Commit, TurnFails
      <4>4. CASE \/ \E o \in Ops : ApplyTask(o) \/ ApplyReply(o)
                 \/ \E a \in Arrangements : WakeArrangement(a)
        BY <4>4 DEF ApplyTask, ApplyReply, WakeArrangement
      <4> QED  BY <2>3, <4>1, <4>2, <4>3, <4>4 DEF Next, Pass
    <3> QED  BY <3>1
  <2> QED  BY <2>1, <2>2, <2>3
<1>2. \A f \in Facts : fact[f].enqueued => fact'[f].enqueued
  <2>1. CASE \E f \in Facts : ProduceFact(f) \/ EnqueueFact(f) \/ FactEnqueued(f)
    <3>1. PICK f \in Facts : ProduceFact(f) \/ EnqueueFact(f) \/ FactEnqueued(f)
      BY <2>1
    <3>2. fact[f] \in [state : {"none", "pending", "blocked", "enqueued"}, refs : SUBSET Sources, enqueued : BOOLEAN]
      BY <1>0 DEF TypeOK
    <3>3. fact[f].enqueued => fact'[f].enqueued
      <4>1. CASE ProduceFact(f)
        BY <1>0, <3>2, <4>1 DEF ProduceFact, TypeOK
      <4>2. CASE EnqueueFact(f) \/ FactEnqueued(f)
        <5>1. fact \in [Facts -> [state : {"none", "pending", "blocked", "enqueued"},
                                  refs : SUBSET Sources, enqueued : BOOLEAN]]
          BY <1>0 DEF TypeOK
        <5>2. fact[f].enqueued => [fact[f] EXCEPT !.state = "enqueued"].enqueued
          BY <3>2
        <5>3. [fact[f] EXCEPT !.enqueued = TRUE].enqueued
          BY <3>2
        <5>4. \/ fact' = [fact EXCEPT ![f] = [fact[f] EXCEPT !.enqueued = TRUE]]
              \/ fact' = [fact EXCEPT ![f] = [fact[f] EXCEPT !.state = "enqueued"]]
          BY <4>2, <5>1 DEF EnqueueFact, FactEnqueued
        <5> QED  BY <5>1, <5>2, <5>3, <5>4
      <4> QED  BY <3>1, <4>1, <4>2
    <3>4. \A g \in Facts : g # f => fact'[g] = fact[g]
      BY <1>0, <3>1 DEF ProduceFact, EnqueueFact, FactEnqueued, TypeOK
    <3> QED  BY <3>3, <3>4
  <2>2. CASE ~\E f \in Facts : ProduceFact(f) \/ EnqueueFact(f) \/ FactEnqueued(f)
    <3>1. fact' = fact
      <4>1. CASE Surroundings \/ UNCHANGED vars
        BY <2>2, <4>1 DEF Surroundings, vars, Ingest, OwnEvidence, RetireMessage, RecordSource, RetireSource,
                    PrereqSettles, PrereqChanges, HumanRetry, Crash
      <4>2. CASE \E s \in Sources : TriageReply(s) \/ SourceProcessed(s) \/ TriageKnown(s)
                                    \/ TriageSkipped(s) \/ TriageAccept(s) \/ TriageFails(s)
        BY <4>2 DEF TriageReply, SourceProcessed, TriageKnown, TriageSkipped, TriageAccept, TriageFails
      <4>3. CASE \/ StartPass \/ Applied \/ Triaged \/ RecordApplication \/ RecordRejection
                 \/ Claim \/ PassEnds \/ ReleaseStale \/ BeginTurn \/ Commit \/ TurnFails
        BY <4>3 DEF StartPass, Applied, Triaged, RecordApplication, RecordRejection,
                    Claim, PassEnds, ReleaseStale, BeginTurn, Commit, TurnFails
      <4>4. CASE \/ \E o \in Ops : ApplyTask(o) \/ ApplyReply(o)
                 \/ \E a \in Arrangements : WakeArrangement(a)
        BY <4>4 DEF ApplyTask, ApplyReply, WakeArrangement
      <4> QED  BY <4>1, <4>2, <4>3, <4>4 DEF Next, Pass
    <3> QED  BY <3>1
  <2> QED  BY <2>1, <2>2
<1>3. \A o \in Ops : op[o].status = "rejected" => op'[o].status = "rejected"
  <2>1. ASSUME NEW o \in Ops, NEW st \in {"applied", "rejected"},
               op[o].status = "pending", op' = [op EXCEPT ![o].status = st]
        PROVE  \A p \in Ops : op[p].status = "rejected" => op'[p].status = "rejected"
    BY <2>1, StatusWritten
  <2>2. CASE Commit
    BY <2>2, CommitStep DEF Kept
  <2> QED  BY <2>1, <2>2, OpWrites
<1>4. ASSUME NEW a \in Arrangements
      PROVE  /\ arr[a].woken \subseteq arr'[a].woken
             /\ arr'[a].status = "none" => arr'[a].woken = {}
  <2>0. arr[a] \in ArrRow
    BY <1>0 DEF TypeOK
  <2>1. ASSUME NEW b \in Arrangements, WakeArrangement(b)
        PROVE  arr[a].woken \subseteq arr'[a].woken /\ (arr'[a].status = "none" => arr'[a].woken = {})
    <3>1. CASE a # b
      BY <1>0, <2>1, <3>1 DEF WakeArrangement
    <3>2. CASE a = b
      BY <1>0, <2>0, <2>1, <3>2 DEF WakeArrangement, CanWake, ArrRow, TypeOK
    <3> QED  BY <3>1, <3>2
  <2>2. CASE RecordRejection
    BY <1>0, <2>0, <2>2 DEF RecordRejection, ArrRow
  <2>3. CASE Commit
    <3>1. PICK n \in 0 .. BatchOps :
             \E new \in [1 .. n -> {p \in Proposals : Proposable(p)}],
                added \in Arrangements \cup {None}, refs \in SUBSET Exposed :
                   Answers(new) /\ Adopt(n, new) /\ Arrange(n, new, added, refs)
      BY <2>3 DEF Commit
    <3>2. PICK new \in [1 .. n -> {p \in Proposals : Proposable(p)}],
               added \in Arrangements \cup {None}, refs \in SUBSET Exposed :
                  Answers(new) /\ Adopt(n, new) /\ Arrange(n, new, added, refs)
      BY <3>1
    <3>3. NextDecision <= MaxDecisions
      BY <2>3 DEF Commit
    <3>4. Untaken(a, n) \/ Added(a, refs) \/ TakenUp(a)
      BY <3>2, <3>3, CommitArrs
    <3>5. CASE Added(a, refs)
      BY <1>0, <3>5 DEF Added, NoArr
    <3>6. CASE Untaken(a, n) \/ TakenUp(a)
      BY <1>0, <3>6 DEF Untaken, TakenUp
    <3> QED  BY <3>4, <3>5, <3>6
  <2>4. CASE ~Commit /\ ~RecordRejection /\ ~\E b \in Arrangements : WakeArrangement(b)
    <3>1. arr' = arr
      <4>1. CASE Surroundings \/ UNCHANGED vars
        BY <4>1 DEF Surroundings, vars, Ingest, OwnEvidence, RetireMessage, RecordSource, RetireSource,
                    PrereqSettles, PrereqChanges, ProduceFact, EnqueueFact, FactEnqueued, HumanRetry, Crash
      <4>2. CASE \E s \in Sources : TriageReply(s) \/ SourceProcessed(s) \/ TriageKnown(s)
                                    \/ TriageSkipped(s) \/ TriageAccept(s) \/ TriageFails(s)
        BY <4>2 DEF TriageReply, SourceProcessed, TriageKnown, TriageSkipped, TriageAccept, TriageFails
      <4>3. CASE \/ StartPass \/ Applied \/ Triaged \/ RecordApplication
                 \/ Claim \/ PassEnds \/ ReleaseStale \/ BeginTurn \/ TurnFails
        BY <4>3 DEF StartPass, Applied, Triaged, RecordApplication,
                    Claim, PassEnds, ReleaseStale, BeginTurn, TurnFails
      <4>4. CASE \E o \in Ops : ApplyTask(o) \/ ApplyReply(o)
        BY <4>4 DEF ApplyTask, ApplyReply
      <4> QED  BY <2>4, <4>1, <4>2, <4>3, <4>4 DEF Next, Pass
    <3> QED  BY <1>0, <3>1
  <2> QED  BY <2>1, <2>2, <2>3, <2>4
<1> QED  BY <1>1, <1>2, <1>3, <1>4

LEMMA OfferedReads ==
    /\ \A s \in Sources : SourceInput(s) \in Offered => triage[s].verdict # "none"
    /\ \A f \in Facts : FactInput(f) \in Offered => fact[f].enqueued
    /\ \A o \in Ops : RetryInput(o) \in Offered => op[o].status = "rejected"
    /\ \A a \in Arrangements, w \in Wakes : DependencyInput(a, w) \in Offered => w \in arr[a].woken
BY DEF Offered, SourceInput, FactInput, RetryInput, DependencyInput

LEMMA OfferedGrows ==
    ASSUME TypeInv, InboxInv, [Next]_vars
    PROVE  Offered \subseteq Offered'
<1>1. ASSUME NEW s \in Sources, triage[s].verdict # "none" PROVE SourceInput(s) \in Offered'
  BY <1>1, TellTales DEF Offered
<1>2. ASSUME NEW f \in Facts, fact[f].enqueued PROVE FactInput(f) \in Offered'
  BY <1>2, TellTales DEF Offered
<1>3. ASSUME NEW o \in Ops, op[o].status = "rejected" PROVE RetryInput(o) \in Offered'
  BY <1>3, TellTales DEF Offered
<1>4. ASSUME NEW i \in Inputs, NEW a \in Arrangements, NEW w \in arr[a].woken, i = DependencyInput(a, w)
      PROVE  i \in Offered'
  <2>1. w \in arr'[a].woken
    BY TellTales
  <2> QED  BY <1>4, <2>1 DEF Offered
<1> QED  BY <1>1, <1>2, <1>3, <1>4 DEF Offered

LEMMA BatchKinds ==
    ASSUME TypeInv, InboxInv, [Next]_vars
    PROVE  \/ UNCHANGED batches
           \/ \E i \in Inputs : Offers(i)
           \/ Claims
           \/ \E S \in SUBSET active : Drops(S)
           \/ Consumes
<1>0. TypeOK /\ AtWork
  BY DEF TypeInv
<1>1. ASSUME NEW f \in Facts, EnqueueFact(f) PROVE Offers(FactInput(f))
  <2>1. FactInput(f) \in Inputs \ Offered
    BY <1>1, OfferedReads DEF EnqueueFact, Inputs
  <2>2. fact'[f].enqueued
    BY <1>0, <1>1 DEF EnqueueFact, TypeOK
  <2>3. FactInput(f) \in Offered'
    BY <2>2 DEF Offered
  <2> QED  BY <1>1, <2>1, <2>3 DEF EnqueueFact, Offers
<1>2. ASSUME NEW s \in Sources, TriageAccept(s) PROVE UNCHANGED batches \/ Offers(SourceInput(s))
  <2>1. SourceInput(s) \in Inputs \ Offered
    BY <1>2, OfferedReads DEF TriageAccept, Inputs
  <2>2. triage'[s].verdict # "none"
    BY <1>0, <1>2 DEF TriageAccept, TypeOK
  <2>3. SourceInput(s) \in Offered'
    BY <2>2 DEF Offered
  <2> QED  BY <1>2, <2>1, <2>3 DEF TriageAccept, Offers, batches
<1>3. CASE RecordRejection
  <2>1. PICK o \in Ops : /\ o = router.op /\ op[o].status = "pending"
                         /\ op' = [op EXCEPT ![o].status = "rejected"]
    BY <1>0, <1>3 DEF RecordRejection, AtWork
  <2>2. RetryInput(o) \in Inputs \ Offered
    BY <2>1, OfferedReads DEF Inputs
  <2>3. op'[o].status = "rejected"
    BY <2>1, StatusWritten
  <2>4. RetryInput(o) \in Offered'
    BY <2>3 DEF Offered
  <2> QED  BY <1>3, <2>1, <2>2, <2>4 DEF RecordRejection, Offers
<1>4. ASSUME NEW a \in Arrangements, WakeArrangement(a) PROVE \E i \in Inputs : Offers(i)
  <2>1. PICK w \in Wakes : w = <<arr[a].rev, prereq.version>>
    BY <1>0 DEF TypeOK, ArrRow, Wakes
  <2>2. DependencyInput(a, w) \in Inputs \ Offered
    BY <1>4, <2>1, OfferedReads DEF WakeArrangement, CanWake, Inputs
  <2>3. w \in arr'[a].woken
    <3>1. arr[a] \in ArrRow
      BY <1>0 DEF TypeOK
    <3> QED  BY <1>0, <1>4, <2>1, <3>1 DEF WakeArrangement, TypeOK, ArrRow
  <2>4. DependencyInput(a, w) \in Offered'
    BY <2>2, <2>3 DEF Offered
  <2> QED  BY <1>4, <2>1, <2>2, <2>4 DEF WakeArrangement, Offers
<1>5. CASE Claim
  <2>1. CASE active = {}
    BY <1>5, <2>1 DEF Claim, Claims
  <2>2. CASE active # {}
    BY <1>5, <2>2 DEF Claim, batches
  <2> QED  BY <2>1, <2>2
<1>6. CASE ReleaseStale
  <2>1. Outdated \in SUBSET active /\ Drops(Outdated)
    BY <1>6 DEF ReleaseStale, Outdated, Drops
  <2> QED  BY <2>1
<1>7. CASE Commit
  <2>1. NextDecision \in 1 .. MaxDecisions /\ decision[NextDecision] = {}
    BY <1>7, NextDecisionIsFree, RouterAssumption DEF Commit, TypeInv
  <2>2. decision' = [decision EXCEPT ![NextDecision] = active]
    BY <1>7 DEF Commit
  <2>3. Consumed' = Consumed \cup active
    BY <1>0, <2>1, <2>2 DEF Consumed, TypeOK
  <2>4. active # {}
    BY <1>0, <1>7 DEF Commit, AtWork
  <2> QED  BY <1>7, <2>3, <2>4 DEF Commit, Consumes
<1>8. CASE /\ ~Claim /\ ~ReleaseStale /\ ~Commit /\ ~RecordRejection
           /\ ~\E f \in Facts : EnqueueFact(f)
           /\ ~\E s \in Sources : TriageAccept(s)
           /\ ~\E a \in Arrangements : WakeArrangement(a)
  <2>1. CASE Surroundings \/ UNCHANGED vars
    BY <1>8, <2>1 DEF Surroundings, vars, batches, Ingest, OwnEvidence, RetireMessage, RecordSource, RetireSource,
                PrereqSettles, PrereqChanges, ProduceFact, FactEnqueued, HumanRetry, Crash
  <2>2. CASE \E s \in Sources : TriageReply(s) \/ SourceProcessed(s) \/ TriageKnown(s)
                                \/ TriageSkipped(s) \/ TriageFails(s)
    BY <2>2 DEF TriageReply, SourceProcessed, TriageKnown, TriageSkipped, TriageFails
  <2>3. CASE StartPass \/ Applied \/ Triaged \/ RecordApplication \/ PassEnds \/ BeginTurn \/ TurnFails
    BY <2>3 DEF StartPass, Applied, Triaged, RecordApplication, PassEnds, BeginTurn, TurnFails
  <2>4. CASE \E o \in Ops : ApplyTask(o) \/ ApplyReply(o)
    BY <2>4 DEF ApplyTask, ApplyReply
  <2> QED  BY <1>8, <2>1, <2>2, <2>3, <2>4 DEF Next, Pass
<1>9. \A f \in Facts : FactInput(f) \in Inputs
  BY DEF Inputs
<1>10. \A s \in Sources : SourceInput(s) \in Inputs
  BY DEF Inputs
<1> QED  BY <1>1, <1>2, <1>3, <1>4, <1>5, <1>6, <1>7, <1>8, <1>9, <1>10

LEMMA InboxInit == Init => InboxInv
BY DEF Init, NoArr, InboxInv, Apart, Consumed

LEMMA InboxStep ==
    ASSUME TypeInv, InboxInv, [Next]_vars
    PROVE  InboxInv'
<1>0. Apart /\ queue \cup active \cup abandoned \cup Consumed \subseteq Offered /\ Offered \subseteq Offered'
  BY OfferedGrows DEF InboxInv
<1>1. \A a \in Arrangements : arr'[a].status = "none" => arr'[a].woken = {}
  BY TellTales
<1>2. ASSUME Apart', (queue \cup active \cup abandoned \cup Consumed)' \subseteq Offered' PROVE InboxInv'
  BY <1>1, <1>2 DEF InboxInv
<1>3. CASE UNCHANGED batches
  <2>1. Consumed' = Consumed
    BY <1>3 DEF batches, Consumed
  <2> QED  BY <1>0, <1>2, <1>3, <2>1 DEF batches, Apart
<1>4. ASSUME NEW i \in Inputs, Offers(i) PROVE InboxInv'
  <2>1. Consumed' = Consumed
    BY <1>4 DEF Offers, Consumed
  <2> QED  BY <1>0, <1>2, <1>4, <2>1 DEF Offers, Apart
<1>5. CASE Claims
  <2>1. Consumed' = Consumed
    BY <1>5 DEF Claims, Consumed
  <2> QED  BY <1>0, <1>2, <1>5, <2>1 DEF Claims, Apart
<1>6. ASSUME NEW S \in SUBSET active, Drops(S) PROVE InboxInv'
  <2>1. Consumed' = Consumed
    BY <1>6 DEF Drops, Consumed
  <2> QED  BY <1>0, <1>2, <1>6, <2>1 DEF Drops, Apart
<1>7. CASE Consumes
  BY <1>0, <1>2, <1>7 DEF Consumes, Apart
<1> QED  BY <1>3, <1>4, <1>5, <1>6, <1>7, BatchKinds

-----------------------------------------------------------------------------
(* The router implements the inbox.                                            *)

PlaceReads ==
    \A i \in Inputs :
        /\ Place[i] = "queued" <=> i \in queue
        /\ Place[i] = "claimed" <=> i \in active
        /\ Place[i] = "dropped" <=> i \in abandoned
        /\ Place[i] = "consumed" <=> i \in Consumed
        /\ Place[i] = "out" <=> i \notin queue \cup active \cup abandoned \cup Consumed
        /\ Place[i] \in {"queued", "claimed", "dropped", "consumed", "out"}

LEMMA PlacesRead == Apart => PlaceReads
<1> SUFFICES ASSUME Apart, NEW i \in Inputs
             PROVE  /\ Place[i] = "queued" <=> i \in queue
                    /\ Place[i] = "claimed" <=> i \in active
                    /\ Place[i] = "dropped" <=> i \in abandoned
                    /\ Place[i] = "consumed" <=> i \in Consumed
                    /\ Place[i] = "out" <=> i \notin queue \cup active \cup abandoned \cup Consumed
                    /\ Place[i] \in {"queued", "claimed", "dropped", "consumed", "out"}
  BY DEF PlaceReads
<1>1. Place[i] = IF i \in queue THEN "queued" ELSE IF i \in active THEN "claimed"
                 ELSE IF i \in abandoned THEN "dropped"
                 ELSE IF \E d \in 1 .. MaxDecisions : i \in decision[d] THEN "consumed" ELSE "out"
  BY DEF Place
<1>2. (\E d \in 1 .. MaxDecisions : i \in decision[d]) <=> i \in Consumed
  BY DEF Consumed
<1> QED  BY <1>1, <1>2 DEF Apart

PlaceFunction == Place = [i \in Inputs |-> Place[i]]

LEMMA PlaceIsFunction == PlaceFunction
BY DEF Place, PlaceFunction

LEMMA InboxSimulation ==
    ASSUME TypeInv, InboxInv, [Next]_vars
    PROVE  [Batches!Next]_Place
<1>1. Apart /\ PlaceReads
  BY PlacesRead DEF InboxInv
<1>2. Apart' /\ PlaceReads'
  <2>1. Apart'
    BY InboxStep DEF InboxInv
  <2> QED  BY <2>1, PlacesRead, PTL
<1>3. Place = [i \in Inputs |-> Place[i]] /\ Place' = [i \in Inputs |-> Place'[i]]
  <2>1. PlaceFunction /\ PlaceFunction'
    BY PlaceIsFunction, PTL
  <2> QED  BY <2>1 DEF PlaceFunction
<1>4. CASE UNCHANGED batches
  BY <1>4 DEF batches, Place
<1>5. ASSUME NEW i \in Inputs, Offers(i) PROVE Batches!Next
  <2>1. Consumed' = Consumed /\ i \notin queue \cup active \cup abandoned \cup Consumed
    BY <1>5 DEF Offers, Consumed, InboxInv
  <2>2. Place[i] = "out" /\ Place'[i] = "queued"
    BY <1>1, <1>2, <1>5, <2>1 DEF PlaceReads, Offers
  <2>3. \A j \in Inputs : j # i => Place'[j] = Place[j]
    BY <1>1, <1>2, <1>5, <2>1 DEF PlaceReads, Offers
  <2>4. Place' = [Place EXCEPT ![i] = "queued"]
    BY <1>3, <2>2, <2>3
  <2> QED  BY <2>2, <2>4 DEF Batches!Next, Batches!Offer
<1>6. CASE Claims
  <2>1. Consumed' = Consumed
    BY <1>6 DEF Claims, Consumed
  <2>2. \A j \in Inputs : Place'[j] = IF Place[j] = "queued" THEN "claimed" ELSE Place[j]
    BY <1>1, <1>2, <1>6, <2>1 DEF PlaceReads, Claims
  <2>3. Place' = [j \in Inputs |-> IF Place[j] = "queued" THEN "claimed" ELSE Place[j]]
    BY <1>3, <2>2
  <2>4. Batches!At("claimed") = {} /\ Batches!At("queued") # {}
    BY <1>1, <1>6 DEF PlaceReads, Claims, Batches!At, TypeInv, TypeOK
  <2> QED  BY <2>3, <2>4 DEF Batches!Next, Batches!Claim
<1>7. ASSUME NEW S \in SUBSET active, Drops(S) PROVE Batches!Next
  <2>1. Consumed' = Consumed
    BY <1>7 DEF Drops, Consumed
  <2>2. \A j \in Inputs : Place'[j] = IF j \in S THEN "dropped"
                                      ELSE IF Place[j] = "claimed" THEN "queued" ELSE Place[j]
    BY <1>1, <1>2, <1>7, <2>1 DEF PlaceReads, Drops
  <2>3. Place' = [j \in Inputs |-> IF j \in S THEN "dropped"
                                   ELSE IF Place[j] = "claimed" THEN "queued" ELSE Place[j]]
    BY <1>3, <2>2
  <2>4. S \in SUBSET Batches!At("claimed") /\ S # {}
    BY <1>1, <1>7 DEF PlaceReads, Drops, Batches!At, TypeInv, TypeOK
  <2> QED  BY <2>3, <2>4 DEF Batches!Next, Batches!Drop
<1>8. CASE Consumes
  <2>1. \A j \in Inputs : Place'[j] = IF Place[j] = "claimed" THEN "consumed" ELSE Place[j]
    BY <1>1, <1>2, <1>8 DEF PlaceReads, Consumes
  <2>2. Place' = [j \in Inputs |-> IF Place[j] = "claimed" THEN "consumed" ELSE Place[j]]
    BY <1>3, <2>1
  <2>3. Batches!At("claimed") # {}
    BY <1>1, <1>8 DEF PlaceReads, Consumes, Batches!At, TypeInv, TypeOK
  <2> QED  BY <2>2, <2>3 DEF Batches!Next, Batches!Consume
<1> QED  BY <1>4, <1>5, <1>6, <1>7, <1>8, BatchKinds

(* Every input the router is given (a message version, a fact, a rejected      *)
(* operation, a wake) comes before its model once: it is decided on in one     *)
(* decision or dropped as stale, and neither crashes nor failed turns nor      *)
(* releases repeat or lose it.                                                 *)
THEOREM RouterImplementsInbox == Spec => ImplementsInbox
<1>1. Init => Batches!Init
  <2> SUFFICES ASSUME Init PROVE Batches!Init
    OBVIOUS
  <2>1. \A i \in Inputs : i \notin queue /\ i \notin active /\ i \notin abandoned
                          /\ ~\E d \in 1 .. MaxDecisions : i \in decision[d]
    BY DEF Init
  <2> QED  BY <2>1 DEF Place, Batches!Init
<1>2. TypeInv /\ InboxInv /\ [Next]_vars => InboxInv' /\ [Batches!Next]_Place
  BY InboxStep, InboxSimulation
<1> QED  BY <1>1, <1>2, InboxInit, TypeInvInvariant, PTL DEF Spec, ImplementsInbox, Batches!Spec

=============================================================================
