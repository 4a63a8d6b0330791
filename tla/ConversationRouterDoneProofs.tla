--------------------- MODULE ConversationRouterDoneProofs ----------------------
(* More proofs about ConversationRouter: a message counts as processed only    *)
(* when everything decided on it took effect, perhaps in a retry of a retry.   *)
EXTENDS ConversationRouterProofs, WellFoundedInduction

-----------------------------------------------------------------------------
(* Fulfilled is defined by recursion from an operation to the one that retries *)
(* it.  Retries are numbered upwards and numbers are bounded, so that there is *)
(* such a function, and a last operation in every set.                         *)

LEMMA NatLess == IsWellFoundedOn({ss \in Nat \X Nat : ss[1] < ss[2]}, Nat)
BY NatLessThanWellFounded DEF OpToRel

LEMMA LastOne ==
    ASSUME NEW S \in SUBSET Ops, S # {}
    PROVE  \E o \in S : \A p \in S : p <= o
<1> DEFINE T == {MaxOps - o : o \in S}
           R == {ss \in Nat \X Nat : ss[1] < ss[2]}
<1>0. \A o \in S : o \in Nat /\ MaxOps - o \in Nat
  BY RouterAssumption DEF Ops
<1>1. T \subseteq Nat /\ T # {}
  BY <1>0
<1>2. \E n \in T : \A m \in T : ~(<<m, n>> \in R)
  <2> HIDE DEF T, R
  <2>1. IsWellFoundedOn(R, Nat) BY NatLess DEF R
  <2> QED BY <1>1, <2>1, WFMin
<1>3. PICK n \in T : \A m \in T : <<m, n>> \notin R
  BY <1>2
<1>4. \A m \in T : ~(m < n)
  BY <1>1, <1>3
<1>5. PICK o \in S : n = MaxOps - o
  BY <1>3
<1>6. \A p \in S : ~(MaxOps - p < MaxOps - o)
  BY <1>4, <1>5
<1> QED  BY <1>6, RouterAssumption DEF Ops

Settles(done, o) ==
    \/ op[o].status = "applied"
    \/ /\ op[o].status = "rejected"
       /\ op[o].retriedBy > o
       /\ done[op[o].retriedBy]

\* the operations that every set closed under Settles contains
LEMMA SettledExists ==
    ASSUME TypeOK
    PROVE  \E done : done = [o \in Ops |-> Settles(done, o)]
<1> DEFINE Closed(X) == \A o \in Ops :
              op[o].status = "applied"
              \/ (op[o].status = "rejected" /\ op[o].retriedBy > o /\ op[o].retriedBy \in X) => o \in X
           L == {o \in Ops : \A X \in SUBSET Ops : Closed(X) => o \in X}
           f == [o \in Ops |-> o \in L]
<1>1. \A o \in Ops : op[o].retriedBy > o => op[o].retriedBy \in Ops
  BY RouterAssumption DEF TypeOK, OpRow, Ops
<1>2. Closed(L)
  OBVIOUS
<1>3. ASSUME NEW o \in L PROVE Settles(f, o)
  <2>1. ~Closed(L \ {o})
    OBVIOUS
  <2>2. PICK p \in Ops : /\ p \notin L \ {o}
                         /\ \/ op[p].status = "applied"
                            \/ (op[p].status = "rejected" /\ op[p].retriedBy > p /\ op[p].retriedBy \in L \ {o})
    BY <2>1
  <2>3. p = o
    BY <1>2, <2>2
  <2> QED  BY <1>1, <2>2, <2>3 DEF Settles
<1>4. ASSUME NEW o \in Ops, Settles(f, o) PROVE o \in L
  BY <1>1, <1>2, <1>4 DEF Settles
<1>5. f = [o \in Ops |-> Settles(f, o)]
  <2>1. ASSUME NEW o \in Ops PROVE (o \in L) = Settles(f, o)
    <3>1. (o \in L) \in BOOLEAN /\ Settles(f, o) \in BOOLEAN
      BY <1>1 DEF Settles
    <3>2. (o \in L) <=> Settles(f, o)
      BY <1>3, <1>4
    <3> HIDE DEF L, f
    <3> QED  BY <3>1, <3>2
  <2> HIDE DEF L
  <2> QED  BY <2>1
<1> QED  BY <1>5

LEMMA FulfilledIs == TypeOK => Fulfilled = [o \in Ops |-> Settles(Fulfilled, o)]
<1>1. Fulfilled = CHOOSE done : done = [o \in Ops |-> Settles(done, o)]
  BY DEF Fulfilled, Settles
<1> QED  BY <1>1, SettledExists

LEMMA FulfilledReads ==
    ASSUME TypeOK, NEW o \in Ops, Fulfilled[o]
    PROVE  \/ op[o].status = "applied"
           \/ /\ op[o].status = "rejected" /\ op[o].retriedBy > o
              /\ op[o].retriedBy \in Ops /\ Fulfilled[op[o].retriedBy]
<1>1. op[o].retriedBy > o => op[o].retriedBy \in Ops
  BY RouterAssumption DEF TypeOK, OpRow, Ops
<1> QED  BY <1>1, FulfilledIs DEF Settles

-----------------------------------------------------------------------------
(* What retries an operation does the same, and comes later.                   *)

Repeats(p, o) ==
    /\ p \in Ops /\ p > o
    /\ op[p].status # "absent" /\ op[p].kind = "task"
    /\ op[p].arr = op[o].arr /\ op[p].refs = op[o].refs

RetryInv == \A o \in Ops : op[o].retriedBy # 0 =>
    op[o].status = "rejected" /\ Repeats(op[o].retriedBy, o)

LEMMA RetryInit == Init => RetryInv
BY DEF Init, NoOp, RetryInv

SameOp(o) ==
    /\ op'[o].kind = op[o].kind /\ op'[o].refs = op[o].refs /\ op'[o].dec = op[o].dec
    /\ op'[o].arr = op[o].arr /\ op'[o].retriedBy = op[o].retriedBy

\* a write of a status keeps the rest of every operation
LEMMA RestKept ==
    ASSUME TypeInv, NEW o \in Ops, NEW st \in {"applied", "rejected"}, op' = [op EXCEPT ![o].status = st]
    PROVE  \A p \in Ops : SameOp(p)
<1>1. op[o] \in OpRow /\ TypeOK
  BY OpFields DEF TypeInv
<1>2. op'[o] = [op[o] EXCEPT !.status = st]
  BY <1>1, OpFields
<1>3. SameOp(o)
  BY <1>1, <1>2 DEF OpRow, SameOp
<1> QED  BY <1>3, StatusWritten DEF SameOp

\* a commit numbers the operations of a decision on, and marks what they retry
LEMMA CommitRetries ==
    ASSUME TypeInv, Commit
    PROVE  \E N \in SUBSET Ops :
              /\ \A o \in Ops \ N : Kept(o)
              /\ \A o \in N : /\ op[o].status = "absent" /\ op'[o].status = "pending"
                             /\ op'[o].dec = NextDecision /\ op'[o].retriedBy = 0
              /\ \A o \in Ops \ N : \/ op'[o].retriedBy = op[o].retriedBy
                                    \/ op[o].status = "rejected" /\ Repeats(op[o].retriedBy, o)'
<1> USE RouterAssumption
<1>1. PICK n \in 0 .. BatchOps :
         \E new \in [1 .. n -> {p \in Proposals : Proposable(p)}],
            added \in Arrangements \cup {None}, refs \in SUBSET Exposed :
               Answers(new) /\ Adopt(n, new) /\ Arrange(n, new, added, refs)
  BY DEF Commit
<1>2. PICK new \in [1 .. n -> {p \in Proposals : Proposable(p)}] : Adopt(n, new)
  BY <1>1
<1>3. NextDecision <= MaxDecisions
  BY DEF Commit
<1>4. /\ Decided \in 0 .. MaxOps /\ n \in Nat /\ Decided + n <= MaxOps
      /\ \A o \in Ops \ NewOps(n) : Kept(o)
      /\ \A o \in NewOps(n) : op'[o].status = "pending" /\ op'[o].dec = NextDecision
  BY <1>2, <1>3, CommitOps
<1>5. \A o \in NewOps(n) : op[o].status = "absent"
  BY DecidedIsLast, <1>4 DEF NewOps, Ops, TypeInv
<1>6. ASSUME NEW j \in 1 .. n
      PROVE  /\ Decided + j \in NewOps(n)
             /\ op'[Decided + j].status = "pending" /\ op'[Decided + j].kind = new[j].kind
             /\ op'[Decided + j].refs = new[j].refs /\ op'[Decided + j].arr = new[j].arr
             /\ op'[Decided + j].retriedBy = 0
  <2>1. /\ Decided + j \in Ops /\ Decided + j \in Decided + 1 .. Decided + n
        /\ (Decided + j) - Decided = j /\ Decided + j \in NewOps(n)
    BY <1>4 DEF Ops, NewOps
  <2>2. PICK p \in Proposals : p = new[j]
    OBVIOUS
  <2>3. op'[Decided + j] = [status |-> "pending", kind |-> p.kind, refs |-> p.refs, dec |-> NextDecision,
                            arr |-> p.arr, dep |-> p.dep, retryOf |-> p.retryOf, retriedBy |-> 0]
    BY <1>2, <2>1, <2>2 DEF Adopt
  <2> QED  BY <2>1, <2>2, <2>3
<1>7. ASSUME NEW o \in NewOps(n) PROVE op'[o].retriedBy = 0
  <2>1. o - Decided \in 1 .. n /\ Decided + (o - Decided) = o
    BY <1>4 DEF NewOps, Ops
  <2>2. PICK j \in 1 .. n : Decided + j = o
    BY <2>1
  <2>3. op'[Decided + j].retriedBy = 0
    BY <1>6
  <2> QED  BY <2>2, <2>3
<1>8. ASSUME NEW o \in Ops, o \notin NewOps(n)
      PROVE  \/ op'[o].retriedBy = op[o].retriedBy
             \/ op[o].status = "rejected" /\ Repeats(op[o].retriedBy, o)'
  <2>1. op[o] \in OpRow /\ o \notin Decided + 1 .. Decided + n
    BY <1>4, <1>8 DEF TypeInv, TypeOK, NewOps, Ops
  <2>2. CASE ~\E j \in 1 .. n : new[j].retryOf = o
    BY <1>2, <2>1, <2>2 DEF Adopt
  <2>3. CASE \E j \in 1 .. n : new[j].retryOf = o
    <3>1. PICK j \in 1 .. n : j = (CHOOSE k \in 1 .. n : new[k].retryOf = o) /\ new[j].retryOf = o
      BY <2>3
    <3>2. op'[o] = [op[o] EXCEPT !.retriedBy = Decided + j]
      BY <1>2, <2>1, <2>3, <3>1 DEF Adopt
    <3>3. op'[o].retriedBy = Decided + j
      BY <2>1, <3>2 DEF OpRow
    <3>4. new[j] \in Proposals /\ Proposable(new[j])
      OBVIOUS
    <3>5. /\ op[o].status = "rejected" /\ new[j].kind = "task"
          /\ new[j].arr = op[o].arr /\ new[j].refs = op[o].refs
      BY <3>1, <3>4 DEF Proposals, Proposable, Ops
    <3>6. o <= Decided /\ Decided + j > o
      BY <1>4, <3>5, DecidedIsLast DEF TypeInv, Ops
    <3>7. Kept(o)
      BY <1>4, <1>8
    <3>8. /\ Decided + j \in Ops /\ op'[Decided + j].status = "pending"
          /\ op'[Decided + j].kind = "task" /\ op'[Decided + j].arr = op'[o].arr
          /\ op'[Decided + j].refs = op'[o].refs
      BY <1>6, <3>5, <3>7 DEF NewOps, Kept
    <3> QED  BY <3>3, <3>5, <3>6, <3>8 DEF Repeats
  <2> QED  BY <2>2, <2>3
<1> QED  BY <1>4, <1>5, <1>7, <1>8 DEF NewOps

LEMMA RetryStep ==
    ASSUME TypeInv, RetryInv, [Next]_vars
    PROVE  RetryInv'
<1>1. CASE op' = op
  BY <1>1 DEF RetryInv, Repeats, Ops
<1>2. ASSUME NEW o \in Ops, NEW st \in {"applied", "rejected"},
             op[o].status = "pending", op' = [op EXCEPT ![o].status = st]
      PROVE  RetryInv'
  <2>1. /\ \A p \in Ops : SameOp(p)
        /\ op'[o].status = st /\ \A p \in Ops \ {o} : op'[p] = op[p]
    BY <1>2, RestKept, StatusWritten
  <2>2. ASSUME NEW p \in Ops, op'[p].retriedBy # 0
        PROVE  op'[p].status = "rejected" /\ Repeats(op[p].retriedBy, p)'
    <3>1. op[p].retriedBy # 0 /\ op[p].status = "rejected" /\ Repeats(op[p].retriedBy, p)
      BY <2>1, <2>2 DEF RetryInv, SameOp
    <3>2. op'[p] = op[p]
      BY <1>2, <2>1, <3>1
    <3> QED  BY <1>2, <2>1, <3>1, <3>2 DEF Repeats, SameOp, Ops
  <2> QED  BY <2>2 DEF RetryInv, Ops
<1>3. CASE Commit
  <2>1. PICK N \in SUBSET Ops :
           /\ \A o \in Ops \ N : Kept(o)
           /\ \A o \in N : /\ op[o].status = "absent" /\ op'[o].status = "pending"
                          /\ op'[o].dec = NextDecision /\ op'[o].retriedBy = 0
           /\ \A o \in Ops \ N : \/ op'[o].retriedBy = op[o].retriedBy
                                 \/ op[o].status = "rejected" /\ Repeats(op[o].retriedBy, o)'
    BY <1>3, CommitRetries
  <2>2. ASSUME NEW o \in Ops, op'[o].retriedBy # 0
        PROVE  op'[o].status = "rejected" /\ Repeats(op[o].retriedBy, o)'
    <3>1. o \notin N /\ Kept(o)
      BY <2>1, <2>2
    <3>2. CASE op[o].status = "rejected" /\ Repeats(op[o].retriedBy, o)'
      BY <3>1, <3>2 DEF Kept
    <3>3. CASE op'[o].retriedBy = op[o].retriedBy
      <4>1. op[o].status = "rejected" /\ Repeats(op[o].retriedBy, o)
        BY <2>2, <3>3 DEF RetryInv
      <4>2. op[o].retriedBy \in Ops \ N
        BY <2>1, <4>1 DEF Repeats
      <4>3. Kept(op[o].retriedBy)
        BY <2>1, <4>2
      <4> QED  BY <3>1, <3>3, <4>1, <4>3 DEF Repeats, Kept, Ops
    <3> QED  BY <2>1, <3>1, <3>2, <3>3
  <2> QED  BY <2>2 DEF RetryInv, Ops
<1> QED  BY <1>1, <1>2, <1>3, OpWrites

LEMMA RetryInvariant == Spec => []RetryInv
<1>1. TypeInv /\ RetryInv /\ [Next]_vars => RetryInv'
  BY RetryStep
<1> QED  BY RetryInit, <1>1, TypeInvInvariant, PTL DEF Spec

-----------------------------------------------------------------------------
(* What is done stays done.                                                    *)

TookEffect(p, o) ==
    /\ op[p].status = "applied" /\ op[p].arr = op[o].arr /\ op[p].refs = op[o].refs
    /\ op[o].kind = "task" => p \in receipts

\* the operation took effect, itself or in a later one
Done(o) == \E p \in Ops : (p = o \/ (p > o /\ op[o].status = "rejected")) /\ TookEffect(p, o)

LEMMA FulfilledIsDone ==
    ASSUME TypeOK, RetryInv, RecordInv, NEW o \in Ops, Fulfilled[o]
    PROVE  Done(o)
<1> DEFINE Bad == {p \in Ops : Fulfilled[p] /\ ~Done(p)}
<1>1. SUFFICES ASSUME Bad # {} PROVE FALSE
  OBVIOUS
<1>2. PICK p \in Bad : \A q \in Bad : q <= p
  BY <1>1, LastOne
<1>3. p \in Ops /\ Fulfilled[p] /\ ~Done(p)
  BY <1>2
<1>4. CASE op[p].status = "applied"
  BY <1>3, <1>4 DEF Done, TookEffect, RecordInv, RecordsAgree
<1>5. CASE /\ op[p].status = "rejected" /\ op[p].retriedBy > p
           /\ op[p].retriedBy \in Ops /\ Fulfilled[op[p].retriedBy]
  <2>1. PICK q \in Ops : q = op[p].retriedBy
    BY <1>5
  <2>2. q > p /\ Fulfilled[q] /\ op[q].kind = "task" /\ op[q].arr = op[p].arr /\ op[q].refs = op[p].refs
    BY <1>3, <1>5, <2>1, RouterAssumption DEF RetryInv, Repeats, Ops
  <2>3. Done(q)
    BY <1>2, <2>2, RouterAssumption DEF Ops
  <2>4. PICK r \in Ops : (r = q \/ r > q) /\ TookEffect(r, q)
    BY <2>3 DEF Done
  <2>5. r > p /\ TookEffect(r, p)
    BY <1>3, <2>2, <2>4, RouterAssumption DEF TookEffect, Ops
  <2> QED  BY <1>3, <1>5, <2>5 DEF Done
<1> QED  BY <1>3, <1>4, <1>5, FulfilledReads

LEMMA OperationKept ==
    ASSUME TypeInv, [Next]_vars, NEW o \in Ops, op[o].status # "absent"
    PROVE  /\ op'[o].kind = op[o].kind /\ op'[o].refs = op[o].refs
           /\ op'[o].arr = op[o].arr /\ op'[o].dec = op[o].dec
           /\ op[o].status # "pending" => op'[o].status = op[o].status
<1>1. ASSUME NEW p \in Ops, NEW st \in {"applied", "rejected"},
             op[p].status = "pending", op' = [op EXCEPT ![p].status = st]
      PROVE  SameOp(o) /\ (op[o].status # "pending" => op'[o].status = op[o].status)
  BY <1>1, RestKept, StatusWritten
<1>2. CASE Commit
  BY <1>2, CommitRetries DEF Kept
<1> QED  BY <1>1, <1>2, OpWrites DEF SameOp

LEMMA ReceiptsKept ==
    ASSUME TypeInv, [Next]_vars
    PROVE  receipts \subseteq receipts'
<1>1. ASSUME NEW o \in Ops, ApplyTask(o) PROVE receipts \subseteq receipts'
  BY <1>1 DEF ApplyTask
<1>2. CASE \/ \E o \in Ops : ApplyReply(o)
           \/ RecordApplication \/ RecordRejection \/ Commit
  BY <1>2 DEF ApplyReply, RecordApplication, RecordRejection, Commit
<1> QED  BY <1>1, <1>2, StepKinds DEF Quiet

LEMMA DoneStays ==
    ASSUME TypeInv, [Next]_vars, NEW o \in Ops, op[o].status # "absent", Done(o)
    PROVE  Done(o)'
<1>1. PICK p \in Ops : (p = o \/ (p > o /\ op[o].status = "rejected")) /\ TookEffect(p, o)
  BY DEF Done
<1>2. op'[p].status = "applied" /\ op'[p].arr = op[p].arr /\ op'[p].refs = op[p].refs
  BY <1>1, OperationKept DEF TookEffect
<1>3. /\ op'[o].kind = op[o].kind /\ op'[o].arr = op[o].arr /\ op'[o].refs = op[o].refs
      /\ op[o].status = "rejected" => op'[o].status = "rejected"
  BY OperationKept
<1>4. TookEffect(p, o)'
  BY <1>1, <1>2, <1>3, ReceiptsKept DEF TookEffect
<1> QED  BY <1>1, <1>3, <1>4 DEF Done, Ops

\* a decision is made once, with all its operations
LEMMA DecisionKept ==
    ASSUME TypeInv, [Next]_vars, NEW d \in 1 .. MaxDecisions, decision[d] # {}
    PROVE  /\ decision[d] \subseteq decision'[d]
           /\ \A o \in Ops : op'[o].dec = d => op[o].dec = d
<1>1. CASE Commit
  <2>1. NextDecision # d
    BY NextDecisionIsFree, RouterAssumption DEF TypeInv
  <2>2. decision'[d] = decision[d]
    BY <1>1, <2>1 DEF Commit, TypeInv, TypeOK
  <2>3. PICK N \in SUBSET Ops : /\ \A o \in Ops \ N : Kept(o)
                                /\ \A o \in N : op'[o].dec = NextDecision
    BY <1>1, CommitRetries
  <2> QED  BY <2>1, <2>2, <2>3 DEF Kept
<1>2. CASE ~Commit
  <2>1. decision' = decision
    BY <1>2, StepKinds DEF Quiet, ApplyTask, ApplyReply, RecordApplication, RecordRejection, batches
  <2>2. ASSUME NEW p \in Ops, NEW st \in {"applied", "rejected"}, op' = [op EXCEPT ![p].status = st]
        PROVE  \A o \in Ops : op'[o].dec = op[o].dec
    BY <2>2, RestKept DEF SameOp
  <2> QED  BY <1>2, <2>1, <2>2, OpWrites
<1> QED  BY <1>1, <1>2

-----------------------------------------------------------------------------
(* Sources that are processed.                                                 *)

AllDone(s) == \E d \in 1 .. MaxDecisions :
    /\ SourceInput(s) \in decision[d]
    /\ \A o \in Ops : op[o].dec = d => Done(o)

RoutedInv ==
    /\ \A s \in Sources : source[s].routed = "done" =>
           triage[s].verdict = "silent" \/ (triage[s].verdict = "process" /\ AllDone(s))
    \* what is not there was not decided on
    /\ \A o \in Ops : op[o].status = "absent" => op[o].dec = 0

LEMMA RoutedSuffices == RoutedInv => RoutedIsDone
BY DEF RoutedInv, RoutedIsDone, AllDone, Done, TookEffect

LEMMA RoutedInit == Init => RoutedInv
BY DEF Init, NoOp, RoutedInv

LEMMA VerdictKept ==
    ASSUME TypeInv, [Next]_vars, NEW s \in Sources, triage[s].verdict # "none"
    PROVE  triage'[s].verdict = triage[s].verdict
<1>0. TypeOK
  BY DEF TypeInv
<1>1. ASSUME NEW t \in Sources, TriageReply(t) PROVE triage'[s].verdict = triage[s].verdict
  <2>1. triage[t] \in [verdict : {"none", "silent", "process"}, reply : {"none", "pending", "applied"}]
    BY <1>0 DEF TypeOK
  <2>2. [triage[t] EXCEPT !.reply = "applied"].verdict = triage[t].verdict
    BY <2>1
  <2>3. triage' = triage \/ triage' = [triage EXCEPT ![t] = [triage[t] EXCEPT !.reply = "applied"]]
    BY <1>0, <1>1 DEF TriageReply, TypeOK
  <2> QED  BY <1>0, <2>2, <2>3 DEF TypeOK
<1>2. ASSUME NEW t \in Sources, TriageAccept(t) PROVE triage'[s].verdict = triage[s].verdict
  BY <1>0, <1>2 DEF TriageAccept, TypeOK
<1>3. CASE ~\E t \in Sources : TriageReply(t) \/ TriageAccept(t)
  <2>1. CASE Surroundings \/ UNCHANGED vars
    BY <2>1 DEF Surroundings, vars, Ingest, OwnEvidence, RetireMessage, RecordSource, RetireSource,
                PrereqSettles, PrereqChanges, ProduceFact, EnqueueFact, FactEnqueued, HumanRetry, Crash
  <2>2. CASE \E t \in Sources : SourceProcessed(t) \/ TriageKnown(t) \/ TriageSkipped(t) \/ TriageFails(t)
    BY <2>2 DEF SourceProcessed, TriageKnown, TriageSkipped, TriageFails
  <2>3. CASE \/ StartPass \/ Applied \/ Triaged \/ RecordApplication \/ RecordRejection
             \/ Claim \/ PassEnds \/ ReleaseStale \/ BeginTurn \/ Commit \/ TurnFails
    BY <2>3 DEF StartPass, Applied, Triaged, RecordApplication, RecordRejection,
                Claim, PassEnds, ReleaseStale, BeginTurn, Commit, TurnFails
  <2>4. CASE \/ \E o \in Ops : ApplyTask(o) \/ ApplyReply(o)
             \/ \E a \in Arrangements : WakeArrangement(a)
    BY <2>4 DEF ApplyTask, ApplyReply, WakeArrangement
  <2> QED  BY <1>3, <2>1, <2>2, <2>3, <2>4 DEF Next, Pass
<1> QED  BY <1>1, <1>2, <1>3

\* only sourceProcessed routes a source
LEMMA RoutedBy ==
    ASSUME TypeInv, [Next]_vars, NEW s \in Sources, source'[s].routed = "done"
    PROVE  \/ source[s].routed = "done"
           \/ /\ SilentDue(s) \/ DecidedDue(s)
              /\ UNCHANGED <<triage, op, decision, receipts>>
<1>0. source \in [Sources -> [recorded : BOOLEAN, retired : BOOLEAN, routed : {"no", "done", "superseded"}]]
  BY DEF TypeInv, TypeOK
<1>1. ASSUME NEW t \in Sources, RecordSource(t) \/ RetireSource(t) PROVE source'[s].routed = source[s].routed
  BY <1>0, <1>1 DEF RecordSource, RetireSource
<1>2. ASSUME NEW t \in Sources, SourceProcessed(t)
      PROVE  \/ source'[s].routed = source[s].routed
             \/ /\ SilentDue(s) \/ DecidedDue(s)
                /\ UNCHANGED <<triage, op, decision, receipts>>
  <2>1. CASE s = t
    BY <1>2, <2>1 DEF SourceProcessed, batches
  <2>2. CASE s # t
    BY <1>0, <1>2, <2>2 DEF SourceProcessed
  <2> QED  BY <2>1, <2>2
<1>3. CASE ~\E t \in Sources : RecordSource(t) \/ RetireSource(t) \/ SourceProcessed(t)
  <2>1. source' = source
    <3>1. CASE Surroundings \/ UNCHANGED vars
      BY <1>3, <3>1 DEF Surroundings, vars, Ingest, OwnEvidence, RetireMessage,
                  PrereqSettles, PrereqChanges, ProduceFact, EnqueueFact, FactEnqueued, HumanRetry, Crash
    <3>2. CASE \E t \in Sources : TriageReply(t) \/ TriageAccept(t) \/ TriageKnown(t)
                                  \/ TriageSkipped(t) \/ TriageFails(t)
      BY <3>2 DEF TriageReply, TriageAccept, TriageKnown, TriageSkipped, TriageFails
    <3>3. CASE \/ StartPass \/ Applied \/ Triaged \/ RecordApplication \/ RecordRejection
               \/ Claim \/ PassEnds \/ ReleaseStale \/ BeginTurn \/ Commit \/ TurnFails
      BY <3>3 DEF StartPass, Applied, Triaged, RecordApplication, RecordRejection,
                  Claim, PassEnds, ReleaseStale, BeginTurn, Commit, TurnFails
    <3>4. CASE \/ \E o \in Ops : ApplyTask(o) \/ ApplyReply(o)
               \/ \E a \in Arrangements : WakeArrangement(a)
      BY <3>4 DEF ApplyTask, ApplyReply, WakeArrangement
    <3> QED  BY <1>3, <3>1, <3>2, <3>3, <3>4 DEF Next, Pass
  <2> QED  BY <2>1
<1> QED  BY <1>1, <1>2, <1>3

LEMMA RoutedStep ==
    ASSUME TypeInv, InboxInv, RecordInv, RetryInv, RoutedInv, [Next]_vars
    PROVE  RoutedInv'
<1>0. TypeOK
  BY DEF TypeInv
<1>1. ASSUME NEW s \in Sources, source'[s].routed = "done"
      PROVE  triage'[s].verdict = "silent" \/ (triage'[s].verdict = "process" /\ AllDone(s)')
  <2>1. CASE source[s].routed = "done"
    <3>1. CASE triage[s].verdict = "silent"
      BY <3>1, VerdictKept
    <3>2. CASE triage[s].verdict = "process" /\ AllDone(s)
      <4>1. PICK d \in 1 .. MaxDecisions :
               SourceInput(s) \in decision[d] /\ \A o \in Ops : op[o].dec = d => Done(o)
        BY <3>2 DEF AllDone
      <4>2. ASSUME NEW o \in Ops, op'[o].dec = d PROVE Done(o)'
        <5>1. op[o].dec = d
          BY <4>1, <4>2, DecisionKept
        <5>2. op[o].status # "absent"
          BY <5>1, RouterAssumption DEF RoutedInv
        <5> QED  BY <4>1, <5>1, <5>2, DoneStays
      <4>3. SourceInput(s) \in decision'[d]
        BY <4>1, DecisionKept
      <4> QED  BY <3>2, <4>2, <4>3, VerdictKept DEF AllDone, Ops
    <3> QED  BY <2>1, <3>1, <3>2 DEF RoutedInv
  <2>2. CASE SilentDue(s) /\ UNCHANGED triage
    BY <2>2 DEF SilentDue
  <2>3. CASE DecidedDue(s) /\ UNCHANGED <<triage, op, decision, receipts>>
    <3>1. PICK d \in 1 .. MaxDecisions : SourceInput(s) \in decision[d] /\ Complete(d)
      BY <2>3 DEF DecidedDue
    <3>2. triage[s].verdict # "none"
      BY <3>1, OfferedReads DEF InboxInv, Consumed
    <3>3. \A o \in Ops : op[o].dec = d => Done(o)
      BY <1>0, <3>1, FulfilledIsDone DEF Complete
    <3>4. AllDone(s)
      BY <3>1, <3>3 DEF AllDone
    <3>5. AllDone(s)'
      BY <2>3, <3>4 DEF AllDone, Done, TookEffect, Ops
    <3> QED  BY <1>0, <2>3, <3>2, <3>5 DEF TypeOK
  <2> QED  BY <1>1, <2>1, <2>2, <2>3, RoutedBy
<1>2. ASSUME NEW o \in Ops, op'[o].status = "absent" PROVE op'[o].dec = 0
  <2>1. CASE op' = op
    BY <1>2, <2>1 DEF RoutedInv
  <2>2. ASSUME NEW p \in Ops, NEW st \in {"applied", "rejected"}, op' = [op EXCEPT ![p].status = st]
        PROVE  op'[o].dec = 0
    <3>1. o # p /\ op'[o] = op[o]
      BY <1>2, <2>2, StatusWritten
    <3> QED  BY <1>2, <3>1 DEF RoutedInv
  <2>3. CASE Commit
    BY <1>2, <2>3, CommitRetries DEF Kept, RoutedInv
  <2> QED  BY <2>1, <2>2, <2>3, OpWrites
<1> QED  BY <1>1, <1>2 DEF RoutedInv, Ops, Sources

LEMMA InboxInvariant == Spec => []InboxInv
<1>1. TypeInv /\ InboxInv /\ [Next]_vars => InboxInv'
  BY InboxStep
<1> QED  BY InboxInit, <1>1, TypeInvInvariant, PTL DEF Spec

(* A source counts as processed only when every task action decided on it took *)
(* effect, itself or in the last of the operations that retried it one after   *)
(* the other; and no later rejection, retry, edit or crash takes that back.    *)
THEOREM ProcessedIsDone == Spec => []RoutedIsDone
<1>1. TypeInv /\ InboxInv /\ RecordInv /\ RetryInv /\ RoutedInv /\ [Next]_vars => RoutedInv'
  BY RoutedStep
<1>2. Spec => []RoutedInv
  BY RoutedInit, <1>1, TypeInvInvariant, InboxInvariant, RecordInvariant, RetryInvariant, PTL DEF Spec
<1> QED  BY <1>2, RoutedSuffices, PTL
=============================================================================
