------------------------ MODULE MCConversationRouter ------------------------
(* Instances of ConversationRouter for TLC: two messages, an arrangement and *)
(* a fact.  Questions that need large bounds for their own part share a run: *)
(* each behaviour goes as far as one of the cases below.                     *)
EXTENDS ConversationRouter

CONSTANTS m1, m2, a1, f1

Arranged == \E a \in Arrangements : arr[a].status # "none"
Reported == \E f \in Facts : fact[f].state # "none"
Failing == failed \cup retrying # {}
Edited(m) == message[m].version > 1
Owned == \E m \in Messages : message[m].own # "no"
Crowded == message[m2].version > 0
Steady == prereq.version = 1

\* a reply that was prepared and is not on record
HalfDone ==
    \/ \E s \in Sources : triage[s].reply = "pending" /\ <<0, s>> \in outbox
    \/ \E o \in Ops : op[o].status = "pending" /\ \E s \in Sources : <<o, s>> \in outbox

Brief == Steady /\ Decided <= 2 /\ Cardinality(Decisions) <= 2

\* one message that is edited, and fails in any one way or turns out to be own
OneMessage ==
    /\ Brief /\ ~Arranged /\ ~Reported /\ ~Crowded
    /\ Failing => ~Owned /\ Cardinality(failed) <= 1
    /\ Owned \/ HalfDone => Decided <= 1
    /\ Failing \/ Owned => crashes = 0

\* two messages that are decided on together or apart
TwoMessages == Brief /\ ~Arranged /\ ~Reported /\ ~Failing /\ (\A m \in Messages : ~Edited(m)) /\ ~Owned

\* a fact of a task, of which a source may turn out to be own
OneFact == Brief /\ ~Arranged /\ ~Crowded /\ ~Failing /\ \A m \in Messages : ~Edited(m)

\* an arrangement that is woken, rejected and retried, beside one other operation at most
OneArrangement ==
    /\ ~Reported /\ ~Crowded /\ ~Failing /\ (\A m \in Messages : ~Edited(m)) /\ ~Owned
    /\ Cardinality({o \in Ops : op[o].status # "absent" /\ op[o].arr = None}) <= 1

SafetyFocus == OneMessage \/ TwoMessages \/ OneFact \/ OneArrangement

SafetySpec == Init /\ [][Next /\ SafetyFocus']_vars

-----------------------------------------------------------------------------
(* A rejected action can always be retried within the bounds.                *)
FirstOps == Cardinality({o \in Ops : op[o].status # "absent" /\ op[o].retryOf = 0})

\* one message, with a fault, a crash or a prerequisite that changes
EditedMessage ==
    /\ ~Crowded /\ FirstOps <= 2
    /\ Failing => Steady /\ crashes = 0
    /\ Steady \/ crashes = 0

\* an action on two messages of which one is edited
SharedAction ==
    /\ ~Edited(m2) /\ ~Failing /\ crashes = 0
    /\ FirstOps <= 1 /\ Cardinality(Decisions) <= 2
    /\ \A o \in Ops : op[o].kind = "task"
    /\ \A s \in Sources : triage[s].verdict # "silent" /\ triage[s].reply = "none"

LivenessSpec == Init /\ [][Next /\ (EditedMessage \/ SharedAction)']_vars /\ Fairness
=============================================================================
