------------------------- MODULE NotificationOutbox -------------------------
(***************************************************************************)
(* The notification outbox: the rows of dynamic_notifications, the store   *)
(* commands that move them (dynamic-task-store.js), the scanner and the    *)
(* operator's retry (task-session-service.js), the delivery procedure      *)
(* (notification-delivery.js) and a transport that may refuse a message,   *)
(* put it into the conversation, or lose its answer.                       *)
(*                                                                         *)
(* A command is one transaction, hence one action; between two commands of *)
(* a delivery anything may happen.  Retry times (nextAttemptAt, the        *)
(* transport backoff) are left out: an attempt may come at any time.       *)
(***************************************************************************)
EXTENDS Naturals, FiniteSets

CONSTANTS
    Notes,          \* notifications
    None,           \* "follows nothing"
    Delivery,       \* payload.deliveryId: the explanatory message of a part, or itself
    After,          \* payload.afterNotificationId
    Kind,           \* kind of each notification
    Refusals,       \* the ways the transport can prove it did not send each of them
    MaxAttempts,    \* bound on sendAttemptCount: the last attempt is not refused for retry
    MaxCrashes      \* bound on host crashes

Kinds == {"status", "question", "topic-reply", "router-reply", "fixed-topic-reply",
          "routing-clarification"}

(* Refusals: "marked" is the quote guard's refusal as the group adapter      *)
(* reports it, with knownNotSent and its proof; "unmarked" the same refusal  *)
(* from the direct adapter, whose request has no groupId and so no proof;    *)
(* "invalid" the rejection of a parameter before sending.                    *)
ASSUME OutboxAssumption ==
    /\ None \notin Notes
    /\ Delivery \in [Notes -> Notes]
    /\ After \in [Notes -> Notes \cup {None}]
    /\ \A n \in Notes : After[n] # n
    /\ Kind \in [Notes -> Kinds]
    /\ Refusals \in [Notes -> SUBSET {"marked", "unmarked", "invalid"}]
    /\ \A n \in Notes : Kind[n] = "question" => Refusals[n] \subseteq {"invalid"}   \* it quotes nothing
    /\ MaxAttempts \in Nat \ {0}
    /\ MaxCrashes \in Nat

VARIABLES
    row,        \* dynamic_notifications
    burnt,      \* attempt numbers whose notification-start receipt is stored
    flight,     \* the delivery in flight for each notification
    intent,     \* what the resident store's outbox says of the message: valid, withdrawn
                \* (superseded or recalled), or a confirmation that no longer applies
    source,     \* what became of the message or question it answers, per delivery:
                \* current, stale, or recognised as one of the assistant's own
    wire,       \* attempts handed to the transport that may still take effect
    posted,     \* attempts that took effect
    crashes     \* host crashes so far

vars == <<row, burnt, flight, intent, source, wire, posted, crashes>>

-----------------------------------------------------------------------------
(* deliveryError: rejected is a quote refusal recorded as known-not-sent and *)
(* retryable, unmarked the same refusal not yet recognised, invalid a        *)
(* parameter rejection, closed is known-not-sent and not retryable, other    *)
(* proves nothing.                                                           *)
NoteRow ==
    [state : {"absent", "prepared", "starting", "unknown", "delivered", "failed", "superseded"},
     attempts : 0 .. MaxAttempts,     \* sendAttemptCount; it tells dispatch tokens apart
     acked : BOOLEAN,                 \* ack (and receipt) present
     error : {"none", "rejected", "unmarked", "invalid", "closed", "other"}]

(* A flight belongs to the scanner, in its send or its readback slot, or to  *)
(* an operator, who retries a send or asks for a readback only.              *)
FlightRow ==
    [phase : {"none", "enter", "sending", "confirming"},
     by : {"none", "scan-send", "scan-read", "manual-send", "manual-read"}]

Idle == [phase |-> "none", by |-> "none"]

Operator(n) == flight[n].by \in {"manual-send", "manual-read"}
ReadbackOnly(n) == flight[n].by = "manual-read"

Parts(n) == {m \in Notes : Delivery[m] = Delivery[n]}
SourceBound == {"topic-reply", "router-reply", "fixed-topic-reply", "routing-clarification"}

\* Mutant: an acknowledged send counts as delivered
PredecessorDelivered_Acked(n) == After[n] # None => row[After[n]].acked

PredecessorDelivered(n) == After[n] # None => row[After[n]].state = "delivered"

\* a command writes its row, or marks several rows at once
Put(n, r) == row' = [row EXCEPT ![n] = r]
MarkAll(S, state) == row' = [m \in Notes |-> IF m \in S THEN [row[m] EXCEPT !.state = state] ELSE row[m]]

\* the refusal on record proves that the quote guard stopped the message
QuoteProof(n) == row[n].error \in {"rejected", "unmarked"}
Retryable(n) == row[n].state = "failed" /\ row[n].error = "rejected"
Unsent(n) == row[n].state = "prepared" /\ row[n].attempts = 0

\* persistedUuidSendRejectionProof, persistedMentionSendRejectionProof
InvalidProof(n) ==
    /\ row[n].state = "unknown"
    /\ row[n].attempts = 1
    /\ ~row[n].acked
    /\ row[n].error = "invalid"

\* Mutant: every start of a notification has the same command id
StartId_Fixed(n) == 0

\* the command id of notification.start ends in the attempts made so far
StartId(n) == row[n].attempts

Init ==
    /\ row = [n \in Notes |-> [state |-> "absent", attempts |-> 0, acked |-> FALSE, error |-> "none"]]
    /\ burnt = [n \in Notes |-> {}]
    /\ flight = [n \in Notes |-> Idle]
    /\ intent = [n \in Notes |-> "valid"]
    /\ source = [n \in Notes |-> "current"]
    /\ wire = [n \in Notes |-> {}]
    /\ posted = [n \in Notes |-> {}]
    /\ crashes = 0

-----------------------------------------------------------------------------
(* Preparing, withdrawing and superseding                                    *)

\* notification.prepare writes the message and its file parts at once
Prepare(n) ==
    /\ Delivery[n] = n
    /\ row[n].state = "absent"
    /\ MarkAll(Parts(n), "prepared")
    /\ UNCHANGED <<burnt, flight, intent, source, wire, posted, crashes>>

\* the source of a delivery is edited, answered, superseded or recognised as own
SourceChanges(n) ==
    /\ Delivery[n] = n
    /\ source[n] = "current"
    /\ \E s \in {"stale"} \cup (IF Kind[n] \in SourceBound THEN {"own"} ELSE {}) :
          source' = [source EXCEPT ![n] = s]
    /\ UNCHANGED <<row, burnt, flight, intent, wire, posted, crashes>>

\* the message is superseded or recalled, or its confirmation becomes pointless
IntentChanges(n) ==
    /\ intent[n] # "withdrawn"
    /\ \E i \in {"reassess", "withdrawn"} : intent' = [intent EXCEPT ![n] = i]
    /\ UNCHANGED <<row, burnt, flight, source, wire, posted, crashes>>

\* notification.routerRetireUnsent, sent by a preparation that finds its source stale
RouterRetire(n) ==
    /\ Delivery[n] = n
    /\ Kind[n] = "router-reply"
    /\ source[n] = "stale"
    /\ \A m \in Parts(n) : Unsent(m)
    /\ MarkAll(Parts(n), "superseded")
    /\ UNCHANGED <<burnt, flight, intent, source, wire, posted, crashes>>

\* notification.retireUnsent, sent by the gate; a delivery may be in flight
RetireUnsent(n) ==
    /\ PredecessorDelivered(n)
    /\ Retryable(n)
    /\ intent[n] # "valid"
    /\ Put(n, [row[n] EXCEPT !.error = "closed"])
    /\ UNCHANGED <<burnt, flight, intent, source, wire, posted, crashes>>

-----------------------------------------------------------------------------
(* Entering a delivery                                                       *)

\* Mutant: the gate leaves the order of the parts to notification.start
GatePasses_AnyOrder(n) ==
    /\ row[n].state \in {"prepared", "failed"} => intent[n] # "withdrawn"
    /\ Retryable(n) => intent[n] = "valid"

\* notificationDeliveryGate
GatePasses(n) ==
    LET undelivered == row[n].state \in {"prepared", "failed"}
        tied == Kind[n] \in {"fixed-topic-reply", "routing-clarification"}
    IN  \/ row[n].state = "prepared" /\ tied /\ source[Delivery[n]] = "own"
        \/ /\ PredecessorDelivered(n)
           /\ undelivered => /\ ~(tied /\ source[Delivery[n]] = "stale")
                             /\ intent[n] # "withdrawn"
           /\ Retryable(n) => intent[n] = "valid"

Enter(n, who) ==
    /\ flight[n].phase = "none"
    /\ GatePasses(n)
    /\ flight' = [flight EXCEPT ![n] = [phase |-> "enter", by |-> who]]
    /\ UNCHANGED <<row, burnt, intent, source, wire, posted, crashes>>

SlotFree(who) == \A m \in Notes : flight[m].by # who

ScanSend(n) ==
    /\ row[n].state = "prepared" \/ Retryable(n)
    /\ SlotFree("scan-send")
    /\ Enter(n, "scan-send")

\* Mutant: the scanner reads back only what it calls unknown
ScanRead_UnknownOnly(n) ==
    /\ row[n].state = "unknown"
    /\ SlotFree("scan-read")
    /\ Enter(n, "scan-read")

ScanRead(n) ==
    /\ row[n].state \in {"unknown", "starting"}
    /\ SlotFree("scan-read")
    /\ Enter(n, "scan-read")

\* retryNotification with the action taskNotificationRecovery offers
ManualRetry(n) ==
    \/ /\ row[n].state = "prepared" \/ Retryable(n)
       /\ Enter(n, "manual-send")
    \/ /\ row[n].state \in {"unknown", "starting"}
       /\ Enter(n, "manual-read")

-----------------------------------------------------------------------------
(* deliverNotification                                                       *)

Entered(n) == flight[n].phase = "enter"
Proceed(n, phase) == flight' = [flight EXCEPT ![n] = [phase |-> phase, by |-> flight[n].by]]
Leave(n) == flight' = [flight EXCEPT ![n] = Idle]

\* a parameter rejection on record settles the notification as not sent
SettleInvalid(n) ==
    /\ Entered(n) /\ ~ReadbackOnly(n)
    /\ InvalidProof(n)
    /\ Put(n, [row[n] EXCEPT !.state = "failed", !.error = "closed"])
    /\ Leave(n)
    /\ UNCHANGED <<burnt, intent, source, wire, posted, crashes>>

RejectApplies(n) ==
    /\ ~ReadbackOnly(n)
    /\ row[n].state = "unknown"
    /\ ~row[n].acked
    /\ QuoteProof(n)

\* notification.rejectBeforeSend; it puts the next attempt a minute off, so the delivery ends
RejectBeforeSend(n) ==
    /\ Entered(n)
    /\ RejectApplies(n)
    /\ Put(n, [row[n] EXCEPT !.state = "failed", !.error = "rejected"])
    /\ Leave(n)
    /\ UNCHANGED <<burnt, intent, source, wire, posted, crashes>>

\* notification.retry; a row the gate has retired meanwhile is left alone
Retry(n) ==
    /\ Entered(n)
    /\ row[n].state = "failed"
    /\ IF Retryable(n)
         THEN Put(n, [row[n] EXCEPT !.state = "prepared"]) /\ UNCHANGED flight
         ELSE Leave(n) /\ UNCHANGED row
    /\ UNCHANGED <<burnt, intent, source, wire, posted, crashes>>

CanRead(n) ==
    /\ Entered(n)
    /\ row[n].state \in {"unknown", "starting"}
    /\ ~RejectApplies(n)
    /\ ReadbackOnly(n) \/ ~InvalidProof(n)

\* readback finds the message: notification.reconcile
ReadbackFinds(n) ==
    /\ CanRead(n)
    /\ posted[n] # {}
    /\ Put(n, [row[n] EXCEPT !.state = "delivered", !.acked = TRUE])
    /\ Leave(n)
    /\ UNCHANGED <<burnt, intent, source, wire, posted, crashes>>

\* it finds nothing or fails: notification.diagnostic
ReadbackMisses(n) ==
    /\ CanRead(n)
    /\ Leave(n)
    /\ UNCHANGED <<row, burnt, intent, source, wire, posted, crashes>>

-----------------------------------------------------------------------------
(* notification.start, and what the service checks around it                 *)

CanStart(n) == Entered(n) /\ row[n].state \in {"prepared", "superseded"}

Stale(n) == row[n].state = "prepared" /\ source[Delivery[n]] = "stale"
Own(n) == row[n].state = "prepared" /\ source[Delivery[n]] = "own" /\ Kind[n] \in SourceBound

\* the service finds the source stale before it sends the command
HeldBack(n) == Stale(n) /\ Kind[n] \in {"router-reply", "routing-clarification"}

\* the store finds that the question was answered, or the initial reply overtaken
Outdated(n) == Stale(n) /\ (Kind[n] = "question" \/ (Kind[n] = "topic-reply" /\ Delivery[n] = n))

\* the command is a replay, or there is nothing to send (yet)
NothingToStart(n) ==
    \/ StartId(n) \in burnt[n]
    \/ row[n].state = "superseded"
    \/ ~Own(n) /\ ~PredecessorDelivered(n)

(* A stale router reply is retired with all its parts if none was attempted, *)
(* otherwise the command fails; a clarification is put off.  No receipt.     *)
StartHeld(n) ==
    /\ CanStart(n)
    /\ HeldBack(n)
    /\ IF Kind[n] = "router-reply" /\ \A m \in Parts(n) : Unsent(m)
         THEN MarkAll(Parts(n), "superseded")
         ELSE UNCHANGED row
    /\ Leave(n)
    /\ UNCHANGED <<burnt, intent, source, wire, posted, crashes>>

\* no permit, but a receipt under the id of this attempt
StartNothing(n) ==
    /\ CanStart(n)
    /\ ~HeldBack(n)
    /\ NothingToStart(n)
    /\ burnt' = [burnt EXCEPT ![n] = @ \cup {StartId(n)}]
    /\ Leave(n)
    /\ UNCHANGED <<row, intent, source, wire, posted, crashes>>

(* It answers a message of the assistant, or is outdated.  A topic reply     *)
(* takes along the parts nobody has attempted.                               *)
StartSuperseded(n) ==
    /\ CanStart(n)
    /\ ~HeldBack(n)
    /\ ~NothingToStart(n)
    /\ Own(n) \/ Outdated(n)
    /\ LET verdict == IF ~Own(n) /\ Kind[n] = "question" THEN "failed" ELSE "superseded"
           along == IF Own(n) \/ Kind[n] = "question" THEN {} ELSE {m \in Parts(n) : Unsent(m)}
       IN  MarkAll(along \cup {n}, verdict)
    /\ burnt' = [burnt EXCEPT ![n] = @ \cup {StartId(n)}]
    /\ Leave(n)
    /\ UNCHANGED <<intent, source, wire, posted, crashes>>

\* the permit is committed and the message handed to the transport
Start(n) ==
    /\ CanStart(n)
    /\ ~HeldBack(n)
    /\ ~NothingToStart(n)
    /\ ~Own(n) /\ ~Outdated(n)
    /\ row[n].attempts < MaxAttempts
    /\ burnt' = [burnt EXCEPT ![n] = @ \cup {StartId(n)}]
    /\ Put(n, [row[n] EXCEPT !.state = "starting", !.attempts = row[n].attempts + 1])
    /\ wire' = [wire EXCEPT ![n] = @ \cup {row[n].attempts + 1}]
    /\ Proceed(n, "sending")
    /\ UNCHANGED <<intent, source, posted, crashes>>

-----------------------------------------------------------------------------
(* The transport and its answers                                             *)

TakeEffect(n) ==
    \E k \in wire[n] :
        /\ wire' = [wire EXCEPT ![n] = @ \ {k}]
        /\ posted' = [posted EXCEPT ![n] = @ \cup {k}]
        /\ UNCHANGED <<row, burnt, flight, intent, source, crashes>>

Vanish(n) ==
    \E k \in wire[n] :
        /\ wire' = [wire EXCEPT ![n] = @ \ {k}]
        /\ UNCHANGED <<row, burnt, flight, intent, source, posted, crashes>>

Sending(n) == flight[n].phase = "sending"

\* Mutant: the row takes the outbox's word for an acknowledged message
Acknowledged_Sent(n) ==
    /\ Sending(n)
    /\ row[n].attempts \in posted[n]
    /\ Put(n, [row[n] EXCEPT !.acked = TRUE, !.state = "sent"])
    /\ Leave(n)
    /\ UNCHANGED <<burnt, intent, source, wire, posted, crashes>>

\* notification.ack; the scanner leaves the confirmation to a later readback
Acknowledged(n) ==
    /\ Sending(n)
    /\ row[n].attempts \in posted[n]
    /\ Put(n, [row[n] EXCEPT !.acked = TRUE])
    /\ IF Operator(n) THEN Proceed(n, "confirming") ELSE Leave(n)
    /\ UNCHANGED <<burnt, intent, source, wire, posted, crashes>>

\* notification.receipt after an answer that proves the message was not sent, or could prove it
Refused(n) ==
    /\ Sending(n)
    /\ row[n].attempts \notin wire[n] \cup posted[n]
    /\ \E r \in Refusals[n] :
          /\ r # "invalid" => row[n].attempts < MaxAttempts
          /\ IF r = "marked"
               THEN Put(n, [row[n] EXCEPT !.state = "failed", !.error = "rejected"])
               ELSE Put(n, [row[n] EXCEPT !.state = "unknown", !.error = r])
    /\ Leave(n)
    /\ UNCHANGED <<burnt, intent, source, wire, posted, crashes>>

\* Mutant: no answer is taken for a refusal
AnswerLost_NotSent(n) ==
    /\ Sending(n)
    /\ Put(n, [row[n] EXCEPT !.state = "failed", !.error = "rejected"])
    /\ Leave(n)
    /\ UNCHANGED <<burnt, intent, source, wire, posted, crashes>>

\* notification.receipt after a timeout or an answer that proves nothing
AnswerLost(n) ==
    /\ Sending(n)
    /\ Put(n, [row[n] EXCEPT !.state = "unknown", !.error = "other"])
    /\ Leave(n)
    /\ UNCHANGED <<burnt, intent, source, wire, posted, crashes>>

\* notification.receipt after the operator's own readback
Confirmed(n) ==
    /\ flight[n].phase = "confirming"
    /\ \/ Put(n, [row[n] EXCEPT !.state = "delivered"])
       \/ Put(n, [row[n] EXCEPT !.state = "unknown"])
       \/ Put(n, [row[n] EXCEPT !.state = "unknown", !.error = "other"])
    /\ Leave(n)
    /\ UNCHANGED <<burnt, intent, source, wire, posted, crashes>>

\* the process dies; openDynamicTaskStore makes what was starting unknown
Crash ==
    /\ crashes < MaxCrashes
    /\ crashes' = crashes + 1
    /\ MarkAll({n \in Notes : row[n].state = "starting"}, "unknown")
    /\ flight' = [n \in Notes |-> Idle]
    /\ UNCHANGED <<burnt, intent, source, wire, posted>>

-----------------------------------------------------------------------------
Command(n) ==
    \/ SettleInvalid(n) \/ RejectBeforeSend(n) \/ Retry(n)
    \/ ReadbackFinds(n) \/ ReadbackMisses(n)
    \/ StartHeld(n) \/ StartNothing(n) \/ StartSuperseded(n) \/ Start(n)

Answer(n) == Acknowledged(n) \/ Refused(n) \/ AnswerLost(n) \/ Confirmed(n)

World(n) == SourceChanges(n) \/ IntentChanges(n) \/ TakeEffect(n) \/ Vanish(n)

Next ==
    \/ \E n \in Notes :
          \/ Prepare(n) \/ RouterRetire(n) \/ RetireUnsent(n)
          \/ ScanSend(n) \/ ScanRead(n) \/ ManualRetry(n)
          \/ Command(n) \/ Answer(n) \/ World(n)
    \/ Crash

Spec == Init /\ [][Next]_vars

(* The scanner runs after every change of a notification and at the latest   *)
(* with the recovery timer, tries each notification once per round, and its  *)
(* calls time out; a message that is there is found by some readback.        *)
OutboxFairness ==
    \A n \in Notes :
        /\ SF_vars(ScanSend(n)) /\ SF_vars(ScanRead(n))
        /\ WF_vars(Command(n)) /\ WF_vars(Answer(n))
        /\ SF_vars(ReadbackFinds(n))
        /\ WF_vars(RetireUnsent(n))

FairSpec == Spec /\ OutboxFairness

-----------------------------------------------------------------------------
(* Properties                                                                *)

(* Type: every row, receipt, delivery and attempt is one the code can have.  *)
TypeOK ==
    /\ row \in [Notes -> NoteRow]
    /\ burnt \in [Notes -> SUBSET (0 .. MaxAttempts)]
    /\ flight \in [Notes -> FlightRow]
    /\ intent \in [Notes -> {"valid", "reassess", "withdrawn"}]
    /\ source \in [Notes -> {"current", "own", "stale"}]
    /\ wire \in [Notes -> SUBSET (1 .. MaxAttempts)]
    /\ posted \in [Notes -> SUBSET (1 .. MaxAttempts)]
    /\ crashes \in 0 .. MaxCrashes

(* A message is handed to the transport again only when no earlier attempt   *)
(* has taken effect or still may: notification-delivery.js retries only with *)
(* proof that the attempt was not sent.                                      *)
AtMostOnce == \A n \in Notes : \A j, k \in wire[n] \cup posted[n] : j = k

(* A notification that waits to be sent can be: the receipt of its next      *)
(* notification.start is not stored yet.  A start that was answered "not     *)
(* eligible" would be replayed as such for ever (task-session-service.js     *)
(* keeps refused starts away with its gate).                                 *)
StartNotBurnt == \A n \in Notes : row[n].state = "prepared" => StartId(n) \notin burnt[n]

Dropped(n) == row[n].state = "superseded" \/ (row[n].state = "failed" /\ ~Retryable(n))

Fate ==
    [n \in Notes |->
        CASE row[n].state \in {"absent", "delivered"} -> row[n].state
          [] Dropped(n) -> "withdrawn"
          [] OTHER      -> "open"]

Copies == [n \in Notes |-> Cardinality(posted[n])]

Sender == INSTANCE AtMostOnceSender WITH fate <- Fate, copies <- Copies

(* The outbox implements the sender it promises to be: one copy, parts in    *)
(* order and only after their predecessor is known to be delivered, nothing  *)
(* posted after it was superseded, retired or settled as not sent.           *)
ImplementsSender == Sender!Spec

\* the gate or the source check keeps it from being sent
Blocked(n) ==
    \/ intent[n] # "valid"
    \/ /\ source[Delivery[n]] = "stale"
       /\ Kind[n] \in {"router-reply", "fixed-topic-reply", "routing-clarification"}

Settled(n) ==
    \/ row[n].state \in {"unknown", "delivered"}
    \/ row[n].state = "starting" /\ row[n].acked
    \/ Dropped(n)

(* A notification whose predecessor is delivered is attempted until the      *)
(* transport stops refusing it, unless it was withdrawn or its source is stale. *)
SendSettles ==
    \A n \in Notes :
        (row[n].state = "prepared" /\ PredecessorDelivered(n)) ~> (Settled(n) \/ Blocked(n))

(* A message that is in the conversation is known to be delivered at last,   *)
(* whoever lost its answer, a timeout, a restart or the deferred readback.   *)
DeliveryConfirmed == \A n \in Notes : (posted[n] # {}) ~> (row[n].state = "delivered")
=============================================================================
