--------------------------- MODULE IngressBridge ---------------------------
(* dws-bridge.js, the receiving half: the conversations' listeners, the      *)
(* backfill that rereads their history every few seconds, the recovery of    *)
(* what a broken or paused listener did not bring, and the operator's switch *)
(* that pauses the reception of messages and resumes it.                     *)
(*                                                                           *)
(* A message is the time at which it was posted: at most one per tick and    *)
(* conversation.  A subscribed group has a listener of its own; the direct   *)
(* conversations share one, which the switch does not touch.                 *)
EXTENDS Integers

CONSTANTS
    Groups,      \* the conversations
    Direct,      \* those of them that are private conversations
    Human,       \* the line of the direct conversations
    Overlap,     \* groupBackfillOverlapMs, in ticks
    MaxTime,     \* bound: ticks, hence messages of a conversation
    MaxFaults,   \* bound: listeners lost, reads and receipts failed
    MaxPauses,   \* bound: times the operator pauses
    MaxChanges,  \* bound: times a conversation is subscribed to or left
    MaxCrashes   \* bound: restarts of the process

ASSUME BridgeAssumption ==
    /\ Direct \subseteq Groups /\ Human \notin Groups
    /\ Overlap \in Nat /\ MaxTime \in Nat \ {0}
    /\ MaxFaults \in Nat /\ MaxPauses \in Nat /\ MaxChanges \in Nat /\ MaxCrashes \in Nat

VARIABLES
    now,       \* the clock
    groups,    \* the conversations subscribed to (runtime.listGroups)
    posted,    \* the messages of each conversation, as its history shows them
    wire,      \* the events a live subscription may still deliver
    stored,    \* the messages durably received (group.messages)
    latest,    \* the latest of them, Midnight if there is none
    saved,     \* the persisted ingress state
    ingress,   \* the bridge's copy of it
    control,   \* the chain of operations on it (controlTail)
    line,      \* the listeners
    entry,     \* bridgeEntries, one per conversation
    inflight,  \* inflightMessages: the receipts under way
    owed,      \* history: the messages posted while reception was paused
    spent      \* how much of each bound is used

vars == <<now, groups, posted, wire, stored, latest, saved, ingress, control, line, entry, inflight, owed, spent>>

Times == 1..MaxTime
Never == MaxTime + 1    \* an absent time: earlierIso ignores it
Midnight == 0           \* where the history of a conversation without messages starts

LineOf(g) == IF g \in Direct THEN Human ELSE g
Lines == {LineOf(g) : g \in Groups}
On(l) == {g \in groups : LineOf(g) = l}

earlier(s, t) == IF s < t THEN s ELSE t
beforeOverlap(t) == IF t > Overlap THEN t - Overlap ELSE 0

Running == control.doing # "down"

NoPass == [phase |-> "none", start |-> 0, end |-> 0, todo |-> {}, item |-> 0,
           recovery |-> FALSE, stale |-> FALSE]

\* with a fault: a new entry does not take over the bound of the recovery
NewEntry_NoBound(state) ==
    [backfill |-> IF state.paused THEN "paused" ELSE "never",
     required |-> FALSE, from |-> Never, brokeAt |-> 0,
     queued |-> FALSE, lastEnd |-> Never, pass |-> NoPass]

NewEntry(state) ==
    [backfill |-> IF state.paused THEN "paused" ELSE "never",
     required |-> state.from # Never, from |-> state.from, brokeAt |-> 0,
     queued |-> FALSE, lastEnd |-> Never, pass |-> NoPass]

\* a listener that is attached, unless reception is paused
Attached(l, state) ==
    IF state.paused /\ l # Human THEN "paused" ELSE "starting"

Open == [paused |-> FALSE, from |-> Never]

StartLines(state) ==
    [l \in Lines |-> IF l \in groups \cup {Human} THEN Attached(l, state) ELSE "none"]

Init ==
    /\ now = 1
    /\ groups \in SUBSET Groups
    /\ posted = [g \in Groups |-> {}] /\ wire = posted /\ stored = posted
    /\ latest = [g \in Groups |-> Midnight]
    /\ saved = Open /\ ingress = Open
    /\ control = [doing |-> "idle", due |-> FALSE]
    /\ line = StartLines(Open)
    /\ entry = [g \in Groups |-> NewEntry(Open)]
    /\ inflight = [g \in Groups |-> {}] /\ owed = inflight
    /\ spent = [faults |-> 0, pauses |-> 0, changes |-> 0, crashes |-> 0]

-----------------------------------------------------------------------------
(* A pass of the backfill.                                                   *)

\* the latest stored message less the overlap
defaultBackfillStart(g) == beforeOverlap(latest[g])

\* The start of a pass.  The history is what is posted by now: a later message
\* has a later time than the end of the window.  Messages stored already are
\* received again without effect.
Begin(g, e) ==
    LET start == earlier(defaultBackfillStart(g), IF e.required THEN e.from ELSE Never) IN
    [e EXCEPT !.backfill = IF e.required \/ (e.lastEnd = Never /\ @ # "failed") THEN "running" ELSE @,
              !.pass = [phase |-> "reading", start |-> start, end |-> now,
                        todo |-> {m \in posted[g] : start <= m} \ stored[g], item |-> 0,
                        recovery |-> e.required, stale |-> FALSE]]

\* queueGroupBackfill, unless reception is paused; a pass under way is joined,
\* and followed by another one if a listener became ready meanwhile
queueGroupBackfill(g, e, queueAfterActive) ==
    IF e.pass # NoPass THEN [e EXCEPT !.queued = @ \/ queueAfterActive] ELSE Begin(g, e)

Halted(g) == ingress.paused \/ entry[g].pass.stale

\* the end of a pass: the finally block, which runs the queued pass
Close(g, e) ==
    LET over == [e EXCEPT !.pass = NoPass, !.queued = FALSE] IN
    /\ entry' = [entry EXCEPT ![g] = IF e.queued /\ ~ingress.paused THEN Begin(g, over) ELSE over]
    /\ control' = [control EXCEPT !.due = @ \/ ingress.from # Never]

\* with a fault: a pass of an earlier epoch closes the recovery too
Succeed_AnyEpoch(g) ==
    LET e == entry[g]
        closes == e.pass.recovery /\ line[LineOf(g)] = "ready"
    IN Close(g, [e EXCEPT !.backfill = "ok", !.lastEnd = e.pass.end,
                          !.required = @ /\ ~closes,
                          !.from = IF closes THEN Never ELSE @, !.brokeAt = IF closes THEN 0 ELSE @])

\* Everything the pass read is received.  It closes the recovery if it was one,
\* of the present epoch, and the listener is ready.
Succeed(g) ==
    LET e == entry[g]
        closes == e.pass.recovery /\ ~e.pass.stale /\ line[LineOf(g)] = "ready"
    IN Close(g, [e EXCEPT !.backfill = "ok", !.lastEnd = e.pass.end,
                          !.required = @ /\ ~closes,
                          !.from = IF closes THEN Never ELSE @, !.brokeAt = IF closes THEN 0 ELSE @])

Fail(g) ==
    Close(g, [entry[g] EXCEPT !.backfill = IF Halted(g) THEN @ ELSE "failed"])

\* the messages of a pass are received one after the other, oldest first
Receive(g, todo) ==
    \E m \in todo :
        /\ \A n \in todo : m <= n
        /\ inflight' = [inflight EXCEPT ![g] = @ \cup {m}]
        /\ entry' = [entry EXCEPT ![g].pass = [@ EXCEPT !.phase = "receiving", !.todo = todo, !.item = m]]
        /\ UNCHANGED control

\* the interval: processIncrementalGroupBackfill.  A check of the recovery that is
\* due on an idle chain runs before any timer does.
BackfillTick ==
    /\ Running /\ ~ingress.paused
    /\ \E g \in groups : entry[g].pass = NoPass
    /\ ~(control.due /\ control.doing = "idle")
    /\ entry' = [g \in Groups |-> IF g \in groups THEN queueGroupBackfill(g, entry[g], FALSE) ELSE entry[g]]
    /\ UNCHANGED <<now, groups, posted, wire, stored, latest, saved, ingress, control, line, inflight, owed, spent>>

\* with a fault: a pass that is halted is never over
HistoryRead_NoFinally(g) ==
    /\ entry[g].pass.phase = "reading" /\ ~Halted(g)
    /\ IF entry[g].pass.todo = {} THEN Succeed(g) /\ UNCHANGED inflight
       ELSE Receive(g, entry[g].pass.todo)
    /\ UNCHANGED <<now, groups, posted, wire, stored, latest, saved, ingress, line, owed, spent>>

\* the complete history of the window is there
HistoryRead(g) ==
    /\ entry[g].pass.phase = "reading"
    /\ IF Halted(g) THEN Close(g, entry[g]) /\ UNCHANGED inflight
       ELSE IF entry[g].pass.todo = {} THEN Succeed(g) /\ UNCHANGED inflight
       ELSE Receive(g, entry[g].pass.todo)
    /\ UNCHANGED <<now, groups, posted, wire, stored, latest, saved, ingress, line, owed, spent>>

\* the read fails, or returns part of the history
HistoryPartial(g) ==
    /\ entry[g].pass.phase = "reading"
    /\ spent.faults < MaxFaults
    /\ Fail(g)
    /\ spent' = [spent EXCEPT !.faults = @ + 1]
    /\ UNCHANGED <<now, groups, posted, wire, stored, latest, saved, ingress, line, inflight, owed>>

\* The awaited message is received.  After the last one nothing is checked again.
PassContinues(g) ==
    LET pass == entry[g].pass
        rest == pass.todo \ {pass.item}
    IN
    /\ pass.phase = "receiving" /\ pass.item \notin inflight[g]
    /\ IF rest = {} THEN Succeed(g) /\ UNCHANGED inflight
       ELSE IF Halted(g) THEN Close(g, entry[g]) /\ UNCHANGED inflight
       ELSE Receive(g, rest)
    /\ UNCHANGED <<now, groups, posted, wire, stored, latest, saved, ingress, line, owed, spent>>

-----------------------------------------------------------------------------
(* Messages.                                                                 *)

Tick ==
    /\ now < MaxTime
    /\ now' = now + 1
    /\ UNCHANGED <<groups, posted, wire, stored, latest, saved, ingress, control, line, entry, inflight, owed, spent>>

\* A message is posted; a subscription that exists may deliver it as an event.
Post(g) ==
    /\ g \in groups /\ now \notin posted[g]
    /\ posted' = [posted EXCEPT ![g] = @ \cup {now}]
    /\ wire' = IF line[LineOf(g)] \in {"starting", "ready"}
               THEN [wire EXCEPT ![g] = @ \cup {now}] ELSE wire
    /\ owed' = IF saved.paused \/ ingress.paused THEN [owed EXCEPT ![g] = @ \cup {now}] ELSE owed
    /\ UNCHANGED <<now, groups, stored, latest, saved, ingress, control, line, entry, inflight, spent>>

\* processMessage, for the event of a message: dropped while reception is paused
EventArrives(g, m) ==
    /\ m \in wire[g]
    /\ wire' = [wire EXCEPT ![g] = @ \ {m}]
    /\ inflight' = IF ingress.paused THEN inflight ELSE [inflight EXCEPT ![g] = @ \cup {m}]
    /\ UNCHANGED <<now, groups, posted, stored, latest, saved, ingress, control, line, entry, owed, spent>>

\* runtime.ingest returns.  Its event, if it is still to come, will change nothing.
Ingested(g, m) ==
    /\ m \in inflight[g]
    /\ stored' = [stored EXCEPT ![g] = @ \cup {m}]
    /\ latest' = [latest EXCEPT ![g] = IF m > @ THEN m ELSE @]
    /\ inflight' = [inflight EXCEPT ![g] = @ \ {m}]
    /\ wire' = [wire EXCEPT ![g] = @ \ {m}]
    /\ UNCHANGED <<now, groups, posted, saved, ingress, control, line, entry, owed, spent>>

\* runtime.ingest fails: an event is lost, a pass that waits for the message fails
IngestFails(g, m) ==
    LET pass == entry[g].pass IN
    /\ m \in inflight[g]
    /\ spent.faults < MaxFaults
    /\ inflight' = [inflight EXCEPT ![g] = @ \ {m}]
    /\ IF pass.phase = "receiving" /\ pass.item = m
       THEN Fail(g) ELSE UNCHANGED <<entry, control>>
    /\ spent' = [spent EXCEPT !.faults = @ + 1]
    /\ UNCHANGED <<now, groups, posted, wire, stored, latest, saved, ingress, line, owed>>

-----------------------------------------------------------------------------
(* Listeners.                                                                *)

\* the entry of a conversation whose reception broke: its recovery starts at the
\* earliest of what was still unread; the epoch moves on, a pass under way is stale
Broken(e, from) ==
    [e EXCEPT !.required = TRUE, !.from = earlier(@, from), !.brokeAt = now,
              !.pass = IF @ = NoPass THEN @ ELSE [@ EXCEPT !.stale = TRUE]]

\* with a fault: no bound for a conversation that was never read
UnreadFrom_NoDefault(g) ==
    CASE entry[g].pass # NoPass     -> entry[g].pass.start
      [] entry[g].lastEnd # Never   -> beforeOverlap(entry[g].lastEnd)
      [] OTHER                      -> Never

UnreadFrom(g) ==
    CASE entry[g].pass # NoPass     -> entry[g].pass.start
      [] entry[g].lastEnd # Never   -> beforeOverlap(entry[g].lastEnd)
      [] OTHER                      -> defaultBackfillStart(g)

\* listenerFailed: the consumer exits or is not ready in time
ListenerFails(l) ==
    /\ line[l] \in {"starting", "ready"} /\ On(l) # {}
    /\ spent.faults < MaxFaults
    /\ line' = [line EXCEPT ![l] = "reconnecting"]
    /\ wire' = [g \in Groups |-> IF g \in On(l) THEN {} ELSE wire[g]]
    /\ entry' = [g \in Groups |-> IF g \in On(l) THEN Broken(entry[g], UnreadFrom(g)) ELSE entry[g]]
    /\ spent' = [spent EXCEPT !.faults = @ + 1]
    /\ UNCHANGED <<now, groups, posted, stored, latest, saved, ingress, control, inflight, owed>>

\* the retry timer: attach
Reconnect(l) ==
    /\ line[l] = "reconnecting" /\ On(l) # {}
    /\ line' = [line EXCEPT ![l] = "starting"]
    /\ UNCHANGED <<now, groups, posted, wire, stored, latest, saved, ingress, control, entry, inflight, owed, spent>>

\* markListenerReady
ListenerReady(l) ==
    /\ line[l] = "starting" /\ On(l) # {}
    /\ line' = [line EXCEPT ![l] = "ready"]
    /\ entry' = [g \in Groups |-> IF g \in On(l) /\ ~ingress.paused
                                  THEN queueGroupBackfill(g, entry[g], TRUE) ELSE entry[g]]
    /\ UNCHANGED <<now, groups, posted, wire, stored, latest, saved, ingress, control, inflight, owed, spent>>

-----------------------------------------------------------------------------
(* Subscriptions.                                                            *)

Changed == spent.changes < MaxChanges /\ spent' = [spent EXCEPT !.changes = @ + 1]

\* onGroupSubscribed
Subscribe(g) ==
    /\ Running /\ Changed /\ g \notin groups
    /\ groups' = groups \cup {g}
    /\ entry' = [entry EXCEPT ![g] = NewEntry(ingress)]
    /\ line' = IF g \in Direct THEN line ELSE [line EXCEPT ![g] = Attached(g, ingress)]
    /\ UNCHANGED <<now, posted, wire, stored, latest, saved, ingress, control, inflight, owed>>

\* onGroupUnsubscribed: a pass under way has nothing more to receive
Unsubscribe(g) ==
    /\ Running /\ Changed /\ g \in groups
    /\ groups' = groups \ {g}
    /\ entry' = [entry EXCEPT ![g] = NewEntry(Open)]
    /\ line' = IF g \in Direct THEN line ELSE [line EXCEPT ![g] = "none"]
    /\ wire' = [wire EXCEPT ![g] = {}]
    /\ owed' = [owed EXCEPT ![g] = {}]
    /\ control' = [control EXCEPT !.due = @ \/ ingress.from # Never]
    /\ UNCHANGED <<now, posted, stored, latest, saved, ingress, inflight>>

-----------------------------------------------------------------------------
(* The operator's switch, and the end of a recovery.  Each of them persists  *)
(* the new state first and then takes it over; they run one at a time.       *)

Save(state, doing) ==
    /\ saved' = state
    /\ control' = [control EXCEPT !.doing = doing]

Pause ==
    /\ control.doing = "idle" /\ ~ingress.paused
    /\ spent.pauses < MaxPauses
    /\ Save([paused |-> TRUE, from |-> earlier(ingress.from, beforeOverlap(now))], "pausing")
    /\ spent' = [spent EXCEPT !.pauses = @ + 1]
    /\ UNCHANGED <<now, groups, posted, wire, stored, latest, ingress, line, entry, inflight, owed>>

\* the listeners of the groups stop; the receipts under way are waited for
Paused ==
    /\ control.doing = "pausing"
    /\ ingress' = saved
    /\ line' = [l \in Lines |-> IF l \in groups THEN "paused" ELSE line[l]]
    /\ wire' = [g \in Groups |-> IF g \in Direct THEN wire[g] ELSE {}]
    /\ entry' = [g \in Groups |->
                  IF g \in groups THEN [Broken(entry[g], saved.from) EXCEPT !.backfill = "paused"]
                  ELSE entry[g]]
    /\ control' = [control EXCEPT !.doing = "draining"]
    /\ UNCHANGED <<now, groups, posted, stored, latest, saved, inflight, owed, spent>>

\* with a fault: the receipts under way are not waited for
PauseReturns_NoDrain ==
    /\ control.doing = "draining"
    /\ control' = [control EXCEPT !.doing = "idle"]
    /\ UNCHANGED <<now, groups, posted, wire, stored, latest, saved, ingress, line, entry, inflight, owed, spent>>

PauseReturns ==
    /\ control.doing = "draining"
    /\ \A g \in Groups : inflight[g] = {}
    /\ control' = [control EXCEPT !.doing = "idle"]
    /\ UNCHANGED <<now, groups, posted, wire, stored, latest, saved, ingress, line, entry, inflight, owed, spent>>

\* with a fault: the bound is dropped when reception is resumed
Resume_NoBound ==
    /\ control.doing = "idle" /\ ingress.paused
    /\ Save(Open, "resuming")
    /\ UNCHANGED <<now, groups, posted, wire, stored, latest, ingress, line, entry, inflight, owed, spent>>

Resume ==
    /\ control.doing = "idle" /\ ingress.paused
    /\ Save([ingress EXCEPT !.paused = FALSE], "resuming")
    /\ UNCHANGED <<now, groups, posted, wire, stored, latest, ingress, line, entry, inflight, owed, spent>>

Resumed ==
    /\ control.doing = "resuming"
    /\ ingress' = saved
    /\ line' = [l \in Lines |-> IF line[l] = "paused" THEN "starting" ELSE line[l]]
    /\ control' = [doing |-> "idle", due |-> TRUE]
    /\ UNCHANGED <<now, groups, posted, wire, stored, latest, saved, entry, inflight, owed, spent>>

recoveryComplete ==
    /\ ~ingress.paused /\ ingress.from # Never
    /\ \A g \in groups :
         /\ line[LineOf(g)] = "ready"
         /\ entry[g].backfill = "ok" /\ entry[g].pass = NoPass /\ ~entry[g].required

\* finishIngressRecovery
FinishRecovery ==
    /\ control.doing = "idle" /\ control.due
    /\ control' = [doing |-> IF recoveryComplete THEN "clearing" ELSE "idle", due |-> FALSE]
    /\ saved' = IF recoveryComplete THEN Open ELSE saved
    /\ UNCHANGED <<now, groups, posted, wire, stored, latest, ingress, line, entry, inflight, owed, spent>>

Cleared ==
    /\ control.doing = "clearing"
    /\ ingress' = saved
    /\ control' = [control EXCEPT !.doing = "idle"]
    /\ UNCHANGED <<now, groups, posted, wire, stored, latest, saved, line, entry, inflight, owed, spent>>

-----------------------------------------------------------------------------
(* The process stops anywhere and starts again: only what is stored remains. *)

Crash ==
    /\ Running /\ spent.crashes < MaxCrashes
    /\ control' = [doing |-> "down", due |-> FALSE]
    /\ ingress' = saved
    /\ wire' = [g \in Groups |-> {}] /\ inflight' = wire'
    /\ line' = [l \in Lines |-> "down"]
    /\ entry' = [g \in Groups |-> NewEntry(IF g \in groups THEN saved ELSE Open)]
    /\ spent' = [spent EXCEPT !.crashes = @ + 1]
    /\ UNCHANGED <<now, groups, posted, stored, latest, saved, owed>>

\* startDwsBridge
Restart ==
    /\ ~Running
    /\ control' = [doing |-> "idle", due |-> saved.from # Never]
    /\ line' = StartLines(saved)
    /\ UNCHANGED <<now, groups, posted, wire, stored, latest, saved, ingress, entry, inflight, owed, spent>>

\* what follows by itself in the chain of control operations: at most one of these
ControlStep == Paused \/ PauseReturns \/ Resumed \/ FinishRecovery \/ Cleared \/ Restart

Next ==
    \/ Tick \/ BackfillTick
    \/ \E g \in Groups : Subscribe(g) \/ Unsubscribe(g)
    \/ \E g \in Groups : Post(g) \/ HistoryRead(g) \/ HistoryPartial(g) \/ PassContinues(g)
    \/ \E g \in Groups : \E m \in Times : EventArrives(g, m) \/ Ingested(g, m) \/ IngestFails(g, m)
    \/ \E l \in Lines : ListenerFails(l) \/ Reconnect(l) \/ ListenerReady(l)
    \/ Pause \/ Resume \/ Crash \/ ControlStep

Spec == Init /\ [][Next]_vars

\* The interval, the retry timers and the calls that were made come to an end;
\* nothing obliges anybody to post, DingTalk to send an event, or the operator.
Fairness ==
    /\ WF_vars(BackfillTick)
    /\ WF_vars(ControlStep)
    /\ \A g \in Groups : WF_vars(HistoryRead(g) \/ PassContinues(g))
    /\ \A g \in Groups : WF_vars(\E m \in Times : Ingested(g, m))
    /\ \A l \in Lines : WF_vars(Reconnect(l) \/ ListenerReady(l))

FairSpec == Spec /\ Fairness

-----------------------------------------------------------------------------
IngressStates == [paused : BOOLEAN, from : 0..Never]

Passes ==
    [phase : {"none", "reading", "receiving"}, start : 0..MaxTime, end : 0..MaxTime,
     todo : SUBSET Times, item : 0..MaxTime, recovery : BOOLEAN, stale : BOOLEAN]

Entries ==
    {e \in [backfill : {"never", "running", "ok", "failed", "paused"},
            required : BOOLEAN, from : 0..Never, brokeAt : 0..MaxTime,
            queued : BOOLEAN, lastEnd : 0..Never, pass : Passes] :
        e.required <=> e.from # Never}

\* every variable has its type; a conversation is marked for recovery exactly
\* when the start of its recovery is known (listenerFailed, setIngressPaused,
\* queueGroupBackfill set and clear the two together)
TypeOK ==
    /\ now \in Times /\ groups \in SUBSET Groups
    /\ posted \in [Groups -> SUBSET Times] /\ wire \in [Groups -> SUBSET Times]
    /\ stored \in [Groups -> SUBSET Times] /\ inflight \in [Groups -> SUBSET Times]
    /\ owed \in [Groups -> SUBSET Times] /\ latest \in [Groups -> 0..MaxTime]
    /\ saved \in IngressStates /\ ingress \in IngressStates
    /\ control \in [doing : {"down", "idle", "pausing", "draining", "resuming", "clearing"}, due : BOOLEAN]
    /\ line \in [Lines -> {"down", "none", "starting", "ready", "reconnecting", "paused"}]
    /\ entry \in [Groups -> Entries]
    /\ spent \in [faults : 0..MaxFaults, pauses : 0..MaxPauses, changes : 0..MaxChanges, crashes : 0..MaxCrashes]

\* When setIngressPaused(true) has returned no message is being received, whatever
\* event or history read was under way, until reception is resumed: the Host may
\* be updated.
PausedIsQuiet ==
    ingress.paused /\ control.doing \in {"idle", "resuming"} => \A g \in Groups : inflight[g] = {}

\* finishIngressRecovery gives up the persisted bound only when every message
\* posted while reception was paused is stored, over restarts, breaks and
\* subscriptions.
PauseRecovered == saved.from = Never => \A g \in Groups : owed[g] \subseteq stored[g]

\* the recovery of a conversation is over
Recovers(g) == entry[g].required /\ ~entry'[g].required /\ g \in groups' /\ Running /\ Running'

GapRead(g) ==
    Recovers(g) => \A m \in posted[g] : entry[g].from <= m /\ m < entry[g].brokeAt => m \in stored'[g]

\* When the recovery of a conversation ends, all that was posted between the start
\* that was kept and the last break is stored: a pass of an earlier epoch, or one
\* whose read failed, does not end it (queueGroupBackfill).
RecoveryReadsGap == [][\A g \in groups : GapRead(g)]_vars

\* A conversation that needs a recovery gets it, unless the operator pauses: no pass
\* that joins another, is halted or fails leaves it marked for ever.
GapCloses == \A g \in Groups : (entry[g].required /\ ~saved.paused) ~> (~entry[g].required \/ saved.paused)

\* What was posted during a pause is stored in the end, unless the operator pauses
\* again, also if the process stops before the recovery is over (startDwsBridge).
OwedArrives == \A g \in Groups : ~(owed[g] \subseteq stored[g]) ~> (owed[g] \subseteq stored[g] \/ saved.paused)

\* docs/spec/dws-backfill-scheduler-recovery.md: the recovery rereads from the start
\* kept before the break, and what the new listener has brought meanwhile must not
\* shorten that range.  So a recovery that ends leaves no message that the passes
\* from now on, which start at the latest stored one, will not see.
NoGapLeftBehind ==
    [][\A g \in groups : Recovers(g) =>
          \A m \in posted[g] \ (stored[g] \cup wire[g] \cup inflight[g]) :
             entry[g].from <= m => m >= defaultBackfillStart(g)]_vars
=============================================================================
