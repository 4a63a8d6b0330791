------------------------ MODULE IngressBridgeProofs ------------------------
(* Proofs about IngressBridge, for any conversations, overlap and bounds.    *)
EXTENDS IngressBridge, TLAPS

-----------------------------------------------------------------------------
(* The inductive invariant.                                                  *)

\* the persisted state of the switch and the bridge's copy of it
ChainOK ==
    /\ (saved.paused \/ ingress.paused) => saved.from <= now
    /\ ingress.paused => ingress.from = saved.from
    /\ control.doing \in {"idle", "draining", "down"} => saved = ingress
    /\ control.doing = "pausing" => saved.paused /\ ~ingress.paused
    /\ control.doing = "resuming" => ingress.paused /\ ~saved.paused
    /\ control.doing = "clearing" => ~ingress.paused /\ ~saved.paused

\* a process that is down receives nothing
DownIsStill ==
    ~Running => /\ \A g \in Groups : inflight[g] = {} /\ wire[g] = {} /\ entry[g].pass = NoPass
                /\ \A l \in Lines : line[l] = "down"

Unread(g) == owed[g] \ stored[g]

OwedPosted(g) == owed[g] \subseteq posted[g]

LeftIsClean(g) == g \notin groups => owed[g] = {} /\ entry[g].pass = NoPass

\* the persisted bound covers what is unread, and so does the entry's own one,
\* except while a pause is persisted and not yet taken over
SavedCovers(g) == \A m \in Unread(g) : saved.from <= m

EntryCovers(g) == control.doing # "pausing" => \A m \in Unread(g) : entry[g].from <= m

\* a pass that may close the recovery has all that is unread before it
PassCovers(g) ==
    control.doing # "pausing" /\ entry[g].pass.recovery /\ ~entry[g].pass.stale =>
        Unread(g) \subseteq entry[g].pass.todo

HaltedByPause(g) == ingress.paused => entry[g].pass = NoPass \/ entry[g].pass.stale

PauseBounds(g) == ingress.paused /\ g \in groups => entry[g].from <= saved.from

ItemUnderWay(g) ==
    entry[g].pass.phase = "receiving" => entry[g].pass.item \in inflight[g] \cup stored[g]

EntryOK(g) ==
    /\ OwedPosted(g) /\ LeftIsClean(g) /\ SavedCovers(g) /\ EntryCovers(g)
    /\ PassCovers(g) /\ HaltedByPause(g) /\ PauseBounds(g) /\ ItemUnderWay(g)

IInv == TypeOK /\ ChainOK /\ DownIsStill /\ \A g \in Groups : EntryOK(g)

-----------------------------------------------------------------------------
(* The operators the actions are built from.                                 *)

LEMMA EarlierIsBoth ==
    ASSUME NEW s \in 0..Never, NEW t \in 0..Never
    PROVE  /\ earlier(s, t) \in 0..Never
           /\ earlier(s, t) <= s /\ earlier(s, t) <= t
           /\ earlier(s, t) \in {s, t}
BY BridgeAssumption DEF earlier, Never

LEMMA OverlapType ==
    ASSUME NEW t \in 0..MaxTime
    PROVE  beforeOverlap(t) \in 0..MaxTime /\ beforeOverlap(t) <= t
BY BridgeAssumption DEF beforeOverlap

LEMMA EntryFields ==
    ASSUME NEW e \in Entries
    PROVE  /\ e.backfill \in {"never", "running", "ok", "failed", "paused"}
           /\ e.required \in BOOLEAN /\ e.from \in 0..Never /\ e.brokeAt \in 0..MaxTime
           /\ e.queued \in BOOLEAN /\ e.lastEnd \in 0..Never /\ e.pass \in Passes
           /\ e.required <=> e.from # Never
BY DEF Entries

LEMMA NoPassType == NoPass \in Passes /\ NoPass.phase = "none" /\ ~NoPass.recovery
BY BridgeAssumption DEF NoPass, Passes

LEMMA NewEntryType ==
    ASSUME NEW s \in IngressStates
    PROVE  /\ NewEntry(s) \in Entries /\ NewEntry(s).from = s.from /\ NewEntry(s).pass = NoPass
           /\ NewEntry(s).brokeAt = 0
<1>1. s.from \in 0..Never /\ Never \in 0..Never /\ 0 \in 0..MaxTime
  BY BridgeAssumption DEF IngressStates, Never
<1>2. NoPass \in Passes
  BY NoPassType
<1> QED  BY <1>1, <1>2 DEF NewEntry, Entries

LEMMA StartType ==
    ASSUME TypeOK, NEW g \in Groups
    PROVE  defaultBackfillStart(g) \in 0..MaxTime
<1>1. latest[g] \in 0..MaxTime
  BY DEF TypeOK
<1> QED  BY <1>1, OverlapType DEF defaultBackfillStart

\* A pass that recovers reads everything from the entry's bound on.
LEMMA BeginEntry ==
    ASSUME TypeOK, NEW g \in Groups, NEW e \in Entries
    PROVE  /\ Begin(g, e) \in Entries
           /\ Begin(g, e).from = e.from /\ Begin(g, e).brokeAt = e.brokeAt
           /\ Begin(g, e).pass.phase = "reading" /\ ~Begin(g, e).pass.stale
           /\ Begin(g, e).pass # NoPass
           /\ Begin(g, e).pass.recovery =>
                \A m \in posted[g] \ stored[g] : e.from <= m => m \in Begin(g, e).pass.todo
<1> DEFINE start == earlier(defaultBackfillStart(g), IF e.required THEN e.from ELSE Never)
           pass == [phase |-> "reading", start |-> start, end |-> now,
                    todo |-> {m \in posted[g] : start <= m} \ stored[g], item |-> 0,
                    recovery |-> e.required, stale |-> FALSE]
           mode == IF e.required \/ (e.lastEnd = Never /\ e.backfill # "failed") THEN "running" ELSE e.backfill
<1>1. /\ e.backfill \in {"never", "running", "ok", "failed", "paused"} /\ e.required \in BOOLEAN
      /\ e.from \in 0..Never /\ e.pass \in Passes
  BY EntryFields
<1>2. defaultBackfillStart(g) \in 0..MaxTime /\ now \in Times /\ posted[g] \in SUBSET Times
  BY StartType DEF TypeOK
<1>3. start \in 0..MaxTime /\ (e.required => start <= e.from)
  <2>1. defaultBackfillStart(g) \in 0..Never /\ Never \in 0..Never
    BY <1>2, BridgeAssumption DEF Never
  <2>2. start \in 0..Never /\ start <= defaultBackfillStart(g) /\ (e.required => start <= e.from)
    BY <1>1, <2>1, EarlierIsBoth
  <2> QED  BY <1>2, <2>2, BridgeAssumption DEF Never
<1>4. pass \in Passes
  BY <1>1, <1>2, <1>3, BridgeAssumption DEF Passes, Times
<1>5. Begin(g, e) = [e EXCEPT !.backfill = mode, !.pass = pass]
  BY DEF Begin
<1>6. mode \in {"never", "running", "ok", "failed", "paused"}
  BY <1>1
<1>7. /\ Begin(g, e) \in Entries /\ Begin(g, e).pass = pass
      /\ Begin(g, e).from = e.from /\ Begin(g, e).brokeAt = e.brokeAt
  <2> HIDE DEF pass, mode
  <2> QED  BY <1>4, <1>5, <1>6 DEF Entries
<1>8. pass # NoPass
  BY DEF NoPass
<1>9. \A m \in posted[g] \ stored[g] : e.from <= m /\ e.required => m \in pass.todo
  BY <1>1, <1>2, <1>3, BridgeAssumption DEF Times, Never
<1> QED  BY <1>7, <1>8, <1>9

\* A break never raises the bound, and the pass under way becomes stale.
LEMMA BrokenEntry ==
    ASSUME TypeOK, NEW e \in Entries, NEW from \in 0..MaxTime
    PROVE  /\ Broken(e, from) \in Entries
           /\ Broken(e, from).from <= e.from /\ Broken(e, from).from <= from
           /\ Broken(e, from).pass = NoPass \/ Broken(e, from).pass.stale
           /\ Broken(e, from).pass.phase = e.pass.phase /\ Broken(e, from).pass.item = e.pass.item
           /\ Broken(e, from).brokeAt = now
           /\ e.pass = NoPass => Broken(e, from).pass = NoPass
<1> DEFINE pass == IF e.pass = NoPass THEN e.pass ELSE [e.pass EXCEPT !.stale = TRUE]
<1>1. from \in 0..Never /\ from # Never /\ now \in 0..MaxTime /\ e.pass \in Passes
  BY EntryFields, BridgeAssumption DEF Never, TypeOK, Times
<1>2. e.from \in 0..Never
  BY EntryFields
<1>3. /\ earlier(e.from, from) \in 0..Never /\ earlier(e.from, from) # Never
      /\ earlier(e.from, from) <= e.from /\ earlier(e.from, from) <= from
  <2>1. /\ earlier(e.from, from) \in 0..Never
        /\ earlier(e.from, from) <= e.from /\ earlier(e.from, from) <= from
    BY <1>1, <1>2, EarlierIsBoth
  <2> QED  BY <1>1, <2>1, BridgeAssumption DEF Never
<1>4. pass \in Passes /\ pass.phase = e.pass.phase /\ pass.item = e.pass.item /\ (pass = NoPass \/ pass.stale)
  BY <1>1 DEF Passes
<1>5. Broken(e, from) = [e EXCEPT !.required = TRUE, !.from = earlier(e.from, from), !.brokeAt = now, !.pass = pass]
  BY DEF Broken
<1>6. /\ Broken(e, from) \in Entries
      /\ Broken(e, from).from = earlier(e.from, from) /\ Broken(e, from).pass = pass
      /\ Broken(e, from).brokeAt = now
  <2> HIDE DEF pass
  <2> QED  BY <1>1, <1>3, <1>4, <1>5 DEF Entries
<1> QED  BY <1>3, <1>4, <1>6

LEMMA UnreadFromType ==
    ASSUME TypeOK, NEW g \in Groups
    PROVE  UnreadFrom(g) \in 0..MaxTime
<1>1. entry[g] \in Entries
  BY DEF TypeOK
<1>2. entry[g].pass.start \in 0..MaxTime
  BY <1>1 DEF Entries, Passes
<1>3. entry[g].lastEnd # Never => beforeOverlap(entry[g].lastEnd) \in 0..MaxTime
  <2>1. entry[g].lastEnd # Never => entry[g].lastEnd \in 0..MaxTime
    BY <1>1, EntryFields, BridgeAssumption DEF Never
  <2> QED  BY <2>1, OverlapType
<1> QED  BY <1>2, <1>3, StartType DEF UnreadFrom

\* What queueGroupBackfill does to an entry: it leaves the pass that runs, or
\* begins one.
LEMMA QueueEntry ==
    ASSUME TypeOK, NEW g \in Groups, NEW e \in Entries, NEW b \in BOOLEAN
    PROVE  LET q == queueGroupBackfill(g, e, b) IN
           /\ q \in Entries /\ q.from = e.from /\ q.brokeAt = e.brokeAt
           /\ e.pass # NoPass => q.pass = e.pass
           /\ e.pass = NoPass => q = Begin(g, e)
<1>1. CASE e.pass = NoPass
  BY <1>1, BeginEntry DEF queueGroupBackfill
<1>2. CASE e.pass # NoPass
  <2>1. queueGroupBackfill(g, e, b) = [e EXCEPT !.queued = e.queued \/ b]
    BY <1>2 DEF queueGroupBackfill
  <2>2. e.queued \/ b \in BOOLEAN
    BY EntryFields
  <2> QED  BY <1>2, <2>1, <2>2 DEF Entries
<1> QED  BY <1>1, <1>2

-----------------------------------------------------------------------------
(* The steps of a pass change one conversation.                              *)

LEMMA EntryKept ==
    ASSUME NEW g, EntryOK(g), entry'[g] = entry[g], inflight[g] \subseteq inflight'[g],
           UNCHANGED <<groups, posted, stored, saved, ingress, owed>>, control'.doing = control.doing
    PROVE  EntryOK(g)'
BY DEF EntryOK, OwedPosted, LeftIsClean, SavedCovers, EntryCovers, PassCovers, HaltedByPause,
       PauseBounds, ItemUnderWay, Unread

LEMMA PassStep ==
    ASSUME IInv, Running, NEW g \in Groups, EntryOK(g)',
           entry' \in [Groups -> Entries], inflight' \in [Groups -> SUBSET Times],
           \A h \in Groups \ {g} : entry'[h] = entry[h] /\ inflight'[h] = inflight[h],
           control' = control \/ control' = [control EXCEPT !.due = control.due \/ ingress.from # Never],
           spent' = spent \/ (spent.faults < MaxFaults /\ spent' = [spent EXCEPT !.faults = spent.faults + 1]),
           UNCHANGED <<now, groups, posted, wire, stored, latest, saved, ingress, line, owed>>
    PROVE  IInv'
<1>1. control'.doing = control.doing /\ control' \in [doing : {"down", "idle", "pausing", "draining", "resuming", "clearing"}, due : BOOLEAN]
  BY DEF IInv, TypeOK
<1>2. spent' \in [faults : 0..MaxFaults, pauses : 0..MaxPauses, changes : 0..MaxChanges, crashes : 0..MaxCrashes]
  BY BridgeAssumption DEF IInv, TypeOK
<1>3. TypeOK'
  BY <1>1, <1>2 DEF IInv, TypeOK
<1>4. ChainOK'
  BY <1>1 DEF IInv, ChainOK
<1>5. DownIsStill'
  BY <1>1 DEF DownIsStill, Running
<1>6. ASSUME NEW h \in Groups, h # g PROVE EntryOK(h)'
  BY <1>1, <1>6, EntryKept DEF IInv
<1> QED  BY <1>3, <1>4, <1>5, <1>6 DEF IInv

\* The entry a pass leaves behind: nothing is read, or the queued pass begins.
LEMMA CloseEntry ==
    ASSUME IInv, NEW g \in groups, NEW e \in Entries, Close(g, e),
           control.doing # "pausing" => \A m \in Unread(g) : e.from <= m,
           ingress.paused => e.from <= saved.from,
           UNCHANGED <<groups, posted, stored, saved, ingress, owed>>
    PROVE  /\ entry' \in [Groups -> Entries]
           /\ \A h \in Groups \ {g} : entry'[h] = entry[h]
           /\ EntryOK(g)'
<1> DEFINE over == [e EXCEPT !.pass = NoPass, !.queued = FALSE]
           left == IF e.queued /\ ~ingress.paused THEN Begin(g, over) ELSE over
<1>0. g \in Groups /\ TypeOK /\ EntryOK(g) /\ control'.doing = control.doing
  BY DEF IInv, TypeOK, Close
<1>1. over \in Entries /\ over.from = e.from /\ over.pass = NoPass
  BY NoPassType DEF Entries
<1>2. entry' = [entry EXCEPT ![g] = left]
  BY DEF Close
<1>3. left \in Entries /\ left.from = e.from /\ (left = over \/ (~ingress.paused /\ left = Begin(g, over)))
  <2> HIDE DEF over
  <2> QED  BY <1>0, <1>1, BeginEntry
<1>4. entry' \in [Groups -> Entries] /\ entry'[g] = left /\ \A h \in Groups \ {g} : entry'[h] = entry[h]
  <2> HIDE DEF left
  <2> QED  BY <1>0, <1>2, <1>3 DEF TypeOK
<1> HIDE DEF over, left
<1>5. Unread(g) \subseteq posted[g] \ stored[g]
  BY <1>0 DEF EntryOK, OwedPosted, Unread
<1>6. OwedPosted(g)' /\ LeftIsClean(g)' /\ SavedCovers(g)' /\ PauseBounds(g)' /\ EntryCovers(g)'
  BY <1>0, <1>3, <1>4 DEF EntryOK, OwedPosted, LeftIsClean, SavedCovers, PauseBounds, EntryCovers, Unread
<1>7. CASE left = over
  BY <1>1, <1>4, <1>6, <1>7, NoPassType DEF EntryOK, PassCovers, HaltedByPause, ItemUnderWay
<1>8. CASE ~ingress.paused /\ left = Begin(g, over)
  <2>1. /\ left.pass.phase = "reading"
        /\ left.pass.recovery => \A m \in posted[g] \ stored[g] : e.from <= m => m \in left.pass.todo
    BY <1>0, <1>1, <1>8, BeginEntry
  <2>2. PassCovers(g)'
    BY <1>0, <1>4, <1>5, <2>1 DEF PassCovers, Unread
  <2>3. HaltedByPause(g)' /\ ItemUnderWay(g)'
    BY <1>4, <1>8, <2>1 DEF HaltedByPause, ItemUnderWay
  <2> QED  BY <1>4, <1>6, <2>2, <2>3 DEF EntryOK
<1> QED  BY <1>3, <1>4, <1>7, <1>8

LEMMA ReceiveEntry ==
    ASSUME IInv, NEW g \in groups, NEW todo \in SUBSET Times, Receive(g, todo), ~Halted(g),
           control.doing # "pausing" /\ entry[g].pass.recovery => Unread(g) \subseteq todo,
           UNCHANGED <<groups, posted, stored, saved, ingress, owed>>
    PROVE  /\ entry' \in [Groups -> Entries] /\ inflight' \in [Groups -> SUBSET Times]
           /\ \A h \in Groups \ {g} : entry'[h] = entry[h] /\ inflight'[h] = inflight[h]
           /\ EntryOK(g)'
<1>0. g \in Groups /\ TypeOK /\ EntryOK(g) /\ control' = control
  BY DEF IInv, TypeOK, Receive
<1>1. PICK m \in todo :
        /\ inflight' = [inflight EXCEPT ![g] = @ \cup {m}]
        /\ entry' = [entry EXCEPT ![g].pass = [@ EXCEPT !.phase = "receiving", !.todo = todo, !.item = m]]
  BY DEF Receive
<1> DEFINE pass == [entry[g].pass EXCEPT !.phase = "receiving", !.todo = todo, !.item = m]
<1>2. entry[g] \in Entries /\ entry[g].pass \in Passes /\ m \in Times
  BY <1>0, EntryFields DEF TypeOK
<1>3. pass \in Passes
  <2>1. m \in 0..MaxTime
    BY <1>2, BridgeAssumption DEF Times
  <2> QED  BY <1>2, <2>1 DEF Passes
<1>4. /\ pass.phase = "receiving" /\ pass.item = m /\ pass.todo = todo
      /\ pass.recovery = entry[g].pass.recovery /\ pass.stale = entry[g].pass.stale
  BY <1>2 DEF Passes
<1>5. entry' = [entry EXCEPT ![g] = [entry[g] EXCEPT !.pass = pass]]
  BY <1>0, <1>1, <1>2 DEF TypeOK
<1> HIDE DEF pass
<1>6. /\ [entry[g] EXCEPT !.pass = pass] \in Entries
      /\ [entry[g] EXCEPT !.pass = pass].pass = pass
      /\ [entry[g] EXCEPT !.pass = pass].from = entry[g].from
  BY <1>2, <1>3 DEF Entries
<1>7. /\ entry' \in [Groups -> Entries] /\ entry'[g].pass = pass /\ entry'[g].from = entry[g].from
      /\ \A h \in Groups \ {g} : entry'[h] = entry[h]
  BY <1>0, <1>5, <1>6 DEF TypeOK
<1>8. /\ inflight' \in [Groups -> SUBSET Times] /\ m \in inflight'[g]
      /\ \A h \in Groups \ {g} : inflight'[h] = inflight[h]
  BY <1>0, <1>1, <1>2 DEF TypeOK
<1>9. OwedPosted(g)' /\ LeftIsClean(g)' /\ SavedCovers(g)' /\ PauseBounds(g)' /\ EntryCovers(g)'
  BY <1>0, <1>7 DEF EntryOK, OwedPosted, LeftIsClean, SavedCovers, PauseBounds, EntryCovers, Unread
<1>10. PassCovers(g)' /\ HaltedByPause(g)' /\ ItemUnderWay(g)'
  BY <1>0, <1>4, <1>7, <1>8 DEF Halted, PassCovers, HaltedByPause, ItemUnderWay, Unread
<1> QED  BY <1>7, <1>8, <1>9, <1>10 DEF EntryOK

\* a pass that has something to do is that of a subscribed conversation
LEMMA PassRuns ==
    ASSUME IInv, NEW g \in Groups, entry[g].pass.phase \in {"reading", "receiving"}
    PROVE  g \in groups /\ Running
<1>1. entry[g].pass # NoPass
  BY DEF NoPass
<1> QED  BY <1>1 DEF IInv, EntryOK, LeftIsClean, DownIsStill

\* Everything of the pass is received.  What is unread is in a pass that closes
\* the recovery, so nothing is unread then.
LEMMA SucceedStep ==
    ASSUME IInv, NEW g \in groups, Succeed(g), entry[g].pass.todo \subseteq stored[g],
           UNCHANGED <<groups, posted, stored, saved, ingress, owed>>
    PROVE  /\ entry' \in [Groups -> Entries]
           /\ \A h \in Groups \ {g} : entry'[h] = entry[h]
           /\ EntryOK(g)'
<1> DEFINE e == entry[g]
           closes == e.pass.recovery /\ ~e.pass.stale /\ line[LineOf(g)] = "ready"
           done == [e EXCEPT !.backfill = "ok", !.lastEnd = e.pass.end,
                             !.required = e.required /\ ~closes,
                             !.from = IF closes THEN Never ELSE e.from,
                             !.brokeAt = IF closes THEN 0 ELSE e.brokeAt]
<1>0. g \in Groups /\ TypeOK /\ EntryOK(g)
  BY DEF IInv, TypeOK
<1>1. e \in Entries
  BY <1>0 DEF TypeOK
<1>2. closes \in BOOLEAN /\ e.pass.end \in 0..Never /\ Never \in 0..Never
  BY <1>1, EntryFields, BridgeAssumption DEF Passes, Never
<1>3. done \in Entries /\ done.from = (IF closes THEN Never ELSE e.from)
  <2> HIDE DEF closes
  <2>1. (e.required /\ ~closes) <=> (IF closes THEN Never ELSE e.from) # Never
    BY <1>1, EntryFields
  <2>2. /\ (IF closes THEN Never ELSE e.from) \in 0..Never
        /\ (IF closes THEN 0 ELSE e.brokeAt) \in 0..MaxTime
    BY <1>1, <1>2, EntryFields, BridgeAssumption
  <2> QED  BY <1>1, <1>2, <2>1, <2>2 DEF Entries
<1>4. Close(g, done)
  BY DEF Succeed
<1>5. closes /\ control.doing # "pausing" => Unread(g) = {}
  BY <1>0 DEF EntryOK, PassCovers, Unread
<1>6. control.doing # "pausing" => \A m \in Unread(g) : done.from <= m
  BY <1>0, <1>3, <1>5 DEF EntryOK, EntryCovers
<1>7. ingress.paused => ~closes
  BY <1>0, NoPassType DEF EntryOK, HaltedByPause
<1>8. ingress.paused => done.from <= saved.from
  BY <1>0, <1>3, <1>7 DEF EntryOK, PauseBounds
<1> HIDE DEF done
<1> QED  BY <1>3, <1>4, <1>6, <1>8, CloseEntry

LEMMA FailStep ==
    ASSUME IInv, NEW g \in groups,
           NEW e \in Entries, e.from = entry[g].from, Close(g, e),
           UNCHANGED <<groups, posted, stored, saved, ingress, owed>>
    PROVE  /\ entry' \in [Groups -> Entries]
           /\ \A h \in Groups \ {g} : entry'[h] = entry[h]
           /\ EntryOK(g)'
<1>1. g \in Groups /\ EntryOK(g)
  BY DEF IInv, TypeOK
<1>2. /\ control.doing # "pausing" => \A m \in Unread(g) : e.from <= m
      /\ ingress.paused => e.from <= saved.from
  BY <1>1 DEF EntryOK, EntryCovers, PauseBounds
<1> QED  BY <1>2, CloseEntry

LEMMA FailedEntry ==
    ASSUME IInv, NEW g \in groups, Fail(g),
           UNCHANGED <<groups, posted, stored, saved, ingress, owed>>
    PROVE  /\ entry' \in [Groups -> Entries]
           /\ \A h \in Groups \ {g} : entry'[h] = entry[h]
           /\ EntryOK(g)'
<1> DEFINE e == [entry[g] EXCEPT !.backfill = IF Halted(g) THEN entry[g].backfill ELSE "failed"]
<1>1. entry[g] \in Entries
  BY DEF IInv, TypeOK
<1>2. e \in Entries /\ e.from = entry[g].from
  BY <1>1 DEF Entries
<1>3. Close(g, e)
  BY DEF Fail
<1> HIDE DEF e
<1> QED  BY <1>2, <1>3, FailStep

LEMMA HistoryReadStep ==
    ASSUME IInv, NEW g \in Groups, HistoryRead(g)
    PROVE  IInv'
<1>1. g \in groups /\ Running
  BY PassRuns DEF HistoryRead
<1>2. entry[g] \in Entries /\ TypeOK
  BY DEF IInv, TypeOK
<1>3. /\ entry' \in [Groups -> Entries] /\ inflight' \in [Groups -> SUBSET Times]
      /\ \A h \in Groups \ {g} : entry'[h] = entry[h] /\ inflight'[h] = inflight[h]
      /\ EntryOK(g)'
  <2>1. CASE Halted(g)
    BY <1>1, <1>2, <2>1, FailStep DEF HistoryRead, TypeOK
  <2>2. CASE ~Halted(g) /\ entry[g].pass.todo = {}
    BY <1>1, <1>2, <2>2, SucceedStep DEF HistoryRead, TypeOK
  <2>3. CASE ~Halted(g) /\ entry[g].pass.todo # {}
    <3>1. entry[g].pass.todo \in SUBSET Times
      BY <1>2, EntryFields DEF Passes
    <3>2. control.doing # "pausing" /\ entry[g].pass.recovery => Unread(g) \subseteq entry[g].pass.todo
      BY <2>3 DEF IInv, EntryOK, PassCovers, Halted
    <3> QED  BY <1>1, <2>3, <3>1, <3>2, ReceiveEntry DEF HistoryRead
  <2> QED  BY <2>1, <2>2, <2>3
<1>4. control' = control \/ control' = [control EXCEPT !.due = control.due \/ ingress.from # Never]
  BY DEF HistoryRead, Close, Succeed, Receive
<1>5. UNCHANGED <<now, groups, posted, wire, stored, latest, saved, ingress, line, owed, spent>>
  BY DEF HistoryRead
<1> QED  BY <1>1, <1>3, <1>4, <1>5, PassStep

LEMMA HistoryPartialStep ==
    ASSUME IInv, NEW g \in Groups, HistoryPartial(g)
    PROVE  IInv'
<1>1. g \in groups /\ Running
  BY PassRuns DEF HistoryPartial
<1>2. /\ entry' \in [Groups -> Entries]
      /\ \A h \in Groups \ {g} : entry'[h] = entry[h]
      /\ EntryOK(g)'
  BY <1>1, FailedEntry DEF HistoryPartial
<1>3. inflight' = inflight /\ inflight \in [Groups -> SUBSET Times]
  BY DEF HistoryPartial, IInv, TypeOK
<1>4. control' = control \/ control' = [control EXCEPT !.due = control.due \/ ingress.from # Never]
  BY DEF HistoryPartial, Fail, Close
<1>5. /\ UNCHANGED <<now, groups, posted, wire, stored, latest, saved, ingress, line, owed>>
      /\ spent.faults < MaxFaults /\ spent' = [spent EXCEPT !.faults = spent.faults + 1]
  BY DEF HistoryPartial
<1> QED  BY <1>1, <1>2, <1>3, <1>4, <1>5, PassStep

LEMMA PassContinuesStep ==
    ASSUME IInv, NEW g \in Groups, PassContinues(g)
    PROVE  IInv'
<1> DEFINE rest == entry[g].pass.todo \ {entry[g].pass.item}
<1>1. g \in groups /\ Running
  BY PassRuns DEF PassContinues
<1>2. entry[g] \in Entries /\ TypeOK /\ EntryOK(g)
  BY DEF IInv, TypeOK
<1>3. entry[g].pass.item \in stored[g]
  BY <1>2 DEF PassContinues, EntryOK, ItemUnderWay
<1>4. /\ entry' \in [Groups -> Entries] /\ inflight' \in [Groups -> SUBSET Times]
      /\ \A h \in Groups \ {g} : entry'[h] = entry[h] /\ inflight'[h] = inflight[h]
      /\ EntryOK(g)'
  <2>1. CASE rest = {}
    <3>1. entry[g].pass.todo \subseteq stored[g]
      BY <1>3, <2>1
    <3> QED  BY <1>1, <1>2, <2>1, <3>1, SucceedStep DEF PassContinues, TypeOK
  <2>2. CASE rest # {} /\ Halted(g)
    BY <1>1, <1>2, <2>2, FailStep DEF PassContinues, TypeOK
  <2>3. CASE rest # {} /\ ~Halted(g)
    <3>1. rest \in SUBSET Times
      BY <1>2, EntryFields DEF Passes
    <3>2. control.doing # "pausing" /\ entry[g].pass.recovery => Unread(g) \subseteq rest
      BY <1>2, <1>3, <2>3 DEF EntryOK, PassCovers, Halted, Unread
    <3>3. Receive(g, rest)
      BY <2>3 DEF PassContinues
    <3>4. UNCHANGED <<groups, posted, stored, saved, ingress, owed>>
      BY DEF PassContinues
    <3> HIDE DEF rest
    <3> QED  BY <1>1, <2>3, <3>1, <3>2, <3>3, <3>4, ReceiveEntry
  <2> QED  BY <2>1, <2>2, <2>3
<1>5. control' = control \/ control' = [control EXCEPT !.due = control.due \/ ingress.from # Never]
  BY DEF PassContinues, Close, Succeed, Receive
<1>6. UNCHANGED <<now, groups, posted, wire, stored, latest, saved, ingress, line, owed, spent>>
  BY DEF PassContinues
<1> QED  BY <1>1, <1>4, <1>5, <1>6, PassStep

LEMMA IngestFailsStep ==
    ASSUME IInv, NEW g \in Groups, NEW m \in Times, IngestFails(g, m)
    PROVE  IInv'
<1> DEFINE pass == entry[g].pass
<1>1. TypeOK /\ EntryOK(g) /\ Running
  BY DEF IInv, IngestFails, DownIsStill
<1>2. /\ inflight' \in [Groups -> SUBSET Times] /\ inflight'[g] = inflight[g] \ {m}
      /\ \A h \in Groups \ {g} : inflight'[h] = inflight[h]
  BY <1>1 DEF IngestFails, TypeOK
<1>3. /\ UNCHANGED <<now, groups, posted, wire, stored, latest, saved, ingress, line, owed>>
      /\ spent.faults < MaxFaults /\ spent' = [spent EXCEPT !.faults = spent.faults + 1]
  BY DEF IngestFails
<1>4. CASE pass.phase = "receiving" /\ pass.item = m
  <2>1. Fail(g) /\ g \in groups
    BY <1>4, PassRuns DEF IngestFails
  <2>2. /\ entry' \in [Groups -> Entries]
        /\ \A h \in Groups \ {g} : entry'[h] = entry[h]
        /\ EntryOK(g)'
    BY <1>3, <2>1, FailedEntry
  <2>3. control' = control \/ control' = [control EXCEPT !.due = control.due \/ ingress.from # Never]
    BY <2>1 DEF Fail, Close
  <2> QED  BY <1>1, <1>2, <1>3, <2>2, <2>3, PassStep
<1>5. CASE ~(pass.phase = "receiving" /\ pass.item = m)
  <2>1. UNCHANGED <<entry, control>>
    BY <1>5 DEF IngestFails
  <2>2. EntryOK(g)'
    BY <1>1, <1>2, <1>3, <1>5, <2>1 DEF EntryOK, OwedPosted, LeftIsClean, SavedCovers, EntryCovers, PassCovers,
       HaltedByPause, PauseBounds, ItemUnderWay, Unread
  <2> QED  BY <1>1, <1>2, <1>3, <2>1, <2>2, PassStep DEF TypeOK
<1> QED  BY <1>4, <1>5

-----------------------------------------------------------------------------
(* The interval, the listeners and the messages.                             *)

\* a pass that begins while reception is not paused reads all that is unread
LEMMA QueuedEntry ==
    ASSUME IInv, NEW g \in groups, NEW b \in BOOLEAN, ~ingress.paused,
           entry'[g] = queueGroupBackfill(g, entry[g], b), control' = control,
           UNCHANGED <<groups, posted, stored, saved, ingress, inflight, owed>>
    PROVE  entry'[g] \in Entries /\ EntryOK(g)'
<1>0. g \in Groups /\ TypeOK /\ EntryOK(g) /\ entry[g] \in Entries
  BY DEF IInv, TypeOK
<1>1. /\ entry'[g] \in Entries /\ entry'[g].from = entry[g].from
      /\ entry[g].pass # NoPass => entry'[g].pass = entry[g].pass
      /\ entry[g].pass = NoPass => entry'[g] = Begin(g, entry[g])
  BY <1>0, QueueEntry
<1>2. OwedPosted(g)' /\ LeftIsClean(g)' /\ SavedCovers(g)' /\ PauseBounds(g)' /\ EntryCovers(g)' /\ HaltedByPause(g)'
  BY <1>0, <1>1 DEF EntryOK, OwedPosted, LeftIsClean, SavedCovers, PauseBounds, EntryCovers, HaltedByPause, Unread
<1>3. CASE entry[g].pass # NoPass
  BY <1>0, <1>1, <1>2, <1>3 DEF EntryOK, PassCovers, ItemUnderWay, Unread
<1>4. CASE entry[g].pass = NoPass
  <2>1. /\ entry'[g].pass.phase = "reading"
        /\ entry'[g].pass.recovery =>
             \A m \in posted[g] \ stored[g] : entry[g].from <= m => m \in entry'[g].pass.todo
    BY <1>0, <1>1, <1>4, BeginEntry
  <2>2. PassCovers(g)'
    BY <1>0, <2>1 DEF EntryOK, EntryCovers, OwedPosted, PassCovers, Unread
  <2>3. ItemUnderWay(g)'
    BY <2>1 DEF ItemUnderWay
  <2> QED  BY <1>1, <1>2, <2>2, <2>3 DEF EntryOK
<1> QED  BY <1>3, <1>4

LEMMA BackfillTickStep ==
    ASSUME IInv, BackfillTick
    PROVE  IInv'
<1>0. TypeOK /\ ~ingress.paused /\ Running
  BY DEF IInv, BackfillTick
<1>1. /\ UNCHANGED <<now, groups, posted, wire, stored, latest, saved, ingress, control, line, inflight, owed, spent>>
      /\ entry' = [g \in Groups |-> IF g \in groups THEN queueGroupBackfill(g, entry[g], FALSE) ELSE entry[g]]
  BY DEF BackfillTick
<1>2. ASSUME NEW g \in Groups PROVE entry'[g] \in Entries /\ EntryOK(g)'
  <2>1. CASE g \in groups
    <3>1. entry'[g] = queueGroupBackfill(g, entry[g], FALSE)
      BY <1>1, <2>1
    <3> QED  BY <1>0, <1>1, <2>1, <3>1, QueuedEntry
  <2>2. CASE g \notin groups
    <3>1. entry'[g] = entry[g]
      BY <1>1, <2>2
    <3> QED  BY <1>0, <1>1, <3>1, EntryKept DEF IInv, TypeOK
  <2> QED  BY <2>1, <2>2
<1>3. entry' \in [Groups -> Entries]
  BY <1>1, <1>2
<1>4. TypeOK'
  BY <1>0, <1>1, <1>3 DEF TypeOK
<1>5. ChainOK' /\ DownIsStill'
  BY <1>0, <1>1 DEF IInv, ChainOK, DownIsStill, Running
<1> QED  BY <1>2, <1>4, <1>5 DEF IInv

LEMMA ListenerReadyStep ==
    ASSUME IInv, NEW l \in Lines, ListenerReady(l)
    PROVE  IInv'
<1>0. TypeOK /\ Running
  BY DEF IInv, ListenerReady, DownIsStill
<1>1. /\ UNCHANGED <<now, groups, posted, wire, stored, latest, saved, ingress, control, inflight, owed, spent>>
      /\ line' = [line EXCEPT ![l] = "ready"]
      /\ entry' = [g \in Groups |-> IF g \in On(l) /\ ~ingress.paused
                                    THEN queueGroupBackfill(g, entry[g], TRUE) ELSE entry[g]]
  BY DEF ListenerReady
<1>2. ASSUME NEW g \in Groups PROVE entry'[g] \in Entries /\ EntryOK(g)'
  <2>1. CASE g \in On(l) /\ ~ingress.paused
    <3>1. entry'[g] = queueGroupBackfill(g, entry[g], TRUE) /\ g \in groups
      BY <1>1, <2>1 DEF On
    <3> QED  BY <1>1, <2>1, <3>1, QueuedEntry
  <2>2. CASE ~(g \in On(l) /\ ~ingress.paused)
    <3>1. entry'[g] = entry[g]
      BY <1>1, <2>2
    <3> QED  BY <1>0, <1>1, <3>1, EntryKept DEF IInv, TypeOK
  <2> QED  BY <2>1, <2>2
<1>3. entry' \in [Groups -> Entries]
  BY <1>1, <1>2
<1>4. TypeOK'
  BY <1>0, <1>1, <1>3 DEF TypeOK
<1>5. ChainOK' /\ DownIsStill'
  BY <1>0, <1>1 DEF IInv, ChainOK, DownIsStill, Running
<1> QED  BY <1>2, <1>4, <1>5 DEF IInv

\* a break leaves the pass stale, and bounds the recovery no later than before
LEMMA BrokenOK ==
    ASSUME IInv, NEW g \in groups, NEW from \in 0..MaxTime, entry'[g].from = Broken(entry[g], from).from,
           entry'[g].pass = Broken(entry[g], from).pass, control' = control,
           UNCHANGED <<groups, posted, stored, saved, ingress, inflight, owed>>
    PROVE  EntryOK(g)'
<1>0. g \in Groups /\ TypeOK /\ EntryOK(g) /\ entry[g] \in Entries
  BY DEF IInv, TypeOK
<1>1. /\ entry'[g].from <= entry[g].from
      /\ entry'[g].pass = NoPass \/ entry'[g].pass.stale
      /\ entry'[g].pass.phase = entry[g].pass.phase /\ entry'[g].pass.item = entry[g].pass.item
      /\ entry'[g].from \in 0..Never
  BY <1>0, BrokenEntry, EntryFields
<1>2. entry[g].from \in 0..Never /\ saved.from \in 0..Never /\ Unread(g) \subseteq Times
  BY <1>0, EntryFields DEF TypeOK, IngressStates, Unread
<1>3. PauseBounds(g)' /\ EntryCovers(g)'
  BY <1>0, <1>1, <1>2, BridgeAssumption DEF EntryOK, PauseBounds, EntryCovers, Unread, Times, Never
<1>4. OwedPosted(g)' /\ LeftIsClean(g)' /\ SavedCovers(g)' /\ HaltedByPause(g)' /\ ItemUnderWay(g)'
  BY <1>0, <1>1 DEF EntryOK, OwedPosted, LeftIsClean, SavedCovers, HaltedByPause, ItemUnderWay, Unread
<1>5. PassCovers(g)'
  BY <1>1, NoPassType DEF PassCovers
<1> QED  BY <1>3, <1>4, <1>5 DEF EntryOK

LEMMA ListenerFailsStep ==
    ASSUME IInv, NEW l \in Lines, ListenerFails(l)
    PROVE  IInv'
<1>0. TypeOK /\ Running
  BY DEF IInv, ListenerFails, DownIsStill
<1>1. /\ UNCHANGED <<now, groups, posted, stored, latest, saved, ingress, control, inflight, owed>>
      /\ line' = [line EXCEPT ![l] = "reconnecting"]
      /\ wire' = [g \in Groups |-> IF g \in On(l) THEN {} ELSE wire[g]]
      /\ entry' = [g \in Groups |-> IF g \in On(l) THEN Broken(entry[g], UnreadFrom(g)) ELSE entry[g]]
      /\ spent.faults < MaxFaults /\ spent' = [spent EXCEPT !.faults = spent.faults + 1]
  BY DEF ListenerFails
<1>2. ASSUME NEW g \in Groups PROVE entry'[g] \in Entries /\ EntryOK(g)'
  <2>1. CASE g \in On(l)
    <3>1. entry'[g] = Broken(entry[g], UnreadFrom(g)) /\ g \in groups
      BY <1>1, <2>1 DEF On
    <3>2. UnreadFrom(g) \in 0..MaxTime /\ entry[g] \in Entries
      BY <1>0, UnreadFromType DEF TypeOK
    <3>3. entry'[g] \in Entries
      BY <1>0, <3>1, <3>2, BrokenEntry
    <3>4. EntryOK(g)'
      BY <1>1, <3>1, <3>2, BrokenOK
    <3> QED  BY <3>3, <3>4
  <2>2. CASE g \notin On(l)
    <3>1. entry'[g] = entry[g]
      BY <1>1, <2>2
    <3> QED  BY <1>0, <1>1, <3>1, EntryKept DEF IInv, TypeOK
  <2> QED  BY <2>1, <2>2
<1>3. entry' \in [Groups -> Entries]
  BY <1>1, <1>2
<1>4. spent' \in [faults : 0..MaxFaults, pauses : 0..MaxPauses, changes : 0..MaxChanges, crashes : 0..MaxCrashes]
  BY <1>0, <1>1, BridgeAssumption DEF TypeOK
<1>5. TypeOK'
  BY <1>0, <1>1, <1>3, <1>4 DEF TypeOK
<1>6. ChainOK' /\ DownIsStill'
  BY <1>0, <1>1 DEF IInv, ChainOK, DownIsStill, Running
<1> QED  BY <1>2, <1>5, <1>6 DEF IInv

LEMMA ReconnectStep ==
    ASSUME IInv, NEW l \in Lines, Reconnect(l)
    PROVE  IInv'
<1>0. TypeOK /\ Running
  BY DEF IInv, Reconnect, DownIsStill
<1>1. TypeOK'
  BY <1>0 DEF TypeOK, Reconnect
<1>2. ChainOK' /\ DownIsStill'
  BY <1>0 DEF IInv, ChainOK, DownIsStill, Running, Reconnect
<1>3. \A g \in Groups : EntryOK(g)'
  BY EntryKept DEF IInv, Reconnect
<1> QED  BY <1>1, <1>2, <1>3 DEF IInv

LEMMA TickStep ==
    ASSUME IInv, Tick
    PROVE  IInv'
<1>0. TypeOK
  BY DEF IInv
<1>1. TypeOK'
  BY <1>0, BridgeAssumption DEF TypeOK, Tick, Times
<1>2. ChainOK'
  BY <1>0 DEF IInv, ChainOK, Tick, TypeOK, Times, IngressStates
<1>3. DownIsStill'
  BY DEF IInv, DownIsStill, Running, Tick
<1>4. \A g \in Groups : EntryOK(g)'
  BY EntryKept DEF IInv, Tick
<1> QED  BY <1>1, <1>2, <1>3, <1>4 DEF IInv

\* A message that is owed is posted under a bound that is not later than now.
LEMMA PostStep ==
    ASSUME IInv, NEW g \in Groups, Post(g)
    PROVE  IInv'
<1>0. TypeOK /\ g \in groups /\ now \in Times
  BY DEF IInv, TypeOK, Post
<1>1. UNCHANGED <<now, groups, stored, latest, saved, ingress, control, line, entry, inflight, spent>>
  BY DEF Post
<1>2. /\ posted' = [posted EXCEPT ![g] = posted[g] \cup {now}]
      /\ posted' \in [Groups -> SUBSET Times]
  BY <1>0 DEF Post, TypeOK
<1>3. wire' = wire \/ (line[LineOf(g)] \in {"starting", "ready"} /\ wire' \in [Groups -> SUBSET Times])
  BY <1>0 DEF Post, TypeOK
<1>4. /\ owed' \in [Groups -> SUBSET Times]
      /\ \A h \in Groups \ {g} : owed'[h] = owed[h]
      /\ owed'[g] = owed[g] \/ ((saved.paused \/ ingress.paused) /\ owed'[g] = owed[g] \cup {now})
  BY <1>0 DEF Post, TypeOK
<1>5. TypeOK'
  BY <1>0, <1>1, <1>2, <1>3, <1>4 DEF TypeOK
<1>6. ChainOK'
  BY <1>1 DEF IInv, ChainOK
<1>7. DownIsStill'
  <2>1. LineOf(g) \in Lines
    BY DEF Lines
  <2> QED  BY <1>1, <1>3, <2>1 DEF IInv, DownIsStill, Running
<1>8. ASSUME NEW h \in Groups, h # g PROVE EntryOK(h)'
  <2>1. posted'[h] = posted[h] /\ owed'[h] = owed[h] /\ EntryOK(h)
    BY <1>0, <1>2, <1>4, <1>8 DEF IInv, TypeOK
  <2> QED  BY <1>1, <2>1 DEF EntryOK, OwedPosted, LeftIsClean, SavedCovers, EntryCovers, PassCovers,
       HaltedByPause, PauseBounds, ItemUnderWay, Unread
<1>9. EntryOK(g)'
  <2>1. EntryOK(g) /\ posted[g] \subseteq posted'[g] /\ now \in posted'[g]
    BY <1>0, <1>2 DEF IInv, TypeOK
  <2>2. LeftIsClean(g)' /\ HaltedByPause(g)' /\ PauseBounds(g)' /\ ItemUnderWay(g)' /\ OwedPosted(g)'
    BY <1>0, <1>1, <1>4, <2>1 DEF EntryOK, LeftIsClean, HaltedByPause, PauseBounds, ItemUnderWay, OwedPosted
  <2>3. CASE owed'[g] = owed[g]
    BY <1>1, <2>1, <2>2, <2>3 DEF EntryOK, SavedCovers, EntryCovers, PassCovers, Unread
  <2>4. CASE (saved.paused \/ ingress.paused) /\ owed'[g] = owed[g] \cup {now}
    <3>1. saved.from <= now
      BY <2>4 DEF IInv, ChainOK
    <3>2. control.doing # "pausing" => ingress.paused
      BY <1>0, <2>4 DEF IInv, ChainOK, TypeOK
    <3>3. control.doing # "pausing" => entry[g].from <= now
      <4>1. control.doing # "pausing" => entry[g].from <= saved.from
        BY <1>0, <2>1, <3>2 DEF EntryOK, PauseBounds
      <4>2. entry[g].from \in 0..Never /\ saved.from \in 0..Never
        BY <1>0, EntryFields DEF TypeOK, IngressStates
      <4> QED  BY <1>0, <3>1, <4>1, <4>2, BridgeAssumption DEF Times, Never
    <3>4. SavedCovers(g)' /\ EntryCovers(g)'
      BY <1>1, <2>1, <2>4, <3>1, <3>3 DEF EntryOK, SavedCovers, EntryCovers, Unread
    <3>5. PassCovers(g)'
      BY <1>1, <2>1, <3>2, NoPassType DEF EntryOK, HaltedByPause, PassCovers
    <3> QED  BY <2>2, <3>4, <3>5 DEF EntryOK
  <2> QED  BY <1>4, <2>3, <2>4
<1> QED  BY <1>5, <1>6, <1>7, <1>8, <1>9 DEF IInv

LEMMA EventArrivesStep ==
    ASSUME IInv, NEW g \in Groups, NEW m \in Times, EventArrives(g, m)
    PROVE  IInv'
<1>0. TypeOK /\ Running
  BY DEF IInv, EventArrives, DownIsStill
<1>1. TypeOK'
  BY <1>0 DEF TypeOK, EventArrives
<1>2. ChainOK' /\ DownIsStill'
  BY <1>0 DEF IInv, ChainOK, DownIsStill, Running, EventArrives
<1>3. \A h \in Groups : inflight[h] \subseteq inflight'[h]
  BY <1>0 DEF TypeOK, EventArrives
<1>4. \A h \in Groups : EntryOK(h)'
  BY <1>3, EntryKept DEF IInv, EventArrives
<1> QED  BY <1>1, <1>2, <1>4 DEF IInv

LEMMA IngestedStep ==
    ASSUME IInv, NEW g \in Groups, NEW m \in Times, Ingested(g, m)
    PROVE  IInv'
<1>0. TypeOK /\ Running
  BY DEF IInv, Ingested, DownIsStill
<1>1. latest' \in [Groups -> 0..MaxTime]
  <2>1. (IF m > latest[g] THEN m ELSE latest[g]) \in 0..MaxTime
    BY <1>0, BridgeAssumption DEF TypeOK, Times
  <2> QED  BY <1>0, <2>1 DEF TypeOK, Ingested
<1>2. TypeOK'
  BY <1>0, <1>1 DEF TypeOK, Ingested
<1>3. ChainOK' /\ DownIsStill'
  BY <1>0 DEF IInv, ChainOK, DownIsStill, Running, Ingested
<1>4. ASSUME NEW h \in Groups PROVE EntryOK(h)'
  <2>1. stored[h] \subseteq stored'[h] /\ inflight[h] \subseteq inflight'[h] \cup stored'[h]
    BY <1>0 DEF TypeOK, Ingested
  <2>2. EntryOK(h) /\ UNCHANGED <<groups, posted, saved, ingress, control, entry, owed>>
    BY DEF IInv, Ingested
  <2> QED  BY <2>1, <2>2 DEF EntryOK, OwedPosted, LeftIsClean, SavedCovers, EntryCovers, PassCovers,
       HaltedByPause, PauseBounds, ItemUnderWay, Unread
<1> QED  BY <1>2, <1>3, <1>4 DEF IInv

-----------------------------------------------------------------------------
(* Subscriptions, the switch, and the restart.                               *)

\* an entry without a pass is right if its bound covers what is unread
LEMMA FreshEntry ==
    ASSUME NEW g, OwedPosted(g)', LeftIsClean(g)', SavedCovers(g)', EntryCovers(g)', PauseBounds(g)',
           entry'[g].pass = NoPass
    PROVE  EntryOK(g)'
BY NoPassType DEF EntryOK, PassCovers, HaltedByPause, ItemUnderWay

LEMMA SubscribeStep ==
    ASSUME IInv, NEW g \in Groups, Subscribe(g)
    PROVE  IInv'
<1>0. TypeOK /\ Running /\ g \notin groups
  BY DEF IInv, Subscribe
<1>1. NewEntry(ingress) \in Entries /\ NewEntry(ingress).from = ingress.from /\ NewEntry(ingress).pass = NoPass
  BY <1>0, NewEntryType DEF TypeOK
<1>2. /\ entry' \in [Groups -> Entries] /\ entry'[g] = NewEntry(ingress)
      /\ \A h \in Groups \ {g} : entry'[h] = entry[h]
  BY <1>0, <1>1 DEF Subscribe, TypeOK
<1>3. line' \in [Lines -> {"down", "none", "starting", "ready", "reconnecting", "paused"}]
  BY <1>0 DEF Subscribe, Attached, TypeOK
<1>4. spent' \in [faults : 0..MaxFaults, pauses : 0..MaxPauses, changes : 0..MaxChanges, crashes : 0..MaxCrashes]
  BY <1>0, BridgeAssumption DEF TypeOK, Subscribe, Changed
<1>5. TypeOK'
  BY <1>0, <1>2, <1>3, <1>4 DEF TypeOK, Subscribe
<1>6. ChainOK' /\ DownIsStill'
  BY <1>0 DEF IInv, ChainOK, DownIsStill, Running, Subscribe
<1>7. groups' = groups \cup {g} /\ UNCHANGED <<posted, stored, saved, ingress, control, inflight, owed>>
  BY DEF Subscribe
<1>8. EntryOK(g)'
  <2>1. EntryOK(g) /\ owed[g] = {}
    BY <1>0 DEF IInv, EntryOK, LeftIsClean
  <2>2. PauseBounds(g)'
    <3>1. ingress.paused => ingress.from = saved.from /\ saved.from \in Int
      BY <1>0, BridgeAssumption DEF IInv, ChainOK, TypeOK, IngressStates, Never
    <3> QED  BY <1>1, <1>2, <1>7, <3>1 DEF PauseBounds
  <2>3. OwedPosted(g)' /\ LeftIsClean(g)' /\ SavedCovers(g)' /\ EntryCovers(g)'
    BY <1>7, <2>1 DEF OwedPosted, LeftIsClean, SavedCovers, EntryCovers, Unread
  <2> QED  BY <1>1, <1>2, <2>2, <2>3, FreshEntry
<1>9. ASSUME NEW h \in Groups, h # g PROVE EntryOK(h)'
  <2>1. EntryOK(h) /\ entry'[h] = entry[h] /\ (h \in groups' <=> h \in groups)
    BY <1>2, <1>7, <1>9 DEF IInv
  <2> QED  BY <1>7, <2>1 DEF EntryOK, OwedPosted, LeftIsClean, SavedCovers, EntryCovers, PassCovers,
       HaltedByPause, PauseBounds, ItemUnderWay, Unread
<1> QED  BY <1>5, <1>6, <1>8, <1>9 DEF IInv

LEMMA UnsubscribeStep ==
    ASSUME IInv, NEW g \in Groups, Unsubscribe(g)
    PROVE  IInv'
<1>0. TypeOK /\ Running
  BY DEF IInv, Unsubscribe
<1>1. Open \in IngressStates
  BY BridgeAssumption DEF Open, IngressStates, Never
<1>2. NewEntry(Open) \in Entries /\ NewEntry(Open).pass = NoPass
  BY <1>1, NewEntryType
<1>3. /\ entry' \in [Groups -> Entries] /\ entry'[g] = NewEntry(Open)
      /\ \A h \in Groups \ {g} : entry'[h] = entry[h]
  BY <1>0, <1>2 DEF Unsubscribe, TypeOK
<1>4. line' \in [Lines -> {"down", "none", "starting", "ready", "reconnecting", "paused"}]
  BY <1>0 DEF Unsubscribe, TypeOK
<1>5. spent' \in [faults : 0..MaxFaults, pauses : 0..MaxPauses, changes : 0..MaxChanges, crashes : 0..MaxCrashes]
  BY <1>0, BridgeAssumption DEF TypeOK, Unsubscribe, Changed
<1>6. /\ control'.doing = control.doing
      /\ control' \in [doing : {"down", "idle", "pausing", "draining", "resuming", "clearing"}, due : BOOLEAN]
  BY <1>0 DEF TypeOK, Unsubscribe
<1>7. /\ owed' \in [Groups -> SUBSET Times] /\ owed'[g] = {} /\ \A h \in Groups \ {g} : owed'[h] = owed[h]
      /\ wire' \in [Groups -> SUBSET Times]
  BY <1>0 DEF TypeOK, Unsubscribe
<1>8. groups' = groups \ {g} /\ UNCHANGED <<now, posted, stored, latest, saved, ingress, inflight>>
  BY DEF Unsubscribe
<1>9. TypeOK'
  BY <1>0, <1>3, <1>4, <1>5, <1>6, <1>7, <1>8 DEF TypeOK
<1>10. ChainOK' /\ DownIsStill'
  BY <1>0, <1>6, <1>8 DEF IInv, ChainOK, DownIsStill, Running
<1>11. EntryOK(g)'
  <2>1. OwedPosted(g)' /\ LeftIsClean(g)' /\ SavedCovers(g)' /\ EntryCovers(g)' /\ PauseBounds(g)'
    BY <1>2, <1>3, <1>7, <1>8 DEF OwedPosted, LeftIsClean, SavedCovers, EntryCovers, PauseBounds, Unread
  <2> QED  BY <1>2, <1>3, <2>1, FreshEntry
<1>12. ASSUME NEW h \in Groups, h # g PROVE EntryOK(h)'
  <2>1. EntryOK(h) /\ entry'[h] = entry[h] /\ owed'[h] = owed[h] /\ (h \in groups' <=> h \in groups)
    BY <1>3, <1>7, <1>8, <1>12 DEF IInv
  <2> QED  BY <1>6, <1>8, <2>1 DEF EntryOK, OwedPosted, LeftIsClean, SavedCovers, EntryCovers, PassCovers,
       HaltedByPause, PauseBounds, ItemUnderWay, Unread
<1> QED  BY <1>9, <1>10, <1>11, <1>12 DEF IInv

LEMMA PauseStep ==
    ASSUME IInv, Pause
    PROVE  IInv'
<1> DEFINE from == earlier(ingress.from, beforeOverlap(now))
<1>0. /\ TypeOK /\ saved = ingress /\ ~ingress.paused /\ control.doing = "idle"
      /\ now \in Times /\ ingress.from \in 0..Never /\ saved.from \in 0..Never
  BY DEF IInv, ChainOK, Pause, TypeOK, IngressStates
<1>1. from \in 0..Never /\ from <= saved.from /\ from <= now
  <2>1. beforeOverlap(now) \in 0..Never /\ beforeOverlap(now) <= now
    BY <1>0, OverlapType, BridgeAssumption DEF Times, Never
  <2>2. from \in 0..Never /\ from <= ingress.from /\ from <= beforeOverlap(now)
    BY <1>0, <2>1, EarlierIsBoth
  <2> QED  BY <1>0, <2>1, <2>2, BridgeAssumption DEF Times, Never
<1>2. /\ saved' = [paused |-> TRUE, from |-> from] /\ control' = [control EXCEPT !.doing = "pausing"]
      /\ UNCHANGED <<now, groups, posted, wire, stored, latest, ingress, line, entry, inflight, owed>>
  BY DEF Pause, Save
<1> HIDE DEF from
<1>3. spent' \in [faults : 0..MaxFaults, pauses : 0..MaxPauses, changes : 0..MaxChanges, crashes : 0..MaxCrashes]
  BY <1>0, BridgeAssumption DEF TypeOK, Pause
<1>4. control'.doing = "pausing" /\ control' \in [doing : {"down", "idle", "pausing", "draining", "resuming", "clearing"}, due : BOOLEAN]
  BY <1>0, <1>2 DEF TypeOK
<1>5. TypeOK'
  BY <1>0, <1>1, <1>2, <1>3, <1>4 DEF TypeOK, IngressStates
<1>6. ChainOK' /\ DownIsStill'
  BY <1>0, <1>1, <1>2, <1>4 DEF IInv, ChainOK, DownIsStill, Running
<1>7. ASSUME NEW g \in Groups PROVE EntryOK(g)'
  <2>1. EntryOK(g) /\ Unread(g) \subseteq Times
    BY <1>0 DEF IInv, TypeOK, Unread
  <2>2. SavedCovers(g)'
    BY <1>0, <1>1, <1>2, <2>1, BridgeAssumption DEF EntryOK, SavedCovers, Unread, Times, Never
  <2>3. EntryCovers(g)' /\ PassCovers(g)' /\ PauseBounds(g)'
    BY <1>0, <1>2, <1>4 DEF EntryCovers, PassCovers, PauseBounds
  <2> QED  BY <1>2, <2>1, <2>2, <2>3 DEF EntryOK, OwedPosted, LeftIsClean, HaltedByPause, ItemUnderWay
<1> QED  BY <1>5, <1>6, <1>7 DEF IInv

LEMMA PausedStep ==
    ASSUME IInv, Paused
    PROVE  IInv'
<1>0. /\ TypeOK /\ saved.paused /\ control.doing = "pausing"
      /\ saved.from \in 0..Never /\ saved.from <= now /\ now \in Times
  BY DEF IInv, ChainOK, Paused, TypeOK, IngressStates
<1>1. saved.from \in 0..MaxTime
  BY <1>0, BridgeAssumption DEF Times, Never
<1>2. /\ ingress' = saved
      /\ UNCHANGED <<now, groups, posted, stored, latest, saved, inflight, owed, spent>>
      /\ entry' = [g \in Groups |->
                    IF g \in groups THEN [Broken(entry[g], saved.from) EXCEPT !.backfill = "paused"]
                    ELSE entry[g]]
  BY DEF Paused
<1>3. control'.doing = "draining" /\ control' \in [doing : {"down", "idle", "pausing", "draining", "resuming", "clearing"}, due : BOOLEAN]
  BY <1>0 DEF TypeOK, Paused
<1>4. ASSUME NEW g \in Groups PROVE entry'[g] \in Entries /\ EntryOK(g)'
  <2>0. EntryOK(g) /\ entry[g] \in Entries
    BY <1>0 DEF IInv, TypeOK
  <2>1. CASE g \in groups
    <3> DEFINE b == Broken(entry[g], saved.from)
    <3>1. /\ b \in Entries /\ b.from <= saved.from
          /\ b.pass = NoPass \/ b.pass.stale
          /\ b.pass.phase = entry[g].pass.phase /\ b.pass.item = entry[g].pass.item
      BY <1>0, <1>1, <2>0, BrokenEntry
    <3>2. entry'[g] = [b EXCEPT !.backfill = "paused"]
      BY <1>2, <2>1
    <3> HIDE DEF b
    <3>3. entry'[g] \in Entries /\ entry'[g].from = b.from /\ entry'[g].pass = b.pass
      BY <3>1, <3>2 DEF Entries
    <3>4. EntryCovers(g)'
      <4>1. b.from \in 0..Never /\ Unread(g) \subseteq Times
        BY <1>0, <3>1, EntryFields DEF TypeOK, Unread
      <4>2. ASSUME NEW m \in Unread(g) PROVE b.from <= m
        <5>1. saved.from <= m /\ m \in Times
          BY <2>0, <4>1 DEF EntryOK, SavedCovers
        <5> QED  BY <1>1, <3>1, <4>1, <5>1, BridgeAssumption DEF Times, Never
      <4> QED  BY <1>2, <3>3, <4>2 DEF EntryCovers, Unread
    <3>5. PassCovers(g)' /\ HaltedByPause(g)' /\ PauseBounds(g)'
      BY <1>2, <3>1, <3>3, NoPassType DEF PassCovers, HaltedByPause, PauseBounds
    <3>6. OwedPosted(g)' /\ LeftIsClean(g)' /\ SavedCovers(g)' /\ ItemUnderWay(g)'
      BY <1>2, <2>0, <2>1, <3>1, <3>3 DEF EntryOK, OwedPosted, LeftIsClean, SavedCovers, ItemUnderWay, Unread
    <3> QED  BY <3>3, <3>4, <3>5, <3>6 DEF EntryOK
  <2>2. CASE g \notin groups
    <3>1. entry'[g] = entry[g] /\ entry[g].pass = NoPass /\ owed[g] = {}
      BY <1>2, <2>0, <2>2 DEF EntryOK, LeftIsClean
    <3>2. OwedPosted(g)' /\ LeftIsClean(g)' /\ SavedCovers(g)' /\ EntryCovers(g)' /\ PauseBounds(g)'
      BY <1>2, <2>2, <3>1 DEF OwedPosted, LeftIsClean, SavedCovers, EntryCovers, PauseBounds, Unread
    <3> QED  BY <2>0, <3>1, <3>2, FreshEntry
  <2> QED  BY <2>1, <2>2
<1>5. entry' \in [Groups -> Entries]
  BY <1>2, <1>4
<1>6. /\ line' \in [Lines -> {"down", "none", "starting", "ready", "reconnecting", "paused"}]
      /\ wire' \in [Groups -> SUBSET Times]
  BY <1>0 DEF Paused, TypeOK
<1>7. TypeOK'
  BY <1>0, <1>2, <1>3, <1>5, <1>6 DEF TypeOK
<1>8. ChainOK' /\ DownIsStill'
  BY <1>0, <1>2, <1>3 DEF IInv, ChainOK, DownIsStill, Running
<1> QED  BY <1>4, <1>7, <1>8 DEF IInv

\* steps of the chain that change neither an entry nor the persisted bound
LEMMA ChainStep ==
    ASSUME IInv, TypeOK', ChainOK', Running',
           control.doing # "pausing", saved'.from = saved.from, ingress'.paused => ingress.paused,
           UNCHANGED <<groups, posted, stored, entry, inflight, owed>>
    PROVE  IInv'
<1>1. DownIsStill'
  BY DEF DownIsStill
<1>2. ASSUME NEW g \in Groups PROVE EntryOK(g)'
  BY <1>2 DEF IInv, EntryOK, OwedPosted, LeftIsClean, SavedCovers, EntryCovers, PassCovers,
       HaltedByPause, PauseBounds, ItemUnderWay, Unread
<1> QED  BY <1>1, <1>2 DEF IInv

LEMMA PauseReturnsStep ==
    ASSUME IInv, PauseReturns
    PROVE  IInv'
<1>1. TypeOK'
  BY DEF IInv, TypeOK, PauseReturns
<1>2. ChainOK' /\ control'.doing = "idle"
  BY DEF IInv, TypeOK, ChainOK, PauseReturns
<1> QED  BY <1>1, <1>2, ChainStep DEF PauseReturns, Running

LEMMA ResumeStep ==
    ASSUME IInv, Resume
    PROVE  IInv'
<1>0. TypeOK /\ saved = ingress /\ saved \in IngressStates
  BY DEF IInv, ChainOK, Resume, TypeOK
<1>1. /\ saved' = [saved EXCEPT !.paused = FALSE] /\ control' = [control EXCEPT !.doing = "resuming"]
      /\ UNCHANGED <<now, groups, posted, wire, stored, latest, ingress, line, entry, inflight, owed, spent>>
  BY <1>0 DEF Resume, Save
<1>2. saved' \in IngressStates /\ saved'.from = saved.from /\ ~saved'.paused
  BY <1>0, <1>1 DEF IngressStates
<1>3. TypeOK'
  BY <1>0, <1>1, <1>2 DEF TypeOK
<1>4. ChainOK' /\ control'.doing = "resuming"
  BY <1>0, <1>1, <1>2 DEF IInv, TypeOK, ChainOK, Resume
<1> QED  BY <1>1, <1>2, <1>3, <1>4, ChainStep DEF Resume, Running

LEMMA ResumedStep ==
    ASSUME IInv, Resumed
    PROVE  IInv'
<1>0. TypeOK
  BY DEF IInv
<1>1. TypeOK'
  BY <1>0 DEF TypeOK, Resumed
<1>2. ChainOK' /\ control'.doing = "idle" /\ ~ingress'.paused
  BY DEF IInv, ChainOK, Resumed
<1> QED  BY <1>1, <1>2, ChainStep DEF Resumed, Running

LEMMA ClearedStep ==
    ASSUME IInv, Cleared
    PROVE  IInv'
<1>0. TypeOK
  BY DEF IInv
<1>1. TypeOK'
  BY <1>0 DEF TypeOK, Cleared
<1>2. ChainOK' /\ control'.doing = "idle" /\ ~ingress'.paused
  BY <1>0 DEF IInv, TypeOK, ChainOK, Cleared
<1> QED  BY <1>1, <1>2, ChainStep DEF Cleared, Running

\* The bound is cleared when no entry needs a recovery: then nothing is unread.
LEMMA FinishRecoveryStep ==
    ASSUME IInv, FinishRecovery
    PROVE  IInv'
<1>0. /\ TypeOK /\ control.doing = "idle" /\ saved = ingress
      /\ UNCHANGED <<now, groups, posted, wire, stored, latest, ingress, line, entry, inflight, owed, spent>>
  BY DEF IInv, ChainOK, FinishRecovery
<1>1. control' \in [doing : {"down", "idle", "pausing", "draining", "resuming", "clearing"}, due : BOOLEAN]
  BY DEF FinishRecovery
<1>2. CASE ~recoveryComplete
  <2>1. saved' = saved /\ control'.doing = "idle"
    BY <1>2 DEF FinishRecovery
  <2>2. TypeOK' /\ ChainOK'
    BY <1>0, <1>1, <2>1 DEF IInv, TypeOK, ChainOK
  <2> QED  BY <1>0, <2>1, <2>2, ChainStep DEF Running
<1>3. CASE recoveryComplete
  <2>1. saved' = Open /\ control'.doing = "clearing" /\ ~ingress.paused
    BY <1>3 DEF FinishRecovery, recoveryComplete
  <2>2. TypeOK'
    BY <1>0, <1>1, <2>1, BridgeAssumption DEF TypeOK, Open, IngressStates, Never
  <2>3. ChainOK' /\ DownIsStill'
    BY <1>0, <2>1 DEF ChainOK, DownIsStill, Running, Open
  <2>4. ASSUME NEW g \in Groups PROVE EntryOK(g)'
    <3>1. EntryOK(g) /\ entry[g] \in Entries
      BY <1>0 DEF IInv, TypeOK
    <3>2. Unread(g) = {}
      <4>1. CASE g \in groups
        <5>1. entry[g].from = Never
          BY <1>3, <3>1, <4>1, EntryFields DEF recoveryComplete
        <5>2. Unread(g) \subseteq Times
          BY <1>0 DEF TypeOK, Unread
        <5> QED  BY <1>0, <3>1, <5>1, <5>2, BridgeAssumption DEF EntryOK, EntryCovers, Times, Never
      <4>2. CASE g \notin groups
        BY <3>1, <4>2 DEF EntryOK, LeftIsClean, Unread
      <4> QED  BY <4>1, <4>2
    <3>3. SavedCovers(g)' /\ EntryCovers(g)' /\ PassCovers(g)'
      BY <1>0, <3>2 DEF SavedCovers, EntryCovers, PassCovers, Unread
    <3> QED  BY <1>0, <2>1, <3>1, <3>3 DEF EntryOK, OwedPosted, LeftIsClean, HaltedByPause, PauseBounds, ItemUnderWay
  <2> QED  BY <2>2, <2>3, <2>4 DEF IInv
<1> QED  BY <1>2, <1>3

LEMMA CrashStep ==
    ASSUME IInv, Crash
    PROVE  IInv'
<1>0. TypeOK /\ saved \in IngressStates /\ Open \in IngressStates
  BY BridgeAssumption DEF IInv, TypeOK, Open, IngressStates, Never
<1>1. /\ control' = [doing |-> "down", due |-> FALSE] /\ ingress' = saved
      /\ UNCHANGED <<now, groups, posted, stored, latest, saved, owed>>
  BY DEF Crash
<1>2. /\ wire' = [g \in Groups |-> {}] /\ inflight' = [g \in Groups |-> {}]
      /\ line' = [l \in Lines |-> "down"]
  BY DEF Crash
<1>3. ASSUME NEW g \in Groups
      PROVE  /\ entry'[g] \in Entries /\ entry'[g].pass = NoPass
             /\ g \in groups => entry'[g].from = saved.from
  <2>1. entry'[g] = NewEntry(IF g \in groups THEN saved ELSE Open)
    BY DEF Crash
  <2> QED  BY <1>0, <2>1, NewEntryType
<1>4. entry' \in [Groups -> Entries]
  BY <1>3 DEF Crash
<1>5. spent' \in [faults : 0..MaxFaults, pauses : 0..MaxPauses, changes : 0..MaxChanges, crashes : 0..MaxCrashes]
  BY <1>0, BridgeAssumption DEF TypeOK, Crash
<1>6. TypeOK'
  BY <1>0, <1>1, <1>2, <1>4, <1>5 DEF TypeOK
<1>7. ChainOK' /\ DownIsStill'
  BY <1>1, <1>2, <1>3 DEF IInv, ChainOK, DownIsStill
<1>8. ASSUME NEW g \in Groups PROVE EntryOK(g)'
  <2>1. EntryOK(g) /\ saved.from \in Int
    BY <1>0, BridgeAssumption DEF IInv, IngressStates, Never
  <2>2. OwedPosted(g)' /\ LeftIsClean(g)' /\ SavedCovers(g)' /\ PauseBounds(g)' /\ EntryCovers(g)'
    BY <1>1, <1>3, <2>1 DEF EntryOK, OwedPosted, LeftIsClean, SavedCovers, PauseBounds, EntryCovers, Unread
  <2> QED  BY <1>3, <2>2, FreshEntry
<1> QED  BY <1>6, <1>7, <1>8 DEF IInv

LEMMA RestartStep ==
    ASSUME IInv, Restart
    PROVE  IInv'
<1>0. TypeOK /\ saved = ingress /\ control.doing = "down"
  BY DEF IInv, ChainOK, Restart, Running
<1>1. line' \in [Lines -> {"down", "none", "starting", "ready", "reconnecting", "paused"}]
  BY DEF Restart, StartLines, Attached
<1>2. TypeOK'
  BY <1>0, <1>1 DEF TypeOK, Restart
<1>3. ChainOK' /\ control'.doing = "idle"
  BY <1>0 DEF IInv, ChainOK, Restart
<1> QED  BY <1>0, <1>2, <1>3, ChainStep DEF Restart, Running

-----------------------------------------------------------------------------
(* The theorems.                                                             *)

LEMMA InvInit == Init => IInv
<1> SUFFICES ASSUME Init PROVE IInv
  OBVIOUS
<1>0. Open \in IngressStates /\ ~Open.paused
  BY BridgeAssumption DEF Open, IngressStates, Never
<1>1. NewEntry(Open) \in Entries /\ NewEntry(Open).pass = NoPass
  BY <1>0, NewEntryType
<1>2. line \in [Lines -> {"down", "none", "starting", "ready", "reconnecting", "paused"}]
  BY DEF Init, StartLines, Attached
<1>3. spent \in [faults : 0..MaxFaults, pauses : 0..MaxPauses, changes : 0..MaxChanges, crashes : 0..MaxCrashes]
  BY BridgeAssumption DEF Init
<1>4. now \in Times /\ latest \in [Groups -> 0..MaxTime]
  BY BridgeAssumption DEF Init, Times, Midnight
<1>5. TypeOK
  BY <1>0, <1>1, <1>2, <1>3, <1>4 DEF Init, TypeOK
<1>6. ChainOK /\ DownIsStill
  BY <1>0 DEF Init, ChainOK, DownIsStill, Running
<1>7. ASSUME NEW g \in Groups PROVE EntryOK(g)
  <2>1. owed[g] = {} /\ entry[g].pass = NoPass /\ ~ingress.paused
    BY <1>0, <1>1 DEF Init
  <2> QED  BY <2>1, NoPassType DEF EntryOK, OwedPosted, LeftIsClean, SavedCovers, EntryCovers, PassCovers,
       HaltedByPause, PauseBounds, ItemUnderWay, Unread
<1> QED  BY <1>5, <1>6, <1>7 DEF IInv

LEMMA InvStutter ==
    ASSUME IInv, UNCHANGED vars
    PROVE  IInv'
<1>1. TypeOK'
  BY DEF IInv, TypeOK, vars
<1>2. ChainOK' /\ DownIsStill'
  BY DEF IInv, ChainOK, DownIsStill, Running, vars
<1>3. \A g \in Groups : EntryOK(g)'
  BY EntryKept DEF IInv, vars
<1> QED  BY <1>1, <1>2, <1>3 DEF IInv

LEMMA InvStep ==
    ASSUME IInv, [Next]_vars
    PROVE  IInv'
<1>1. CASE Tick \/ BackfillTick
  BY <1>1, TickStep, BackfillTickStep
<1>2. CASE \E g \in Groups : Subscribe(g) \/ Unsubscribe(g)
  BY <1>2, SubscribeStep, UnsubscribeStep
<1>3. CASE \E g \in Groups : Post(g) \/ HistoryRead(g) \/ HistoryPartial(g) \/ PassContinues(g)
  BY <1>3, PostStep, HistoryReadStep, HistoryPartialStep, PassContinuesStep
<1>4. CASE \E g \in Groups : \E m \in Times : EventArrives(g, m) \/ Ingested(g, m) \/ IngestFails(g, m)
  BY <1>4, EventArrivesStep, IngestedStep, IngestFailsStep
<1>5. CASE \E l \in Lines : ListenerFails(l) \/ Reconnect(l) \/ ListenerReady(l)
  BY <1>5, ListenerFailsStep, ReconnectStep, ListenerReadyStep
<1>6. CASE Pause \/ Resume \/ Crash
  BY <1>6, PauseStep, ResumeStep, CrashStep
<1>7. CASE ControlStep
  BY <1>7, PausedStep, PauseReturnsStep, ResumedStep, FinishRecoveryStep, ClearedStep, RestartStep DEF ControlStep
<1>8. CASE UNCHANGED vars
  BY <1>8, InvStutter
<1> QED  BY <1>1, <1>2, <1>3, <1>4, <1>5, <1>6, <1>7, <1>8 DEF Next

LEMMA InvInvariant == Spec => []IInv
<1>1. IInv /\ [Next]_vars => IInv'
  BY InvStep
<1> QED  BY InvInit, <1>1, PTL DEF Spec

(* Every variable keeps its type: in particular a conversation is marked for *)
(* recovery exactly when the start of its recovery is known.                 *)
THEOREM TypeCorrect == Spec => []TypeOK
<1>1. IInv => TypeOK
  BY DEF IInv
<1> QED  BY <1>1, InvInvariant, PTL

(* While the persisted bound of a pause is gone, every message that was      *)
(* posted during the pause is stored: over crashes, breaks of the listeners, *)
(* failed reads and subscriptions, the bound is not given up too early.      *)
THEOREM PausesAreRecovered == Spec => []PauseRecovered
<1>1. IInv => PauseRecovered
  <2> SUFFICES ASSUME IInv, saved.from = Never, NEW g \in Groups, NEW m \in owed[g], m \notin stored[g]
               PROVE  FALSE
    BY DEF PauseRecovered
  <2>1. saved.from <= m /\ m \in Times
    BY DEF IInv, TypeOK, EntryOK, SavedCovers, Unread
  <2> QED  BY <2>1, BridgeAssumption DEF Times, Never
<1> QED  BY <1>1, InvInvariant, PTL

-----------------------------------------------------------------------------
(* While reception is paused no receipt begins.                              *)

LEMMA QuietPass ==
    ASSUME NEW g \in Groups, ingress.paused, HistoryRead(g) \/ PassContinues(g)
    PROVE  inflight' = inflight
BY DEF HistoryRead, PassContinues, Halted

LEMMA QuietStep ==
    ASSUME IInv, PausedIsQuiet, [Next]_vars
    PROVE  PausedIsQuiet'
<1> DEFINE Same == ingress' = ingress /\ control'.doing = control.doing
                   /\ (ingress.paused => \A g \in Groups : inflight'[g] \subseteq inflight[g])
<1>0. TypeOK
  BY DEF IInv
<1>1. Same => PausedIsQuiet'
  BY DEF PausedIsQuiet
<1>2. ASSUME Tick \/ BackfillTick PROVE Same
  BY <1>2 DEF Tick, BackfillTick
<1>3. ASSUME NEW g \in Groups, Subscribe(g) \/ Unsubscribe(g) \/ Post(g) PROVE Same
  BY <1>0, <1>3 DEF Subscribe, Unsubscribe, Post, TypeOK
<1>4. ASSUME NEW g \in Groups, HistoryRead(g) \/ HistoryPartial(g) \/ PassContinues(g) PROVE Same
  <2>1. ingress' = ingress /\ (ingress.paused => inflight' = inflight)
    BY <1>4, QuietPass DEF HistoryRead, HistoryPartial, PassContinues
  <2>2. control'.doing = control.doing
    BY <1>0, <1>4 DEF HistoryRead, HistoryPartial, PassContinues, Succeed, Fail, Close, Receive, TypeOK
  <2> QED  BY <2>1, <2>2
<1>5. ASSUME NEW g \in Groups, NEW m \in Times, EventArrives(g, m) \/ Ingested(g, m) \/ IngestFails(g, m)
      PROVE  Same
  <2>1. ingress' = ingress /\ (ingress.paused => \A h \in Groups : inflight'[h] \subseteq inflight[h])
    BY <1>0, <1>5 DEF EventArrives, Ingested, IngestFails, TypeOK
  <2>2. control'.doing = control.doing
    BY <1>0, <1>5 DEF EventArrives, Ingested, IngestFails, Fail, Close, TypeOK
  <2> QED  BY <2>1, <2>2
<1>6. ASSUME NEW l \in Lines, ListenerFails(l) \/ Reconnect(l) \/ ListenerReady(l) PROVE Same
  BY <1>6 DEF ListenerFails, Reconnect, ListenerReady
<1>7. ASSUME UNCHANGED vars PROVE Same
  BY <1>7 DEF vars
<1>8. ASSUME Pause \/ Resume \/ Resumed \/ Cleared PROVE PausedIsQuiet'
  BY <1>0, <1>8 DEF Pause, Resume, Resumed, Cleared, Save, PausedIsQuiet, IInv, ChainOK, TypeOK
<1>9. ASSUME Paused \/ PauseReturns \/ FinishRecovery PROVE PausedIsQuiet'
  BY <1>0, <1>9 DEF Paused, PauseReturns, FinishRecovery, PausedIsQuiet, TypeOK
<1>10. ASSUME Crash \/ Restart PROVE PausedIsQuiet'
  <2>1. \A g \in Groups : inflight'[g] = {}
    BY <1>10 DEF Crash, Restart, IInv, DownIsStill
  <2> QED  BY <2>1 DEF PausedIsQuiet
<1> HIDE DEF Same
<1> QED  BY <1>1, <1>2, <1>3, <1>4, <1>5, <1>6, <1>7, <1>8, <1>9, <1>10 DEF Next, ControlStep

(* Once a pause has returned, nothing is being received, whatever event or   *)
(* read was under way when the operator asked for it, and after a restart    *)
(* just as well: the executor may be replaced.                               *)
THEOREM PauseIsQuiet == Spec => []PausedIsQuiet
<1>1. Init => PausedIsQuiet
  BY DEF Init, Open, PausedIsQuiet
<1>2. IInv /\ PausedIsQuiet /\ [Next]_vars => PausedIsQuiet'
  BY QuietStep
<1> QED  BY <1>1, <1>2, InvInvariant, PTL DEF Spec

-----------------------------------------------------------------------------
(* A recovery that ends has read the gap.                                    *)

\* the gap is in the past, and a pass that may close it has all of it before it
GapOK(g) ==
    /\ entry[g].brokeAt <= now
    /\ entry[g].pass.recovery /\ ~entry[g].pass.stale =>
         \A m \in posted[g] \ stored[g] :
            entry[g].from <= m /\ m < entry[g].brokeAt => m \in entry[g].pass.todo

GapInv == \A g \in Groups : GapOK(g)

LEMMA GapKept ==
    ASSUME NEW g, GapOK(g), entry'[g] = entry[g], UNCHANGED <<now, posted>>, stored[g] \subseteq stored'[g]
    PROVE  GapOK(g)'
BY DEF GapOK

LEMMA GapNoPass ==
    ASSUME NEW g, entry'[g].brokeAt <= now',
           entry'[g].pass = NoPass \/ entry'[g].pass.stale
    PROVE  GapOK(g)'
BY NoPassType DEF GapOK

LEMMA GapClose ==
    ASSUME TypeOK, NEW g \in Groups, NEW e \in Entries, e.brokeAt <= now, Close(g, e),
           UNCHANGED <<now, posted, stored, ingress>>
    PROVE  GapOK(g)'
<1> DEFINE over == [e EXCEPT !.pass = NoPass, !.queued = FALSE]
<1>1. over \in Entries /\ over.from = e.from /\ over.pass = NoPass /\ over.brokeAt = e.brokeAt
  BY NoPassType DEF Entries
<1>2. entry'[g] = over \/ entry'[g] = Begin(g, over)
  BY DEF Close, TypeOK
<1> HIDE DEF over
<1>3. CASE entry'[g] = over
  BY <1>1, <1>3, GapNoPass
<1>4. CASE entry'[g] = Begin(g, over)
  <2>1. /\ entry'[g].brokeAt = e.brokeAt /\ entry'[g].from = over.from
        /\ entry'[g].pass.recovery =>
             \A m \in posted[g] \ stored[g] : over.from <= m => m \in entry'[g].pass.todo
    BY <1>1, <1>4, BeginEntry
  <2> QED  BY <2>1 DEF GapOK
<1> QED  BY <1>2, <1>3, <1>4

LEMMA GapFail ==
    ASSUME IInv, GapInv, NEW g \in Groups, Fail(g), UNCHANGED <<now, posted, stored, ingress>>
    PROVE  GapOK(g)'
<1> DEFINE e == [entry[g] EXCEPT !.backfill = IF Halted(g) THEN entry[g].backfill ELSE "failed"]
<1>1. entry[g] \in Entries /\ TypeOK /\ entry[g].brokeAt <= now
  BY DEF IInv, TypeOK, GapInv, GapOK
<1>2. e \in Entries /\ e.brokeAt = entry[g].brokeAt
  BY <1>1 DEF Entries
<1>3. Close(g, e)
  BY DEF Fail
<1> HIDE DEF e
<1> QED  BY <1>1, <1>2, <1>3, GapClose

LEMMA GapSucceed ==
    ASSUME IInv, GapInv, NEW g \in Groups, Succeed(g), UNCHANGED <<now, posted, stored, ingress>>
    PROVE  GapOK(g)'
<1> DEFINE e == entry[g]
           closes == e.pass.recovery /\ ~e.pass.stale /\ line[LineOf(g)] = "ready"
           done == [e EXCEPT !.backfill = "ok", !.lastEnd = e.pass.end,
                             !.required = e.required /\ ~closes,
                             !.from = IF closes THEN Never ELSE e.from,
                             !.brokeAt = IF closes THEN 0 ELSE e.brokeAt]
<1>1. e \in Entries /\ TypeOK /\ e.brokeAt <= now /\ now \in Times
  BY DEF IInv, TypeOK, GapInv, GapOK
<1>2. closes \in BOOLEAN /\ e.pass.end \in 0..Never /\ Never \in 0..Never
  BY <1>1, EntryFields, BridgeAssumption DEF Passes, Never
<1>3. done \in Entries /\ done.brokeAt <= now
  <2> HIDE DEF closes
  <2>1. (e.required /\ ~closes) <=> (IF closes THEN Never ELSE e.from) # Never
    BY <1>1, EntryFields
  <2>2. /\ (IF closes THEN Never ELSE e.from) \in 0..Never
        /\ (IF closes THEN 0 ELSE e.brokeAt) \in 0..MaxTime
        /\ (IF closes THEN 0 ELSE e.brokeAt) <= now
    BY <1>1, <1>2, EntryFields, BridgeAssumption DEF Times
  <2> QED  BY <1>1, <1>2, <2>1, <2>2 DEF Entries
<1>4. Close(g, done)
  BY DEF Succeed
<1> HIDE DEF done
<1> QED  BY <1>1, <1>3, <1>4, GapClose

LEMMA GapReceive ==
    ASSUME IInv, GapInv, NEW g \in Groups, NEW todo, Receive(g, todo), UNCHANGED <<now, posted, stored>>,
           entry[g].pass.todo \subseteq todo \cup stored[g]
    PROVE  GapOK(g)'
<1>1. entry[g] \in Entries /\ TypeOK /\ GapOK(g)
  BY DEF IInv, TypeOK, GapInv
<1>2. PICK m \in todo :
        entry' = [entry EXCEPT ![g].pass = [@ EXCEPT !.phase = "receiving", !.todo = todo, !.item = m]]
  BY DEF Receive
<1>3. /\ entry'[g].from = entry[g].from /\ entry'[g].brokeAt = entry[g].brokeAt
      /\ entry'[g].pass.todo = todo /\ entry'[g].pass.recovery = entry[g].pass.recovery
      /\ entry'[g].pass.stale = entry[g].pass.stale
  BY <1>1, <1>2 DEF TypeOK, Entries, Passes
<1> QED  BY <1>1, <1>3 DEF GapOK

LEMMA GapQueue ==
    ASSUME IInv, GapInv, NEW g \in Groups, NEW b \in BOOLEAN,
           entry'[g] = queueGroupBackfill(g, entry[g], b), UNCHANGED <<now, posted, stored>>
    PROVE  GapOK(g)'
<1>1. entry[g] \in Entries /\ TypeOK /\ GapOK(g)
  BY DEF IInv, TypeOK, GapInv
<1>2. /\ entry'[g].from = entry[g].from /\ entry'[g].brokeAt = entry[g].brokeAt
      /\ entry[g].pass # NoPass => entry'[g].pass = entry[g].pass
      /\ entry[g].pass = NoPass => entry'[g] = Begin(g, entry[g])
  BY <1>1, QueueEntry
<1>3. CASE entry[g].pass # NoPass
  BY <1>1, <1>2, <1>3 DEF GapOK
<1>4. CASE entry[g].pass = NoPass
  <2>1. entry'[g].pass.recovery =>
             \A m \in posted[g] \ stored[g] : entry[g].from <= m => m \in entry'[g].pass.todo
    BY <1>1, <1>2, <1>4, BeginEntry
  <2> QED  BY <1>1, <1>2, <2>1 DEF GapOK
<1> QED  BY <1>3, <1>4

LEMMA GapInit == Init => GapInv
<1> SUFFICES ASSUME Init, NEW g \in Groups PROVE GapOK(g)
  BY DEF GapInv
<1>1. Open \in IngressStates
  BY BridgeAssumption DEF Open, IngressStates, Never
<1>2. entry[g].brokeAt = 0 /\ entry[g].pass = NoPass /\ now = 1
  BY <1>1, NewEntryType DEF Init
<1> QED  BY <1>2, NoPassType DEF GapOK

LEMMA GapPassStep ==
    ASSUME IInv, GapInv, NEW g \in Groups, HistoryRead(g) \/ HistoryPartial(g) \/ PassContinues(g)
    PROVE  GapInv'
<1>0. /\ TypeOK /\ entry[g] \in Entries /\ GapOK(g) /\ EntryOK(g)
      /\ UNCHANGED <<now, posted, stored, ingress>>
  BY DEF IInv, TypeOK, GapInv, HistoryRead, HistoryPartial, PassContinues
<1>1. \A h \in Groups \ {g} : entry'[h] = entry[h]
  BY <1>0 DEF HistoryRead, HistoryPartial, PassContinues, Succeed, Fail, Close, Receive, TypeOK
<1>2. CASE HistoryPartial(g) \/ Succeed(g)
  <2>1. GapOK(g)'
    BY <1>0, <1>2, GapFail, GapSucceed DEF HistoryPartial
  <2> QED  BY <1>0, <1>1, <2>1, GapKept DEF GapInv
<1>3. CASE Close(g, entry[g])
  <2>1. GapOK(g)'
    BY <1>0, <1>3, GapClose DEF GapOK
  <2> QED  BY <1>0, <1>1, <2>1, GapKept DEF GapInv
<1>4. CASE HistoryRead(g) /\ Receive(g, entry[g].pass.todo)
  <2>1. GapOK(g)'
    BY <1>0, <1>4, GapReceive
  <2> QED  BY <1>0, <1>1, <2>1, GapKept DEF GapInv
<1>5. CASE PassContinues(g) /\ Receive(g, entry[g].pass.todo \ {entry[g].pass.item})
  <2>1. entry[g].pass.item \in stored[g]
    BY <1>0, <1>5 DEF PassContinues, EntryOK, ItemUnderWay
  <2>2. GapOK(g)'
    BY <1>0, <1>5, <2>1, GapReceive
  <2> QED  BY <1>0, <1>1, <2>2, GapKept DEF GapInv
<1> QED  BY <1>2, <1>3, <1>4, <1>5 DEF HistoryRead, PassContinues

LEMMA GapStep ==
    ASSUME IInv, GapInv, [Next]_vars
    PROVE  GapInv'
<1>0. TypeOK /\ \A g \in Groups : entry[g] \in Entries /\ GapOK(g)
  BY DEF IInv, TypeOK, GapInv
<1>1. ASSUME Tick PROVE GapInv'
  <2>1. ASSUME NEW g \in Groups PROVE entry[g].brokeAt <= now + 1
    <3>1. entry[g].brokeAt \in 0..MaxTime /\ now \in Times /\ entry[g].brokeAt <= now
      BY <1>0, EntryFields DEF TypeOK, GapOK
    <3> QED  BY <3>1, BridgeAssumption DEF Times
  <2> QED  BY <1>0, <1>1, <2>1 DEF Tick, GapInv, GapOK
<1>2. ASSUME BackfillTick PROVE GapInv'
  <2>1. ASSUME NEW g \in Groups PROVE GapOK(g)'
    <3>1. entry'[g] = queueGroupBackfill(g, entry[g], FALSE) \/ entry'[g] = entry[g]
      BY <1>2 DEF BackfillTick
    <3> QED  BY <1>0, <1>2, <3>1, GapQueue, GapKept DEF BackfillTick
  <2> QED  BY <2>1 DEF GapInv
<1>3. ASSUME NEW g \in Groups, Subscribe(g) \/ Unsubscribe(g) PROVE GapInv'
  <2>1. entry'[g].brokeAt = 0 /\ entry'[g].pass = NoPass /\ now' = now /\ now \in Times
    <3>1. Open \in IngressStates /\ ingress \in IngressStates
      BY <1>0, BridgeAssumption DEF Open, IngressStates, Never, TypeOK
    <3>2. entry'[g] = NewEntry(Open) \/ entry'[g] = NewEntry(ingress)
      BY <1>0, <1>3 DEF Subscribe, Unsubscribe, TypeOK
    <3> QED  BY <1>0, <1>3, <3>1, <3>2, NewEntryType DEF Subscribe, Unsubscribe, TypeOK
  <2>2. GapOK(g)'
    BY <2>1, GapNoPass, BridgeAssumption DEF Times
  <2>3. ASSUME NEW h \in Groups, h # g PROVE GapOK(h)'
    BY <1>0, <1>3, <2>3, GapKept DEF Subscribe, Unsubscribe, TypeOK
  <2> QED  BY <2>2, <2>3 DEF GapInv
<1>4. ASSUME NEW g \in Groups, Post(g) PROVE GapInv'
  <2>1. ASSUME NEW h \in Groups PROVE GapOK(h)'
    <3>1. entry[h].brokeAt \in 0..MaxTime /\ now \in Times /\ entry[h].brokeAt <= now /\ GapOK(h)
      BY <1>0, EntryFields DEF TypeOK, GapOK
    <3>2. posted'[h] \subseteq posted[h] \cup {now} /\ UNCHANGED <<now, stored, entry>>
      BY <1>0, <1>4 DEF TypeOK, Post
    <3>3. ~(now < entry[h].brokeAt)
      BY <3>1, BridgeAssumption DEF Times
    <3> QED  BY <3>1, <3>2, <3>3 DEF GapOK
  <2> QED  BY <2>1 DEF GapInv
<1>5. ASSUME NEW g \in Groups, HistoryRead(g) \/ HistoryPartial(g) \/ PassContinues(g) PROVE GapInv'
  BY <1>5, GapPassStep
<1>6. ASSUME NEW g \in Groups, NEW m \in Times, EventArrives(g, m) \/ Ingested(g, m) PROVE GapInv'
  <2>1. \A h \in Groups : stored[h] \subseteq stored'[h]
    BY <1>0, <1>6 DEF EventArrives, Ingested, TypeOK
  <2> QED  BY <1>0, <1>6, <2>1, GapKept DEF EventArrives, Ingested, GapInv
<1>7. ASSUME NEW g \in Groups, NEW m \in Times, IngestFails(g, m) PROVE GapInv'
  <2>1. UNCHANGED <<now, posted, stored, ingress>> /\ (Fail(g) \/ entry' = entry)
    BY <1>7 DEF IngestFails
  <2>2. GapOK(g)'
    BY <1>0, <2>1, GapFail, GapKept
  <2>3. ASSUME NEW h \in Groups, h # g PROVE GapOK(h)'
    <3>1. entry'[h] = entry[h]
      BY <1>0, <2>1, <2>3 DEF Fail, Close, TypeOK
    <3> QED  BY <1>0, <2>1, <3>1, GapKept
  <2> QED  BY <2>2, <2>3 DEF GapInv
<1>8. ASSUME NEW l \in Lines, ListenerReady(l) PROVE GapInv'
  <2>1. ASSUME NEW g \in Groups PROVE GapOK(g)'
    <3>1. entry'[g] = queueGroupBackfill(g, entry[g], TRUE) \/ entry'[g] = entry[g]
      BY <1>8 DEF ListenerReady
    <3> QED  BY <1>0, <1>8, <3>1, GapQueue, GapKept DEF ListenerReady
  <2> QED  BY <2>1 DEF GapInv
<1>9. ASSUME NEW l \in Lines, ListenerFails(l) PROVE GapInv'
  <2>1. ASSUME NEW g \in Groups PROVE GapOK(g)'
    <3>1. CASE entry'[g] = Broken(entry[g], UnreadFrom(g))
      <4>1. /\ entry'[g].brokeAt = now
            /\ entry'[g].pass = NoPass \/ entry'[g].pass.stale
        BY <1>0, <3>1, UnreadFromType, BrokenEntry
      <4>2. now' = now /\ now \in Int
        BY <1>0, <1>9 DEF ListenerFails, TypeOK, Times
      <4> QED  BY <4>1, <4>2, GapNoPass
    <3>2. CASE entry'[g] = entry[g]
      BY <1>0, <1>9, <3>2, GapKept DEF ListenerFails
    <3> QED  BY <1>9, <3>1, <3>2 DEF ListenerFails
  <2> QED  BY <2>1 DEF GapInv
<1>10. ASSUME Paused PROVE GapInv'
  <2>0. saved.from \in 0..MaxTime
    BY <1>0, <1>10, BridgeAssumption DEF IInv, ChainOK, Paused, TypeOK, IngressStates, Times, Never
  <2>1. ASSUME NEW g \in Groups PROVE GapOK(g)'
    <3>1. CASE entry'[g] = [Broken(entry[g], saved.from) EXCEPT !.backfill = "paused"]
      <4> DEFINE b == Broken(entry[g], saved.from)
      <4>1. /\ b \in Entries /\ b.brokeAt = now
            /\ b.pass = NoPass \/ b.pass.stale
        BY <1>0, <2>0, BrokenEntry
      <4>2. entry'[g] = [b EXCEPT !.backfill = "paused"]
        BY <3>1
      <4> HIDE DEF b
      <4>3. entry'[g].brokeAt = now /\ (entry'[g].pass = NoPass \/ entry'[g].pass.stale)
        BY <4>1, <4>2 DEF Entries
      <4>4. now' = now /\ now \in Int
        BY <1>0, <1>10 DEF Paused, TypeOK, Times
      <4> QED  BY <4>3, <4>4, GapNoPass
    <3>2. CASE entry'[g] = entry[g]
      BY <1>0, <1>10, <3>2, GapKept DEF Paused
    <3> QED  BY <1>10, <3>1, <3>2 DEF Paused
  <2> QED  BY <2>1 DEF GapInv
<1>11. ASSUME Crash PROVE GapInv'
  <2>1. ASSUME NEW g \in Groups PROVE GapOK(g)'
    <3>1. saved \in IngressStates /\ Open \in IngressStates
      BY <1>0, BridgeAssumption DEF Open, IngressStates, Never, TypeOK
    <3>2. entry'[g] = NewEntry(IF g \in groups THEN saved ELSE Open) /\ now' = now /\ now \in Times
      BY <1>0, <1>11 DEF Crash, TypeOK
    <3>3. entry'[g].brokeAt = 0 /\ entry'[g].pass = NoPass
      BY <3>1, <3>2, NewEntryType
    <3> QED  BY <3>2, <3>3, GapNoPass, BridgeAssumption DEF Times
  <2> QED  BY <2>1 DEF GapInv
<1>12. ASSUME \/ Pause \/ Resume \/ PauseReturns \/ Resumed \/ FinishRecovery \/ Cleared \/ Restart
              \/ UNCHANGED vars \/ \E l \in Lines : Reconnect(l)
       PROVE  GapInv'
  <2>1. UNCHANGED <<now, posted, stored, entry>>
    BY <1>12 DEF Pause, Resume, PauseReturns, Resumed, FinishRecovery, Cleared, Restart, Reconnect, vars
  <2> QED  BY <1>0, <2>1, GapKept DEF GapInv
<1> QED  BY <1>1, <1>2, <1>3, <1>4, <1>5, <1>6, <1>7, <1>8, <1>9, <1>10, <1>11, <1>12 DEF Next, ControlStep

LEMMA GapInvariant == Spec => []GapInv
<1>1. IInv /\ GapInv /\ [Next]_vars => GapInv'
  BY GapStep
<1> QED  BY GapInit, <1>1, InvInvariant, PTL DEF Spec

LEMMA StillRequired ==
    ASSUME NEW g, entry[g] \in Entries, entry'[g] \in Entries, entry'[g].from <= entry[g].from
    PROVE  ~Recovers(g)
<1>1. /\ entry[g].from \in 0..Never /\ (entry[g].required <=> entry[g].from # Never)
      /\ entry'[g].from \in 0..Never /\ (entry'[g].required <=> entry'[g].from # Never)
  BY EntryFields
<1> QED  BY <1>1, BridgeAssumption DEF Recovers, Never

\* the end of a pass leaves the bound of the entry as it was handed over
LEMMA ClosedFrom ==
    ASSUME TypeOK, NEW g \in Groups, NEW e \in Entries, Close(g, e)
    PROVE  entry'[g] \in Entries /\ entry'[g].from = e.from
<1> DEFINE over == [e EXCEPT !.pass = NoPass, !.queued = FALSE]
<1>1. over \in Entries /\ over.from = e.from
  BY NoPassType DEF Entries
<1>2. entry'[g] = over \/ entry'[g] = Begin(g, over)
  BY DEF Close, TypeOK
<1> HIDE DEF over
<1> QED  BY <1>1, <1>2, BeginEntry

LEMMA SucceedReads ==
    ASSUME IInv, GapInv, NEW g \in Groups, Succeed(g), entry[g].pass.todo \subseteq stored[g],
           stored' = stored
    PROVE  GapRead(g)
<1> DEFINE e == entry[g]
           closes == e.pass.recovery /\ ~e.pass.stale /\ line[LineOf(g)] = "ready"
           done == [e EXCEPT !.backfill = "ok", !.lastEnd = e.pass.end,
                             !.required = e.required /\ ~closes,
                             !.from = IF closes THEN Never ELSE e.from,
                             !.brokeAt = IF closes THEN 0 ELSE e.brokeAt]
<1>1. e \in Entries /\ TypeOK /\ GapOK(g)
  BY DEF IInv, TypeOK, GapInv
<1>2. CASE closes
  BY <1>1, <1>2 DEF GapOK, GapRead
<1>3. CASE ~closes
  <2>1. done \in Entries /\ done.from = e.from
    <3>1. closes = FALSE /\ e.pass.end \in 0..Never
      BY <1>1, <1>3, EntryFields, BridgeAssumption DEF Passes, Never
    <3>2. done = [e EXCEPT !.backfill = "ok", !.lastEnd = e.pass.end, !.required = e.required,
                           !.from = e.from, !.brokeAt = e.brokeAt]
      BY <1>1, <3>1, EntryFields
    <3> QED  BY <1>1, <3>1, <3>2 DEF Entries
  <2>2. Close(g, done)
    BY DEF Succeed
  <2> HIDE DEF done
  <2>3. entry'[g] \in Entries /\ entry'[g].from = e.from
    BY <1>1, <2>1, <2>2, ClosedFrom
  <2>4. entry'[g].from <= entry[g].from
    BY <1>1, <2>3, EntryFields, BridgeAssumption DEF Never
  <2> QED  BY <1>1, <2>3, <2>4, StillRequired DEF GapRead
<1> QED  BY <1>2, <1>3

LEMMA ClosedStillRequired ==
    ASSUME IInv, NEW g \in Groups, Fail(g) \/ Close(g, entry[g])
    PROVE  ~Recovers(g)
<1> DEFINE e == [entry[g] EXCEPT !.backfill = IF Halted(g) THEN entry[g].backfill ELSE "failed"]
<1>1. entry[g] \in Entries /\ TypeOK
  BY DEF IInv, TypeOK
<1>2. e \in Entries /\ e.from = entry[g].from
  BY <1>1 DEF Entries
<1>3. Close(g, e) \/ Close(g, entry[g])
  BY DEF Fail
<1> HIDE DEF e
<1>4. entry'[g] \in Entries /\ entry'[g].from = entry[g].from
  BY <1>1, <1>2, <1>3, ClosedFrom
<1>5. entry'[g].from <= entry[g].from
  BY <1>1, <1>4, EntryFields, BridgeAssumption DEF Never
<1> QED  BY <1>1, <1>4, <1>5, StillRequired

LEMMA ReceiveStillRequired ==
    ASSUME IInv, NEW g \in Groups, NEW todo, Receive(g, todo)
    PROVE  ~Recovers(g)
<1>1. entry[g] \in Entries /\ TypeOK
  BY DEF IInv, TypeOK
<1>2. entry'[g].required = entry[g].required
  BY <1>1 DEF Receive, TypeOK, Entries
<1> QED  BY <1>2 DEF Recovers

LEMMA PassReads ==
    ASSUME IInv, GapInv, NEW g \in groups, NEW h \in Groups,
           HistoryRead(h) \/ HistoryPartial(h) \/ PassContinues(h)
    PROVE  GapRead(g)
<1>0. TypeOK /\ g \in Groups /\ stored' = stored
  BY DEF IInv, TypeOK, HistoryRead, HistoryPartial, PassContinues
<1>1. CASE h # g
  <2>1. entry'[g] = entry[g]
    BY <1>0, <1>1 DEF HistoryRead, HistoryPartial, PassContinues, Succeed, Fail, Close, Receive, TypeOK
  <2> QED  BY <2>1 DEF Recovers, GapRead
<1>2. CASE h = g
  <2>1. CASE Fail(g) \/ Close(g, entry[g])
    BY <1>0, <2>1, ClosedStillRequired DEF GapRead
  <2>2. CASE Receive(g, entry[g].pass.todo) \/ Receive(g, entry[g].pass.todo \ {entry[g].pass.item})
    BY <1>0, <2>2, ReceiveStillRequired DEF GapRead
  <2>3. CASE HistoryRead(g) /\ Succeed(g) /\ entry[g].pass.todo = {}
    BY <1>0, <2>3, SucceedReads
  <2>4. CASE PassContinues(g) /\ Succeed(g) /\ entry[g].pass.todo \ {entry[g].pass.item} = {}
    <3>1. entry[g].pass.item \in stored[g]
      BY <1>0, <2>4 DEF IInv, PassContinues, EntryOK, ItemUnderWay
    <3> QED  BY <1>0, <2>4, <3>1, SucceedReads
  <2> QED  BY <1>2, <2>1, <2>2, <2>3, <2>4 DEF HistoryRead, HistoryPartial, PassContinues
<1> QED  BY <1>1, <1>2

LEMMA RecoveryStep ==
    ASSUME IInv, GapInv, Next, NEW g \in groups
    PROVE  GapRead(g)
<1>0. TypeOK /\ g \in Groups /\ entry[g] \in Entries /\ entry[g].from \in Int
  BY EntryFields, BridgeAssumption DEF IInv, TypeOK, Never
<1>1. ASSUME NEW h \in Groups, HistoryRead(h) \/ HistoryPartial(h) \/ PassContinues(h) PROVE GapRead(g)
  BY <1>1, PassReads
<1>2. ASSUME BackfillTick PROVE GapRead(g)
  <2>1. entry'[g] = queueGroupBackfill(g, entry[g], FALSE)
    BY <1>0, <1>2 DEF BackfillTick
  <2>2. entry'[g] \in Entries /\ entry'[g].from = entry[g].from
    BY <1>0, <2>1, QueueEntry, ZenonT(30)
  <2> QED  BY <1>0, <2>2, StillRequired DEF GapRead
<1>3. ASSUME NEW l \in Lines, ListenerReady(l) PROVE GapRead(g)
  <2>1. CASE entry'[g] = queueGroupBackfill(g, entry[g], TRUE)
    <3>1. entry'[g] \in Entries /\ entry'[g].from = entry[g].from
      BY <1>0, <2>1, QueueEntry, ZenonT(30)
    <3> QED  BY <1>0, <3>1, StillRequired DEF GapRead
  <2>2. CASE entry'[g] = entry[g]
    BY <2>2 DEF Recovers, GapRead
  <2> QED  BY <1>0, <1>3, <2>1, <2>2 DEF ListenerReady
<1>4. ASSUME NEW l \in Lines, ListenerFails(l) PROVE GapRead(g)
  <2>1. CASE entry'[g] = Broken(entry[g], UnreadFrom(g))
    <3>1. entry'[g] \in Entries /\ entry'[g].from <= entry[g].from
      BY <1>0, <2>1, UnreadFromType, BrokenEntry
    <3> QED  BY <1>0, <3>1, StillRequired DEF GapRead
  <2>2. CASE entry'[g] = entry[g]
    BY <2>2 DEF Recovers, GapRead
  <2> QED  BY <1>0, <1>4, <2>1, <2>2 DEF ListenerFails
<1>5. ASSUME Paused PROVE GapRead(g)
  <2> DEFINE b == Broken(entry[g], saved.from)
  <2>1. saved.from \in 0..MaxTime
    BY <1>0, <1>5, BridgeAssumption DEF IInv, ChainOK, Paused, TypeOK, IngressStates, Times, Never
  <2>2. b \in Entries /\ b.from <= entry[g].from
    BY <1>0, <2>1, BrokenEntry
  <2>3. entry'[g] = [b EXCEPT !.backfill = "paused"]
    BY <1>0, <1>5 DEF Paused
  <2> HIDE DEF b
  <2>4. entry'[g] \in Entries /\ entry'[g].from = b.from
    BY <2>2, <2>3 DEF Entries
  <2> QED  BY <1>0, <2>2, <2>4, StillRequired DEF GapRead
<1>6. ASSUME NEW h \in Groups, Subscribe(h) \/ Unsubscribe(h) PROVE GapRead(g)
  <2>1. CASE h = g
    BY <1>6, <2>1 DEF Subscribe, Unsubscribe, Recovers, GapRead
  <2>2. CASE h # g
    <3>1. entry'[g] = entry[g]
      BY <1>0, <1>6, <2>2 DEF Subscribe, Unsubscribe, TypeOK
    <3> QED  BY <3>1 DEF Recovers, GapRead
  <2> QED  BY <2>1, <2>2
<1>7. ASSUME Crash PROVE GapRead(g)
  BY <1>7 DEF Crash, Running, Recovers, GapRead
<1>8. ASSUME NEW h \in Groups, NEW m \in Times, IngestFails(h, m) PROVE GapRead(g)
  <2>1. CASE entry'[g] = entry[g]
    BY <2>1 DEF Recovers, GapRead
  <2>2. CASE entry'[g] # entry[g]
    <3>1. h = g /\ Fail(g)
      BY <1>0, <1>8, <2>2 DEF IngestFails, Fail, Close, TypeOK
    <3> QED  BY <1>0, <3>1, ClosedStillRequired DEF GapRead
  <2> QED  BY <2>1, <2>2
<1>9. ASSUME UNCHANGED entry PROVE GapRead(g)
  BY <1>9 DEF Recovers, GapRead
<1>10. ASSUME \/ Tick \/ Pause \/ Resume \/ PauseReturns \/ Resumed \/ FinishRecovery \/ Cleared \/ Restart
              \/ \E h \in Groups : Post(h)
              \/ \E h \in Groups, m \in Times : EventArrives(h, m) \/ Ingested(h, m)
              \/ \E l \in Lines : Reconnect(l)
       PROVE  UNCHANGED entry
  BY <1>10 DEF Tick, Pause, Resume, PauseReturns, Resumed, FinishRecovery, Cleared, Restart, Post,
       EventArrives, Ingested, Reconnect
<1> QED  BY <1>1, <1>2, <1>3, <1>4, <1>5, <1>6, <1>7, <1>8, <1>9, <1>10 DEF Next, ControlStep

(* A recovery ends only when every message between the kept start and the    *)
(* last break is stored, whatever breaks, reads that fail or pauses came in  *)
(* between.                                                                  *)
THEOREM RecoveriesReadTheGap == Spec => RecoveryReadsGap
<1>1. IInv /\ GapInv /\ [Next]_vars => [\A g \in groups : GapRead(g)]_vars
  BY RecoveryStep
<1> QED  BY <1>1, InvInvariant, GapInvariant, PTL DEF Spec, RecoveryReadsGap

=============================================================================
