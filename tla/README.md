# TLA+ specifications of the DingTalk assistant

The program (`src/packages/dingtalk-dsh-assistant/`) is one Node process, the
*Host*, that takes part in DingTalk groups as an assistant. It reads group
messages, lets a *router* (a model) decide what they ask for, keeps one *task*
per matter, lets an *Owner* (a model session per task) plan it, runs
*executions* (model sessions with tools) for the Owner, and answers in the
groups. Models are unreliable by assumption; everything they may do goes through
a SQLite control store whose commands are transactions. What makes the system
correct is that store, and the order in which the Host sends it commands while
sessions end, fail, outlive each other or die with the process.

This directory holds TLA+ models of that control logic, configurations that
model-check them with TLC, and machine-checked proofs of the properties that
matter most.

Paths below are relative to `src/packages/dingtalk-dsh-assistant/`. The live
runtime is what `resident.js` reaches through `task-resident-runtime.js` and
`task-session-service.js`; the workflow generation before it (`workflow-service.js`,
`topic-runtime.js`, `message-ledger.js`, ...) is still in the tree for migration
and is not modelled.

## 1. The system and what it must get right

### Components

| Component | State | Operations | Talks to |
|---|---|---|---|
| Control store (`dynamic-task-store.js`) | rows: tasks, executions, operations, resource locks, wakes, human requests, notifications, sources, facts, command receipts | about 90 commands, each one transaction; recovery when opened | called by the task session service only |
| Task session service (`task-session-service.js`) | in memory: flights, caches, retry timers, notification slots | `kickTask`, `kickExecution`, `nativeOperation`, `schedulePending`, `recover`, `scanNotifications`, web and router commands | store, sessions, transport, resident store |
| Owner and execution sessions (`task-session.js`, `execution-session.js`, `claude-execution-session.js`) | model transcript, live tools | a turn, a run, drain, interruption | call back into the service for every effect |
| Native operations and restart audit (`dynamic-native-job.js`, `native-restart-isolation.js`, `native-restart-scope-probe.js`, `dynamic-operation-readback.js`) | processes and files outside the Host | start, observe, read back, isolate | store, through the service |
| Notification outbox (`notification-delivery.js`, `group-notification.js`, `task-notification-readback.js`) | notification rows | prepare, start, ack, receipt, readback, retry with proof, recall | store, DingTalk transport |
| Human questions and coordination (`task-topic-coordinator.js`, `coordination-*.js`) | `humanRequests` of a task, dialogue and review state | ask, answer, resolve failures, scoped waits | store, Owner turns, groups |
| Conversation router (`conversation-router.js`, `conversation-router-session.js`, `topic-facts.js`) | per group: batch, arrangements, facts outbox | claim a batch, decide, apply, complete, project facts | resident store, control store |
| Ingress (`dws-bridge.js`, `dws-adapter.js`, `store.js`) | per group: messages, cursor, pause state | ingest, catch up, pause and resume, retire own messages | DingTalk, router |
| Resident runtime (`runtime.js`, `resident.js`, `http.js`) | wiring | start, stop, web facade | all |
| Persistence, workspaces, catalog, archive (`task-session-persistence.js`, `session-workspaces.js`, `execution-resource-catalog.js`, `task-archive.js`) | files, resource aliases | save, load, resolve, archive | service |
| Observer pages, schedules, fixed topics | projections, timers | read only; ordinary commands | service |

### Hard behaviours, and what each component owes

* **Sessions and rows are not updated together.** The store knows a lease; the
  session that holds it may have ended, be draining, have failed to drain, or
  have died with the Host. Owed: a lease is never given to two holders; a result
  that arrives while its session drains is not lost; a stale binding writes nothing.
* **External effects outlive everything.** A tool call that has been started may
  still act after its execution was cancelled, its task revised, or the Host
  killed. Owed: it keeps its resource locks until it is settled, it is started at
  most once, and a task is not completed over it.
* **Recovery must be admitted.** `openDynamicTaskStore` refuses to start on rows
  that contradict each other. Owed: no command order writes such rows.
* **Locks and queues.** Executions may need several resource keys. Owed: nobody
  holds part of what he needs; whoever is queued and still wanted gets to run.
* **At-most-once messages over an unreliable transport.** Owed: a group message
  is sent again only with proof that it was not sent; parts are sent in order; a
  delivered message is final.
* **Questions and answers race with revisions.** Owed: an answer is applied only
  to the question as asked; every open question is answered or superseded.
* **Ingest, routing and replay.** Owed: each message version is routed once,
  across pause, catch-up, edits and crashes.
* **Provider failures.** Owed: bounded retries with cooldowns, never a hot loop,
  never a task forgotten.

`PROJECT.json` lists these hazards one by one at the line of code where each bites.

## 2. Plan

| # | Module | What it models | Composition and proofs | State |
|---|---|---|---|---|
| 1 | `TaskLedger` | control store: tasks, Owner turns, executions, operations, locks, wakes, crash and recovery | `KeyLeases` (abstract), `MCTaskLedger`, `TaskLedgerProofs`, `TaskLedgerRevisionProofs` | done |
| 2 | `NotificationOutbox` | store commands of notifications, `deliverNotification`, the scanner, operator retry, an unreliable transport | `AtMostOnceSender` (abstract), `MCNotificationOutbox`, `NotificationOutboxProofs` | done |
| 3 | `OwnerTurns` | questions and their answers, the dialogue, reviews of group messages, provider failures of an Owner, and which turn is admitted next | over the task rows of `TaskLedger`, whose ordinary turns it abstracts; `MCOwnerTurns`, `OwnerTurnsProofs` | done |
| 4 | `ExecutionRecovery` | provider retries and recovery reviews of executions, slots and cooldowns of `schedulePending`; failure audits | liveness; bound on attempts | left |
| 5 | `ConversationRouter` | sources, triage, batches, decisions, applications, arrangements, failures and facts of the router of a group | `Inbox` (abstract), `MCConversationRouter`, `ConversationRouterProofs`, `ConversationRouterDoneProofs` | done |
| 6 | `IngressBridge` | listeners, backfill, recovery of breaks, pause and resume, subscriptions, restarts; archive and catalog last | feeds 5; `MCIngressBridge`, `IngressBridgeProofs` | done |

Abstract specifications worth stating: a table of exclusive leases (implemented by the
lock rows of 1, done), an at-most-once sender (2, done), an inbox that is emptied in
batches (5, done). Theorems worth proving: of 1, type correctness, lock safety and the
refinement of the lease table, and what revisions and leases of sessions promise
(completion, the gate, kept results); at-most-once and the refinement of the sender in
2; agreement, single creation, the refinement of the inbox and what "processed" promises
in 5; what a pause and a recovery promise in 6; bounded retries and kept candidates of 3.
All of these are done: every invariant and action property the passing runs check
is also a theorem, and what remains to TLC is liveness.

## 3. TaskLedger

### State

| Variable | In the code |
|---|---|
| `task` | `dynamic_tasks`: status, control, the three revisions, `leaseEpoch`, `drained`, `recovering`, archived, an open task-wide question, `restartRecoveryOperations` (`gate`) |
| `owner` | the Owner turn `kickTask` has in flight and the revisions its binding carries |
| `exec` | `dynamic_executions` |
| `run` | the native session behind an execution, as the Host knows it: live, ended, raced by feedback, orphaned, none |
| `op` | `dynamic_operations` |
| `acting` | operations whose effect may still be going on outside the process; no row of the store says so |
| `lock` | `dynamic_resource_locks` |
| `wake` | `dynamic_wakes` that are not acked |
| `seen` | history only: whether an Owner turn that began after a result was drained has run or decided |
| `crashes` | counts host crashes, for the bound |

### Actions

Every store command is one transaction (`command` in `dynamic-task-store.js`
opens it, reduces, commits), hence one action; a command's shared tail
(superseding questions, cancelling undispatched operations, releasing locks,
waking the Owner) is part of its action (`Supersede`, `Commit`). What the Host
does between commands is an action of its own: a session ends (`NativeEnd`), its
submission loses against newer feedback (`SubmissionRaced`), it cannot be drained
(`ExecutionDrainFailed`, `TaskDrainLost`), its process is proved gone
(`OrphanGone`), a refused start is reported to the tool (`OperationStartRefused`).
`EffectEnd` is the world: an effect ends when it ends.

`TaskClaim` and `ExecutionClaim` include the reads the service makes just before
the command, because `admissionHolds` keeps the commands that could invalidate
them out of the gap. `operation.prepare` and `operation.start` stay two actions:
anything may happen between them.

`Crash` is the end of the process at any point together with what
`openDynamicTaskStore` does on the next start; the store is unreachable in between.

### Abstractions

* One question per task, asked by `task.wait`; questions for named executions,
  reviews and the dialogue are in `OwnerTurns`.
* Evidence is truthful: an operation is settled with a known outcome, reconciled
  or isolated only when its effect is over. That is what the probes and readbacks
  outside the store establish; they are external.
* `Interrupted` and `OperationReconcile` do not tell the kinds of evidence apart
  that the code distinguishes by command: they allow what any of them allows.
* `operation.cancelPrepared` and `operation.reconcile` are not actions: nothing in
  the live runtime sends them. `task.control` is sent with `cancelled` only, but
  the store accepts three values and one run sends them all.
* Provider failures count as errors; those of an Owner are in `OwnerTurns`, the
  retries of an execution are not modelled.
* No rows of the generation before this store (`dynamic_legacy_blockers` is empty).
* Ids are used once: the store's are UUIDs or digests.

### The abstract specification

`KeyLeases` is what the resource locks promise, without rows, revisions or sessions. A
*session* (execution) holds all the keys it asked for or none. An *effect* (operation)
begins once, under all the keys its session holds or under keys it takes for itself;
what it relies on (`needs`) never changes while it runs. Holders may give up
everything they hold, in any number at once, but only those with no key that a
running effect relies on. `ImplementsLeases` maps `holder` to `lock`, `phase` to
`Phase` (idle while absent or prepared, running while in `acting`, over otherwise) and
`needs` to the `Footprint` of what is running. The table may be opened over leases that
exist, because `SafetySpec` has such initial states and so has a store.

### Runs

All instances have one task. `CHECK_DEADLOCK FALSE`: an archived task, or bounds
that are used up, end the behaviour.

| Run | Instance | Checks | Shows |
|---|---|---|---|
| `ledger_safety` | 2 executions with an operation each that may want the same key, owner and peer feedback, both kinds of drain failure, 3 revisions, 1 crash; or the same from a task reopened over an unknown operation (`SafetySpec`) | `TypeOK`, `RestartAdmissible`, `EffectsUnderLock`, `CompletionQuiescent`, `NoLostResult`, `GateReadOnly`, `DispatchedOnce`, `ImplementsLeases` | whatever happened before a crash and after it, the rows pass the checks made at startup; an effect that is still running keeps its locks; no operation is started twice; a completed task has nothing left that could act; a drained result stays announced until an Owner turn that could see it has decided; until the last unknown operation is decided only inspections of it are started; and the lock table moves as a table of leases may |
| `ledger_liveness` | 2 executions that both need both of two keys, failing drains, feedback, 1 crash, under `FairSpec` | `ContendersProceed`, `ImplementsLeases` | no deadlock or starvation over several keys, and no key taken before all can be |

Why the bounds are enough: every guard of the store compares a row with the
current revision, lease or input, so two values of each counter tell "current"
from "stale", and a third adds nothing; a conflict over keys needs two holders
and one key, a partial acquisition two keys; one crash meets every pair of
steps, and recovery writes are idempotent, so a second crash repeats the first.
`SafetySpec` starts in `Init`, or in states that the full system reaches only after a
long run (dispatch, start, crash, cancel, reopen): the three kinds of `ReopenedInit`
are what that run leaves, for an operation a restart interrupted (its execution not
yet drained, or drained) and for one whose call returned an error.

`ledger_safety` puts five cases into one run, each with large bounds for its own part:
two executions that compete for a key (`Contenders`), one that is run and claimed again,
across a crash (`Reruns`), two that exchange feedback and may fail to drain (`Peers`),
one with everything that happens to a task: revisions, supplements, pauses,
cancellation, reopening, archive (`Life`), and the audit of what a restart left
(`Audits`). `Within` in `MCTaskLedger` says how far a behaviour may go: it goes on as
long as it is within one of them, and the case need not be chosen at the start. No
definition of `TaskLedger` is changed.

The wakes are a set: equal pending wakes coincide, which loses only how often
an Owner is woken for the same thing.

### Fairness

`FairSpec` assumes weak fairness of what the Host does by itself:
`schedulePending` runs after every command that may free a key or a slot
(`ExecutionClaim`), `kickExecution` always reports a session that ended, with an
error if it submitted nothing (`ExecutionResult(e, "error")`,
`ExecutionDrained`), `recover` drains leases of sessions that are gone
(`RecoverDrained`), and a native session ends at some time or is proved gone
(`NativeEnd`, `OrphanGone`; runs have time limits). Nothing is assumed of models,
people or crashes.

### A request whose start is refused

`nativeOperation` sends `operation.prepare` and `operation.start` and, when the
start is refused, nothing else: the row stays prepared after its execution has
drained (the model marks it `refused`), blocks `task.complete` and keeps the
execution's lease until the task is revised or cancelled.
`docs/ops/task-session-migration.md` line 14 would have it cancelled, but the head
of that document retires its steps, so this is an observation and no run.

### Proofs

`TaskLedgerProofs` proves for all constants that satisfy
`ConstantsAssumption` (any number of tasks, executions, operations, keys; any bounds):

* `TypeCorrect`: `Spec => []TypeOK`;
* `LocksCorrect`: `Spec => []LockInv`;
* `EffectsLocked`: `Spec => []EffectsUnderLock`;
* `RestartAdmitted`: `Spec => []RestartAdmissible`;
* `NeverRedispatched`: `Spec => DispatchedOnce`;
* `LedgerImplementsLeases`: `Spec => ImplementsLeases`.

`EffectsUnderLock` is not inductive: that `op[o]` is covered by a lock depends on
its execution still holding the lease, and that depends on when
`releaseExecution` may fire. `LockInv` says what makes it so: an execution holds
exactly the keys of its lease (`ExecLocks`); one without its lease is drained
and has nothing undecided (`LeaseGuards`); an operation holds exactly the keys it
guards itself (`OpLocks`); an undecided operation that relies on its execution's
lease asks only for keys of it (`Covered`); what acts is undecided
(`ActingIsUndecided`); isolation is only ever recorded on operations that were
started (`IsolatedIsLate`); and rows that do not exist hold nothing
(`AbsentIsEmpty`). `LockInvSuffices` derives both properties from it. The lemma
`CommitLockInv` carries the argument for every command that may release locks;
`SupersedeLockInv` and `SettledLockInv` apply it; the other commands need one
step each. `NeverRedispatched` follows from a table of the only moves an
operation's state can make.

`LedgerImplementsLeases` sorts the steps of the ledger (`LockSteps`): a claim, a start, the
end of an effect, and all others, which let holders go or touch no lock (`Rests`).
That a release never takes a key from a running effect is not argued command by
command: `FootprintKept` says that a step does not change what a running effect
relies on, and `EffectsUnderLock` holds before the step and after it, so whoever
lost his keys was not the one relied on. An operation only leaves "idle" because its
state only moves on (`Advances`).

`TaskLedgerRevisionProofs` adds, under the same assumption:

* `RevisionsFence`: `Spec => []RevInv`;
* `CompletionIsQuiet`: `Spec => []CompletionQuiescent`;
* `GateIsReadOnly`: `Spec => []GateReadOnly`;
* `ResultsAreKept`: `Spec => []NoLostResult`.

These properties are about rows and revisions, and most of the forty commands change
little of either. So each command is looked at once, for what it does to a row
(`Rows`: `ExecRows`, `TaskRows`, `OpRows`), and the invariants are proved over that
summary. `RevInv` is the common ground: no execution or operation is of a revision its
task has not reached (`RevisionsBounded`), so that a raised revision makes all
existing rows stale for good, and a session exists only under a lease of a dispatched
execution (`SessionsLease`).

* A completed task must stay quiet, though nothing locks its executions: `CompletedIsOver`
  says that no turn of its Owner is running and that everything of it is over, and what is
  over starts again only by a running turn whose binding is current.
* `GateReadOnly` compares an operation that is starting with a gate that was set long
  before. `GateInv` says that the gate holds only operations that were dispatched before it
  was set (`GateIsLate`), so that none can join it later, and that what is prepared or
  starting under the current revision belongs to an inspection of one of them
  (`GateObeyed`); what is pending in the gate only shrinks.
* `NoLostResult` is not inductive: an ack removes the wake a turn claimed, also for a
  result that was drained after the turn had begun and that it never saw. `ResultWoken`
  adds that such a result is named by a wake that is still pending, which that ack
  cannot remove.

Only model-checked: `ContendersProceed` (liveness is out of the prover's reach).

## 4. NotificationOutbox

What the assistant says to a group is a row of `dynamic_notifications` first. A
message may have file parts, rows of their own that follow it one after the
other. `scanNotifications` takes rows from the store, `deliverNotification`
sends one (`notification.start`, the transport, `notification.ack` or
`notification.receipt`) or looks for it in the conversation when it is not known
whether it was sent. An operator may do the same by hand, at the same time.

### State

| Variable | In the code |
|---|---|
| `row` | `dynamic_notifications`: state, `sendAttemptCount`, whether an ack is present, what `deliveryError` proves |
| `burnt` | the command receipts of `notification.start`: a command with a stored id is answered from its receipt and not run again |
| `flight` | the `deliverNotification` in flight for a notification, and on whose behalf |
| `intent` | what the resident store's outbox says of the message: valid, withdrawn, to be reassessed |
| `source` | the message or question a delivery answers: current, stale, or one of the assistant's own |
| `wire` | attempts handed to the transport that may still take effect, now or later |
| `posted` | attempts that took effect |
| `crashes` | counts host crashes, for the bound |

`wire` and `posted` are the world: no row of the store says so, and no guard of a
Host action reads them, except that an answer of the transport is truthful
(`Acknowledged` and `Refused`) and a readback finds only what is there.

### Actions

Each store command is one transaction, hence one action: `Prepare`,
`RouterRetire`, `RetireUnsent`, `SettleInvalid`, `RejectBeforeSend`, `Retry`,
`ReadbackFinds`, `ReadbackMisses`, the four outcomes of `notification.start`
(`StartHeld`, `StartNothing`, `StartSuperseded`, `Start`) and the four ways a
delivery ends (`Acknowledged`, `Refused`, `AnswerLost`, `Confirmed`). `ScanSend`,
`ScanRead` and `ManualRetry` begin a delivery; between its commands anything may
happen, a delivery by somebody else of another part included. `SourceChanges`,
`IntentChanges`, `TakeEffect` and `Vanish` are the world. `Crash` ends the process
and includes what the next start of the store does to rows in flight.

### Abstractions

* `Enter` reads the row once, for the gate and for the delivery that follows. The
  code reads it twice, with two awaits between; the hazard list names that gap.
* Retry times (`nextAttemptAt`, the transport backoff) are left out: an attempt
  may come at any time. Nothing safe depends on them, and what is live is stated
  without times.
* `deliveryError` is reduced to what it proves: a refusal by the quote guard that
  was recorded as such (`rejected`) or not yet (`unmarked`), a rejected parameter
  (`invalid`), a settled "not sent" (`closed`), or nothing (`other`).
* The recall of operator questions and the disclosure check that may refuse a
  text before it is prepared are not modelled.
* `AtMostOnceSender` is the promise to the callers. The mapping reads an attempt's
  effect from `posted`, and "withdrawn" from rows that are superseded or failed
  for good; a quote refusal that may be retried is still "open".

### Runs

`CHECK_DEADLOCK FALSE`: when everything is delivered or withdrawn, nothing is left
to do.

| Run | Instance | Checks | Shows |
|---|---|---|---|
| `outbox_safety` | a router reply with a file part, a topic reply with two file parts in a direct chat, a question, a routing clarification, a platform reply with a file part (in each behaviour one of them is touched), every kind of refusal, lost answers, stale and own sources, 2 crashes for the platform reply | `TypeOK`, `AtMostOnce`, `StartNotBurnt`, `ImplementsSender` | one copy each, in order, nothing after it was retired, whoever scans, retries or retires; what was in flight at a crash is read back, not sent again; a start that is put off leaves no receipt that would answer the next one |
| `outbox_liveness` | the router reply and its file part, 3 attempts, 1 crash that does not meet a refusal, under `OutboxFairness` | `SendSettles`, `DeliveryConfirmed` | a refused message is attempted until it is not refused, and what is in the conversation is known to be delivered at last |
| `outbox_resend` | 1 message, quote refusals, 1 crash | `AtMostOnce` (violated) | the finding below |

`OneGroup` and `FaultsApart` in `MCNotificationOutbox` restrict the steps of these
runs: notifications of different deliveries never read each other's rows, so one
delivery at a time is enough; a crash and a quote refusal together are the
finding, so the other runs keep them apart.

Why the bounds are enough: a row is compared with its predecessor and with the
parts of its own delivery only, so a chain of two shows the order and a chain of
three a part that is both first and second; the attempt number is compared with
the one before, so two attempts tell "this one" from "an earlier one", and a
third shows that a retry may be repeated; a crash clears the memory and
moves what is in flight to `unknown`, which one crash does from every state.
The last attempt of the bound is never refused for retry, so that no run stops
at the bound and calls it settled.

### Fairness

`OutboxFairness` assumes of the Host: `recover` scans again every five seconds
(`resident.js` line 205) and `continueNotificationDelivery` scans after each
delivery, and within a scan `attempted` gives each notification its turn, so a
notification that is due over and over is taken (strong fairness of `ScanSend`
and `ScanRead`; it is not weak because the slot is in use, off and on, by other
notifications); a delivery goes on to its next command and a call to the
transport returns or times out (weak fairness of `Command` and `Answer`); the
gate retires what it finds withdrawn (`RetireUnsent`). Of the transport: if a
message is in the conversation and is looked for again and again, some readback
finds it (strong fairness of `ReadbackFinds`). Nothing is assumed of operators,
sources or crashes.

### Finding

`notification.retry` and `notification.start` leave the `deliveryError` of the
attempt before on the row. If attempt 1 was refused by the quote guard and the
process dies while attempt 2 is in flight, the row becomes `unknown` with the
refusal of attempt 1 still on it. `deliverNotification` takes that for proof that
attempt 2 was not sent, and sends attempt 3, although attempt 2 may be in the
conversation. `docs/ops/task-session-migration.md` line 15 excludes that: an
unknown effect is never replayed automatically. `outbox_resend` is the shortest
such run.

### Proofs

`NotificationOutboxProofs` proves for all constants that satisfy
`OutboxAssumption` (any set of notifications, any deliveries, orders and kinds, any
bounds on attempts and crashes):

* `TypeCorrect`: `Spec => []TypeOK`;
* `StartsCorrect`: `Spec => []StartNotBurnt`;
* `AtMostOnceCorrect`: `Undisturbed => (Spec => []AtMostOnce)`;
* `SenderImplemented`: `Undisturbed => (Spec => ImplementsSender)`.

`Undisturbed` says that the process never dies, or that no transport can answer
with a quote refusal. The finding shows that some such condition is needed: a
crash and a quote refusal together break `AtMostOnce`. `StartsCorrect` needs none.

The inductive invariant has four parts.

* `RowInv`: the fields of a row agree with each other and with the delivery in
  flight (`Agree`), and the parts of a delivery are prepared together
  (`PreparedTogether`).
* `ReceiptInv`: receipts are stored for attempts already made only, or for the
  next one of a row that has given up (`ReceiptsBehind`); a start meets its
  predecessor delivered (`StartInOrder`), because the gate looked and "delivered" is
  final; only the notifications a transport can refuse carry a refusal
  (`QuoteRefused`). `StartNotBurnt` follows from `ReceiptsBehind` alone.
* `SendInv` (`Transit`): what the row's state says of its attempts. Where a row is
  prepared, known-not-sent or carries a refusal, no attempt is on the wire or
  posted; elsewhere only the last one is.
* `OrderInv` (`InOrder`): what has been attempted has a delivered predecessor.

`AtMostOnce` is not inductive: that a retry is safe depends on the refusal being
about the last attempt, which is what `Transit` says and what a crash can
destroy. Each action has an *effect lemma* saying which rows become, are
marked or stay what they were; the preservation lemmas are stated once over
those effects. For the refinement, every action maps to `Accept`, `Withdraw`,
`Appear` or `Confirm` of the sender or to a stutter.

Only model-checked: `SendSettles` and `DeliveryConfirmed` (liveness).

## 5. ConversationRouter

Each group has a router: a loop (`conversation-router.js`) around a model that
decides what the messages of the group ask for. What it remembers is in the
resident store (`store.js`, the `router*` commands); what it causes is in the
control store (`source.*`, `router.task.apply`, `router.fact.*`). The two are
written one after the other, never together, so most of the logic is about a
pass that stops in between and is taken up again.

### State

| Variable | In the code |
|---|---|
| `message` | `group.messages`: the newest version, and whether the message turned out to be the assistant's own (`ownNotificationRetirement`) |
| `source` | `dynamic_sources`, one row per version: recorded, retired as own, processed or superseded (`routed`) |
| `triage` | `router.triage`: verdict and initial reply of a source |
| `queue`, `active`, `abandoned` | `router.queue`, `router.active.inputs`, `router.abandoned` |
| `decision`, `op` | `router.decisions`: the inputs of each, and its applications |
| `arr` | `router.arrangements` and `router.dependencyWakes` |
| `fact` | `dynamic_router_facts` and `group.routerFacts` |
| `failed`, `retrying` | `router.failures` by status |
| `receipts` | the command receipts of `router.task.apply` |
| `outbox` | `group.outbox` and the notification behind it: the replies that are prepared |
| `prereq` | a task others were arranged to follow: its version, and whether it is completed and drained |
| `router` | where the pass is; lost in a crash |
| `crashes` | counts host crashes, for the bound |

### Actions

A pass (`process`) is sequential, and passes of a group follow one another
(`schedule`). Each of its steps is an action that contains the whole store
command and the branch of `process` that follows: `applyPending` (`TriageReply`,
`SourceProcessed`, `ApplyTask`, `ApplyReply`, `RecordApplication`,
`RecordRejection`, `Applied`), triage (`TriageAccept` and its alternatives), and
batches (`WakeArrangement`, `Claim`, `ReleaseStale`, `BeginTurn`, `Commit`,
`TurnFails`). `ApplyTask` and its recording are two actions because they are
two commands to two stores: a crash between them leaves the receipt without the
record. A reply has the same gap: `TriageReply` and `ApplyReply` prepare it in the
outbox, and may end there (`Unrecorded`: the record fails, or the host dies); the next
pass finds it prepared, whatever has become of its source (`ReplyMayPass`).
`Throw` is the `catch` of `applyPending`: a failure is recorded if it is
about the newest version, and the pass ends. Between any two steps there may be a
new message or an edit (`Ingest`, `RecordSource`), the discovery that a message is
the assistant's own (`OwnEvidence`, `RetireMessage`, `RetireSource`), a change of
the prerequisite, a fact (`ProduceFact`, `EnqueueFact`, `FactEnqueued`), a
person's retry (`HumanRetry`) or a crash.

What the model submits is any decision `router_submit` and `routerCommit` accept
(`Proposable`, `Answers`, `Arrange`); what it says is left out.

### The abstract inbox

`Inbox` promises what the group relies on: what is offered once is consumed by
exactly one batch or dropped from one, a batch is claimed only when there is none,
and a batch that is not consumed loses nothing but what is dropped. `Place` maps
the router to it: queued, claimed, dropped (`abandoned`), consumed (an input of a
decision). `ImplementsInbox` is checked by TLC and proved.

### Abstractions

* Within `applyPending` the order is coarse: triage rows, then operations, then
  decided sources, and any due item of the same kind first.
* A reply is prepared and recorded in one action, or prepared and not recorded;
  in between nothing happens that either depends on. What becomes of the
  notification is section 4. Resolving a failure is part of the record it follows.
* The late recording of a version that is overtaken already is left out
  (`readSources` never returns it), and so are the cutover of groups from the
  generation before, session handles and generations of the model session, the
  checks of visibility and of actors, and evidence of ownership that changes twice.
* A decision cites sources of its own batch only, has at most two operations and
  adds at most one arrangement; the prerequisite of all arrangements is one task.

### Runs

`CHECK_DEADLOCK FALSE`: when the bounds are used up nothing may be left to do.

| Run | Instance | Checks | Shows |
|---|---|---|---|
| `router_safety` | 2 messages of up to 2 versions, 1 of which may turn out to be own, 1 arrangement, 1 fact, 3 operations, 4 decisions, every fault, 1 crash | `TypeOK`, `RecordsAgree`, `ArrangedOnce`, `RoutedIsDone`, `ImplementsInbox` | an operation is recorded as what became of it; an arranged task is created once, whatever is rejected, woken and retried; a source counts as processed only when every action decided on it took effect; no input is decided on twice or lost |
| `router_liveness` | 1 message with an edit, faults, a crash or a prerequisite that changes; or an action on 2 messages of which 1 is edited | `SourceSettles` | each current source is processed or waits for a person to retry a recorded failure, unless an operation was overrun or forgone |
| `router_retired` | 1 message that turns out to be own, no faults | `BarrierLifts` (violated) | the finding below |

`router_safety` covers four cases, each as deep as it needs and only as wide: one
message with edits and one kind of failure (`OneMessage`), two messages that are
decided on together or apart, with crashes (`TwoMessages`), a fact with an own
source (`OneFact`), an arrangement with rejection, wake and retry beside one other
operation (`OneArrangement`). A behaviour goes on as long as it is within one of
them; a reply that is prepared and not on record (`HalfDone`) is looked at in the
first case beside one operation at most. Two versions tell the newest from an overtaken one, and every comparison of
versions in the code is of that form; three operations are one that is
rejected, its retry, and another; two versions of the prerequisite are the one that
was decided on and the one that refuses it. `router_liveness` gives every
rejected operation room for its retry (`FirstOps`), so that no behaviour gets stuck
at a bound.

### Fairness

The recovery timer (`resident.js` line 204) records sources that are not
recorded, retires messages, starts passes and projects facts every five seconds,
and a pass that runs goes on to its next step: weak fairness of `Pass`,
`RecordSource`, `RetireMessage`, `RetireSource`, `EnqueueFact` and `FactEnqueued`.
Strong fairness of a successful `ApplyTask` says that a command does not fail for
ever for reasons outside the model: a source may be overtaken right after the
command, and then its failure is not recorded, so the pass would try again and
again. Nothing is assumed of people, of the model's turns or of the prerequisite.

### Finding, and the exceptions of `SourceSettles`

*Retired* (`router_retired`). A message is recognised as the assistant's own while
a batch holds its source. The batch is not stale by version
(`conversation-router.js` line 556), but `readSource` throws for a retired source,
outside the `try` that would record a failure (line 565). The batch stays and ends
every pass. `src/README.md` line 146 says that such a source is retired and the
routing barrier lifted.

`SourceSettles` names *overrun* operations as an exception. A message is edited
after a task action was decided on it and before the action took effect:
`router.task.apply` refuses, `routerRecordFailure` (`store.js` line 998) ignores
the failure because it is about an old version, and `applyPending` throws in every
later pass before it reaches anything else. Nothing is on record for a person to
retry, and the new version is never triaged.

`SourceSettles` also names *forgone* operations: a rejected action on several
messages waits for its retry, one of the messages is edited, the retry is
abandoned as stale with it, and the decision is never complete, so the other
messages are neither processed nor reported (`store.js` line 1082). No document
says otherwise, so it is listed as a hazard.

### Proofs

`ConversationRouterProofs` proves for all constants that satisfy
`RouterAssumption` (any messages, facts, arrangements, faults and bounds):

* `TypeCorrect`: `Spec => []TypeOK`;
* `RecordAgreement`: `Spec => []RecordsAgree`;
* `ArrangedTaskOnce`: `Spec => []ArrangedOnce`;
* `RouterImplementsInbox`: `Spec => ImplementsInbox`.

Even `TypeOK` needs strengthening (`TypeInv`): operations and decisions are
numbered without gaps, so a commit writes rows that were free; an arrangement is
revised at most once per rejected operation, so its revision stays in range; the
operation to be recorded is pending. `RecordInv` adds that the outcome a pass is
about to record is one the receipts bear out, which holds because nothing but the
pass itself writes receipts of the group in between. `HoldInv` says that every
operation that may still take effect, or took it, holds its arrangement: the
arrangement is accepted and names that operation. With `RecordInv` it gives
`ArrangedOnce`. `InboxInv` says that an input is in one place at most, and that
what it was made from tells whether it was offered: a verdict, the mark on a fact,
a rejection, a recorded wake. None of these is ever taken back (`TellTales`), so
nothing is offered twice; `BatchKinds` sorts the steps into the five of the inbox.

`ConversationRouterDoneProofs` adds:

* `ProcessedIsDone`: `Spec => []RoutedIsDone`.

`RoutedIsDone` asks of every action decided on a processed source that it took effect,
and the code takes a decision for complete when each action is applied, or rejected and
retried by one that is applied, or so again: `Fulfilled` follows that chain with a
recursive function. The prover's induction theorems cannot be used to show that there
is such a function. Instead, the operations every set closed under `Settles` contains
are one (`SettledExists`), which gives the unfolding (`FulfilledIs`); and a retry has a
higher number than what it retries, concerns the same arrangement and the same
messages, and belongs to a rejected operation (`RetryInv`), so that the last operation
that is `Fulfilled` without being `Done` would have a later one (`LastOne`, the
least-number principle counted from above). `Done(o)` has no recursion: `o`, or a later
operation on the same matter if `o` was rejected, is applied and has its receipt. From
there `RoutedInv` is an ordinary invariant: a source is routed as done only over a
decision whose operations are all `Done`; receipts and outcomes are never taken back
(`ReceiptsKept`, `DoneStays`), a decision gets no further operations (`DecisionKept`), and
a verdict is final (`VerdictKept`).

Only model-checked: `SourceSettles` and `BarrierLifts` (liveness).

## 6. IngressBridge

`dws-bridge.js` receives the messages of the groups and of the private
conversations. Every group has a *listener*, a subscription that may break and is
attached again with growing delays; all private conversations share one. What a
broken listener does not bring is found by the *backfill*: a pass per conversation,
every few seconds and whenever a listener becomes ready, reads the history from the
latest stored message less an overlap, or from an earlier start that a break left.
An operator may pause the reception of messages, to replace the Host, and resume it;
the start of what then has to be recovered is persisted.

### State

| Variable | In the code |
|---|---|
| `groups` | the conversations subscribed to (`runtime.listGroups`) |
| `posted`, `wire` | what the history shows, and the events a live subscription may still deliver |
| `stored`, `latest` | `group.messages` and their latest `occurredAt` |
| `saved`, `ingress` | the ingress state as persisted, and the bridge's copy: `paused`, `recoveryFromAt` |
| `control` | `controlTail`: which control operation awaits what, and whether a `finishIngressRecovery` is queued |
| `line` | `listenerState` of each group and of `humanReplyEntry` |
| `entry` | `bridgeEntries`: `backfillState`, `recoveryRequired`, `recoveryFromAt`, `recoveryQueued`, `lastSuccessfulBackfillEndAt`, and the pass under way with its start, the messages it has still to receive, whether it is a recovery, and whether the epoch moved on since (`stale`) |
| `inflight` | `inflightMessages` |
| `entry.brokeAt`, `owed` | history: when a conversation last broke, and what was posted while reception was paused |
| `now`, `spent` | the clock, and how much of each bound is used |

### Actions

Each action is what runs between two awaits. A pass is `Begin` (in
`BackfillTick`, `ListenerReady` or the end of another pass), `HistoryRead` or
`HistoryPartial`, and `PassContinues` for each message; `Close` is its `finally`,
with the queued pass it may start and the check of the recovery it queues. A message
is received by `EventArrives` or `Receive`, and `Ingested` or `IngestFails` ends the
receipt. `Pause`, `Resume` and `FinishRecovery` persist; `Paused`, `Resumed` and
`Cleared` take over what was persisted; `PauseReturns` is the end of the wait for
receipts under way. `Crash` may come between any two of them and leaves what is
stored and persisted; `Restart` is `startDwsBridge`.

### Abstractions

* A message is the time it was posted, at most one per tick and conversation; ties
  within one tick are not modelled. A history read returns what was posted by the
  time it began, which is the end of its window, or fails; what was stored before
  is received again without effect.
* A pass receives one message after the other; that the messages come in the order
  of time follows from the sort.
* Saving the ingress state succeeds (a failed save changes nothing, and the call
  fails), and the bridge is the only one that writes it.
* A listener that cannot start and one that breaks are the same step; so are a
  read that throws and one that is partial. An event that is never delivered is one
  that stays in `wire`.
* The entry of a private conversation exists from its subscription on; the code
  makes it when it is first used, with the same content.
* A conversation is not subscribed to again before a pass of its earlier
  subscription is over: that pass stops at its next check.
* Not modelled: normalisation and resources of messages, replies to approvals and
  human questions, carrier issues, the outbox the bridge sends in the older mode,
  the health report as such, and a stop with grace.

### Runs

`CHECK_DEADLOCK FALSE`: with the clock at its bound and nothing broken, nothing is left
to do.

| Run | Instance | Checks | Shows |
|---|---|---|---|
| `ingress_recovery` | 1 group, 1 private conversation, 3 ticks, 2 breaks or failures, 1 pause, 1 subscription change, 1 restart, under `FairSpec` | `TypeOK`, `PausedIsQuiet`, `PauseRecovered`, `RecoveryReadsGap`, `GapCloses`, `OwedArrives` | nothing is received once a pause has returned; the persisted bound is kept until all it owes is stored; a recovery that ends has read its gap up to the last break; recoveries end and what a pause owes arrives |
| `ingress_outage` | 1 group, 4 ticks, an overlap of 1, 1 break | `NoGapLeftBehind` (violated) | the finding below |

The constraint `Few` in `MCIngressBridge` says which disturbances are explored
together: in the group two of different kinds within two ticks, or two breaks within
three; fewer in the private conversation, whose listener is a copy of the group's; one
in both together, for `recoveryComplete` and the switch look at all conversations.
The code compares times only with one another, so that three ticks (before, during
and after) order what a break or a pause can order. The overlap is 0 there, the
hardest case: a larger one only reads more. The proofs have no bounds.

### Fairness

`FairSpec` assumes weak fairness of the backfill interval (`BackfillTick`), of what
follows by itself in the chain of control operations (`ControlStep`; at most one
of its steps is enabled at a time), of each pass (a read returns or fails), of receipts
(`Ingested`: a message under way is stored unless its receipt fails), and of the
retry timers and new listeners (`Reconnect`, `ListenerReady`). Failures are bounded, and
nothing obliges anybody to post, DingTalk to send an event, or the operator to
resume.

`GapCloses` and `OwedArrives` therefore say nothing of a conversation whose history
can never be read again: every pass of it fails, and its state stays degraded.

### Finding

*Outage* (`ingress_outage`). `docs/spec/dws-backfill-scheduler-recovery.md` line 12
says that a break is followed by one compensation that rereads from the start kept
before it, and that what the new listener brings must not shorten that range. In the
code any pass that begins after the break is that compensation (`dws-bridge.js`
line 302), also one the interval starts while the listener is still being attached
again. If the listener is ready when that pass ends, line 336 takes the recovery for
done and drops its start; the pass that `markListenerReady` queued then starts at the
latest stored message less the overlap. What was posted after the first pass read the
history and before the new listener was ready is lost, if the listener meanwhile
brings a message that is later by more than the overlap. `RecoveryReadsGap` holds:
what was posted up to the break is read.

### Proofs

`IngressBridgeProofs` proves for all constants that satisfy `BridgeAssumption` (any
conversations, any overlap, any bounds):

* `TypeCorrect`: `Spec => []TypeOK`;
* `PauseIsQuiet`: `Spec => []PausedIsQuiet`;
* `PausesAreRecovered`: `Spec => []PauseRecovered`;
* `RecoveriesReadTheGap`: `Spec => RecoveryReadsGap`.

`PauseRecovered` speaks of the persisted bound, but what gives the bound up looks
only at marks on the entries. `IInv` connects them: the persisted bound is no later
than anything owed and unread (`SavedCovers`), and so is the start each entry keeps,
except between the save of a pause and its taking over (`EntryCovers`); a pass that
may end a recovery has all of it still before it (`PassCovers`), or under way
(`ItemUnderWay`); a pause leaves no pass that may (`HaltedByPause`) and moves each
start down to its bound (`PauseBounds`); a conversation that was left owes nothing
(`LeftIsClean`); and `ChainOK` says when the persisted state and the bridge's copy may
differ. There is one lemma per action (`PausedStep`, `PassContinuesStep`, ...). The
proof of `RecoveriesReadTheGap` adds `GapInv`: a pass that may end the recovery of a
break has all unread messages between the kept start and the break before it.

Only model-checked: `GapCloses` and `OwedArrives` (liveness).

## 7. OwnerTurns

An Owner is one model session per task, and gets *turns*: at most one at a time, each
under a lease that `task.claim` grants and `task.drained` ends. What wakes it is of
three kinds. A person may write into the *dialogue* of the task, and gets a reply in a
turn of its own. While a *question* waits for its answer, group messages added to the
task may be that answer: a *review*, a turn that may only read, judges them. Everything
else is *ordinary* work, and waits while a question to a person is open. A turn that the
model provider breaks off, or that ends without a decision, is retried after growing
delays.

### State

| Variable | In the code |
|---|---|
| `task` | `dynamic_tasks`: status, requirement and context revision, `drained`, `recovering` |
| `question` | the last of `humanRequests`: status, audience, `followupReplies`, the last of `reviewFailures` |
| `retry` | `providerRecovery`: attempts, requirement revision, and whether `nextAttemptAt` is null, in the future or past |
| `dialogue` | `dialogue`: no message, waiting, replied |
| `refs` | the group messages in `sourceRefs` |
| `wake` | `dynamic_wakes` that are not acked, and whether the running turn has claimed them |
| `turn` | the turn `kickTask` runs, with the revisions of its binding and how far it got |
| `intent` | `kickTask` between its reads and `task.claim` |
| `review`, `tries`, `owed` | history: what became of each candidate answer; turns admitted by the retry timer since the last decision; an answer no ordinary turn has decided on yet |
| `outside` | counts revisions, supplements, cancellations and crashes, for the bound |

### Actions

Each store command is an action. `kickTask` reads the task and its wakes, chooses the
kind of turn (`KickFor`: dialogue before review before ordinary work), and then sends
`task.claim`: two actions, `KickTask` and `TaskClaim` or `ClaimRefused`, for a person may
answer or write in between. Commands of the router cannot come in between, for
`admitTask` holds the task back (`Held`). The turn decides
(`TaskWait`, `TaskAsk`, `AskAgain`, `TaskComplete`, `DialogueReply`, `HumanResolve`, `ReviewReply`,
`ReviewWait`), fails (`ProviderFailure`, `ReviewFailed`) or breaks off; then `WakeAck`
follows if something was submitted, and `TaskDrained`. A question to the operator is put
on record by `task.wait` and announced by `queueHumanRequest`; if that fails the call is
refused though the question stands (`asked`), and the turn calls again (`AskAgain`),
waits without a question, or breaks off. `Crash` includes what
`openDynamicTaskStore` does to the lease; `RecoverTask` is `recover`.

### Abstractions

* What an ordinary turn does with executions is the subject of `TaskLedger`; here it
  waits, asks or completes.
* A wake claimed under a lease that is over is pending again to every reader, so
  `TaskDrained` and `Crash` take the mark away.
* Audiences: `operator` (answered on the Web or in private), `group` (`requester` and
  `topic`: also by review) and `executions` (`topic` for named executions; which ones
  is left out). A reply by the requester that answers at once is `HumanRespond`.
* A task is reopened when it is completed or cancelled, and drained; that a restart must
  have left operations of a cancelled one unknown is in `TaskLedger`.
* A task is never paused: nothing at run time sends `task.control` with that value.
* Delays are two steps: a retry is later, then due. The cooldowns in memory
  (`failures`) and the limit on tasks at work are left out: both only delay a kick.
* A claim that `recover` makes of a task whose retry it may not use, and
  `task.human.resolve-failures`, are left out.

### Runs

| Run | Instance | Checks | Shows |
|---|---|---|---|
| `owner_turns` | 1 dialogue message, 2 group messages, 1 question of any audience, 2 delays, turns that break off, 2 outside events (revision, supplement, cancellation, reopening, crash), under `FairSpec` | `TypeOK`, `RetryBounded`, `CandidateKept`, `DialogueReplied`, `CandidateReviewed`, `AnswerResumes` | retries are bounded by the delays, however the turns end; a candidate answer stays in the queue until it is judged; messages, candidates and accepted answers get their turn, unless the task is over or its retries are used up |
| `owner_retry` | 1 dialogue message, no outside events, 2 delays | `SuspendedMeansExhausted` (violated) | the finding below |

Two group messages can come in one wake or in two, be judged together or apart, and be
judged by a reply to one of them. Two outside events are enough for a supplement that
a crash or a revision follows, and for two supplements, before, during or after a turn.
Two delays distinguish the first retry, the last one and none; six differ from two in
number only. One question is enough for `CandidateKept`: a new one supersedes the
last and looks at candidates of its own.

### Fairness

`recover` kicks every task every five seconds and after every event, and the claim
follows at once: weak fairness of `KickTask`, `TaskClaim`, `ClaimRefused`,
`RecoverTask`. A delay passes (`RetryDue`), and the finalizer of a turn runs (`WakeAck`,
`TaskDrained`). Strong fairness of `TaskWait`, `ReviewWait` and `DialogueReply` says that
a model that is asked again and again decides at some time: without it no review or
reply is ever promised. A turn that breaks off for reasons that are not the provider's
is repeated by the next kick. The properties name a suspended task as an exception, since
only a person's revision starts it again.

### Finding

*Retry* (`owner_retry`). `src/README.md` line 428 says that an Owner turn which fails is
retried after 5, 10 and 20 seconds and 10, 30 and 60 minutes, and that retries are
suspended after seven failures in a row. `task.claim` consumes the retry for a turn of
any kind (`dynamic-task-store.js` line 867), and only a decision of `task.wait` or
`task.complete`, or another failure, writes it again. If a message of the dialogue is
waiting when the retry falls due, the dialogue turn uses it, replies, and leaves the
task suspended after one failure; what the failed turn was to do is not taken up until
the requirement is revised.

### Parked candidates, an observation

`docs/api/task-session-human-requests.md` line 42 says that candidates whose review
failed are kept and parked. They are, while the question holds ordinary work back.
A question for named executions does not: the next ordinary turn claims every
wake that is not dialogue (`dynamic-task-store.js` line 875), the parked ones among
them, and its ack takes them out unreviewed. `CandidateKept` is therefore stated for
questions that hold the whole task; the rest is listed as a hazard without a property.

### Proofs

`OwnerTurnsProofs` proves for all constants that satisfy `ConstantsAssumption` (any
messages, group messages, delays and bounds):

* `TypeCorrect`: `Spec => []TypeOK`;
* `RetriesBounded`: `Spec => []RetryBounded`;
* `CandidatesStay`: `Spec => []CandidateKept`.

`RetryBounded` counts turns, while the code counts failures. `RetryInv` relates them: the
turns admitted so far are no more than the failures on record, and one fewer while a
retry is still to come, so that the last delay bounds both. `CandidateKept`
follows from `KeptInv`: dialogue turns claim dialogue only (`ClaimsOK`); an ordinary
turn runs only while no question holds the task, or was admitted before it was asked
(`OrdinaryOK`), or goes on after it asked the operator, whose questions have no
candidates (`AskedOK`); a review claimed the candidates of the question and nothing else
(`ReviewOK`); what a review replied to is among what it claimed, and the rest is kept
by its ack (`RepliedOK`); and a message is in one wake at most, for it is added once
(`SourcesOK`). The proof has one lemma per action.

Only model-checked: `DialogueReplied`, `CandidateReviewed` and `AnswerResumes` (liveness).

## 8. Not modelled

`PROJECT.json` names every component with its status. Left out for good: the text
of prompts and messages, formatting, the HTTP facade, read-only projections, the
retired workflow generation, and the probes of processes, files and conversations
whose verdicts the models take as given. Left for later modules: row 4 of
the plan, the archive and the catalog, and the carrier that turns DingTalk
events and histories into messages.

The retired generation (`workflow-service.js`, `topic-runtime.js`, `message-ledger.js`,
`execution-store-worker.js` and what only they use) and the Web pages are most of the
lines of the repository that no model covers. Nothing that `resident.js` starts reaches
the first, and the second keep no state that others read.
