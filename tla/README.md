# Liri: a verification development of the recovery core

Liri is an agent host: a user writes to a *session*, a *turn* of the model answers, tools are
called, sub-agents run in the background, and a session may *yield* until they have ended.
What must not go wrong in such a program is what happens between the turns: signals that are
lost, delivered twice or judged against a state that has gone, and what a crash leaves behind.
These modules specify that part, TLC checks it on small instances, and TLAPS proves its
components correct for every instance.

Paths below are relative to `src/`; most of the code is in `src/app/src`.

## 1. Inventory

| Component | State | Operations | Interacts with | Modules |
|---|---|---|---|---|
| Settlement delivery ledger (`chat/yield/SettlementOutbox.ts`) | SQLite table `agent_settlement_outbox`: key, state, attempts, times | `enqueue`, `claim`, `mark*`, `listReplayable`, `prune` | written by `AgentTool.notifyYieldSettlement` and `replayPendingSettlements` | `SettlementOutbox` |
| Yield registry and waiting table (`session/yield/YieldRegistry.ts`, `YieldWaitingStore.ts`) | map session -> entry, and its copy on disk | `register`, `get`, `shouldResume`, `claim`, `updateTurn`, `resolve`, `abandon`, `clear`, `restore` | turns register and refresh waits; handlers claim and end them | `YieldRegistry`, `YieldPromise` |
| Yield resumer (`chat/yield/YieldResumer.ts`) | one execution per signal | `handleYieldSettlement`, `replayPendingSettlements` | between ledger, registry and turns | `YieldRegistry`, `YieldRecovery` |
| Recovery of the host (`chat/manager/recovery.ts`, `shutdown.ts`) | installed or not | `bootstrapYieldRecovery`, `ensureYieldResumerInstalled`, `resumeSessionInternally`, `cleanupHost` | all of the above | `YieldRecovery` |
| Turn of a session (`chat/orchestrator/streamMessageFlow.ts`, `chat/manager/`) | session mutex, turn number, the maps of streams and executions | start, tools, yield, finish, fail, abort | registers and refreshes waits, spawns runs, holds an execution | `YieldRecovery` and `ChannelTurns`, as far as they see it |
| Execution manager and leases (`packages/service/src/execution/`) | records, owners and generations in memory; rows of executions and tool calls on disk | `acquire`, `requestCancel`, `confirmCancel`, `complete`, `fail`, `release`, `beginToolCall`, `recover` | owned by the turns of a channel | `ExecutionManager` |
| Channel router (`channels/MessageRouter.ts`, `messageStreamConsumer.ts`) | arrival gate, leases, idle timers | admission, stream, cancellation, grace | execution manager, streams, tools | `ChannelTurns` |
| Sub-agent run ledger (`tools/AgentTool/AgentRunLedger.ts`) | active and recent runs, what they owe | `tryReserve`, `ensure`, `requestCancel`, `settle`, `claimTerminalSideEffects` | probe of the registry; tool, engine, swarm | `AgentRunLedger` |
| Sub-agent runs (`AgentTool.ts`, `SubAgentEngine.ts`, `AgentSwarm.ts`, `agentLedgerLifecycle.ts`, `AgentRunStore.ts`) | calls, handles, batches, rows | foreground, background, direct and batch paths, stops | run ledger; notifies settlements | `AgentRuns` |
| Effects queue and reply dispatcher (`tasks/effects/`) | SQLite table of effects: generation, status, attempts, due and claim times | `enqueue`, `listDueCandidates`, `claimOne`, `settle`; `dispatchDueReplies` | one dispatcher per process, several processes on a database | `EffectQueue` |
| Cron scheduler and job table (`tasks/cron/`) | SQLite table of jobs; jobs in flight, slots | `start`, `tick`, `runJob`, `pauseJob`, `resumeJob`, ... | users, tools and the calendar write the table; jobs start turns | `CronScheduler` |
| Session mutex (`packages/kernel/src/core/SimpleMutex.ts`) | holder, waiters | acquire with time-out, release | turns | in `YieldRecovery` |
| Self wake (`tasks/selfwake/`) | table of wakes | arm, fire, cancel, recover | resumes sessions | not modelled, see section 6 |
| Ticket assignments (`tasks/ticketAssignmentStore.ts`) | assignments | claim, finish, recover | tasks | not modelled, see section 6 |
| Event log of a session (`session/storage/`) | append-only events | append, flush, repair | turn numbers | not modelled: a project of its own |
| Resource governor | admissions | admit, preempt, release | turns | not modelled: delays turns only |
| Priority session lock | queue of holders | acquire, release, preempt | nothing: no source file uses it | not modelled |
| File locks, persistent task queue, plan loop, goals, ACP, client, HTTP, providers | | | | not modelled; reasons in `PROJECT.json` |

What is hard in this part of the code:

- *Interleaving inside one process.* Every `await` lets other handlers, turns and notifications
  run. Between `get()` and `claim()` of the registry lies the `await` of the latest turn; between
  two statements of the ledger lies the database.
- *Interleaving of processes.* Two hosts on a database dispatch the same effects.
- *Crashes.* The ledger and the waiting table exist because the process may die between "the run
  has ended" and "its parent has gone on"; the claim of a dead process is freed by age alone.
- *Time.* A late acknowledgement meets a row another client has closed; a resumed turn gives up
  after 30 seconds at the session mutex; a tick works with the clock it began with.
- *Repetition.* A user may write while a session waits, a resumed turn may yield again, and a
  signal may be replayed.
- *Several owners of one fact.* An execution, a run of a sub-agent or a job is ended by its stream, by
  a timer, by a user's stop, by a catch block and by recovery; memory and disk each have a version of it.

What makes the components correct, in words: the ledger never has two live rows for a key, never
revises a verdict, never deletes or gives up what it still owes, and forgets nothing; the registry
gives a wait to one handler, keeps a newer wait from being removed with an older one, and gives back
after a restart only what its table holds; a session goes on once, after its runs, and in the end; the
queue settles what was delivered and gives up only what failed often enough. A session has one
execution at a time across restarts, and a tool call is on disk before its effect; a run of a sub-agent is
settled once, notified once and leaves nothing live behind; a scheduled job neither runs beside itself, nor
comes back after it was stopped, nor loses an occurrence.

## 2. The modules

### `SettlementOutbox`

`outbox` is the table (row id -> row), `lastId` its AUTOINCREMENT counter, `client` the control
state of each notifier (one run of `notifyYieldSettlement`) and replayer (one run of
`replayPendingSettlements`). A statement is an action: `EnqueueCheck` is the SELECT of `enqueue`,
`EnqueueInsert` its INSERT, refused by the partial unique index if this process has it (`IndexRejects`, then
`EnqueueRejected` and `EnqueueReread`), `EnqueuePrune` the `prune()` after it; `Claim` and
`ReplayClaim` are the conditional UPDATE of `claim`, `LookBack` what follows it (the row is read
again and, if refused for good, dropped); `Deliver` is the answer of the listeners, `Mark` the
write of the verdict. `StorageFails` is a statement that throws, with the two ways the callers
take it. `Crash` ends every client, and the next process opens the table (`doInit`): `Collapsed` is
`_collapseDuplicateLiveRows`, `IndexMade` the index, dropped and created anew. The code logs a failed creation
and goes on with the check before the INSERT alone (`SettlementOutbox.ts:171-188`), so `indexed` may be false
(`IndexMayFail`); a statement of `doInit` that throws leaves the table as it was (`StorageMayFail`).

Abstractions: the three statements of `prune()` are one action, so are the re-read and the drop
after a refused claim (attempts never decrease, so the two cannot disagree); an age has three
values (replayable, older than 48 hours, older than 7 days) and a claim is stale or not; ids grow
with `created_at`. The owner column is constant and the column `restored` is left out. Left out too are calls made
while the table is still being opened.

### `YieldRegistry` and `YieldPromise`

`entries` is the map, `waiting` the table behind it, `resumer` the control state of the executions
of `handleYieldSettlement`. Entries are compared by reference in the code; here each registration
has a number. `Begin` is `get()` and the start of the `await` of the latest turn; from its answer
to `claim()` nothing is awaited, so `Refuse` and `ClaimWait` are single actions; `StartResume` calls
the resume handler, `Finish` is `resolve()` or `abandon()`. What a handler learns from outside (the
latest turn, active runs, whether a handler is installed, whether the turn succeeded) is a parameter
of the action, arbitrary in this module.
Writes to the table are not awaited by the code: `Persist` lets each land or be lost
(`StoreMayFail`). A process that dies between the change in memory and the write is a lost write followed by
`Restart`. Writes that overtake each other are not modelled.
`Restart` is the death of the process and the rebuild that precedes everything else in the next; a rebuild
that throws is logged, and the process goes on without waits (`recovery.ts:169-172`).

`YieldPromise` is the abstract specification: a session has one wait, armed, taken, then settled, and one durable
record (`saved`), which follows it unless the write is lost (`Durable` says that none is). Nothing but a restart gives a
wait out again, and only the one the record names, to be taken once more: a wait whose end was not written comes back, one
whose registration was not written does not.

### `YieldRecovery`

The composition. It instantiates ledger and registry over shared variables: a run is a notifier and
a handler at once, `Replay` the replayer and a handler. Its actions are the steps of the host:
`UserTurn`, `MessageFails` (a message that never gets the mutex), `SpawnRun`, `UseTool`, `Yield` (with the probe),
`FinishTurn` (which refreshes the turn of a wait), `FailTurn`; `SettleRun` and `NotifySettlement`; the steps of the ledger;
`DeliverToNobody` and `DeliverToResumer`; `Judge`, with any turn number that was the latest during
the `await`; `ResumeTurn`, under the session mutex, or `ResumeTimesOut`; `FinishResume`,
`Acknowledge`; `Cleanup` and `Restart`. Every message, the resumption's own included, first puts the resumer back in place and
starts a replay if a `Cleanup` took it out (`Install`). The log may refuse a turn's start or the reading of its number
(`LogMayFail`, only in `recovery_live` among the runs); the code logs both and goes on. `resumed` (for which keys, in which life, a turn went on) and `armed`
(which runs were live) are history variables.

Abstractions: of a turn only its number, its use of tools, its yield and its end; the order of the
waiters of the mutex; rows do not age (a run of the model is shorter than 48 hours); runs of a dead
process are lost and do not notify. One replay runs at a time: that of a second installation waits for the first. The
counter that stands in for a log without a number is taken as 1, and the log's next number is one more than its latest. The unique index is
always there in the runs of the composition (`IndexMayFail` FALSE); the runs of the ledger and the proofs do without it.

### `EffectQueue`

`queue` is the table, `tick` the control state of each process's dispatcher. `claimOne` and
`settle` are a SELECT (`ClaimRead`, `SettleRead`) and a conditional UPDATE (`Take`, `Settle`), four
actions because another process may run between the two. A tick uses the time it began with: what
became due or stale later (`late`) may or may not be taken by it. `Abort` is a statement that
throws or a process that dies. The code in the repository enqueues replies only, whose runtime never answers
*later*; the queue offers it, so the model has it. The column `restored`, the delays between retries and the
counters are left out. `sent` and `failed` are history variables.

### `ExecutionManager`

Memory (`records`, `owner`, `lastGeneration`, `foreignActive`) and disk (`executions`, `toolCalls`) of
`ExecutionManager`, `ExecutionLease` and `ExecutionStore`. An action is what a caller does in one
synchronous block: `Admit` and `Refuse` are `acquire`, `isCurrent` and, when the session is occupied, `release`;
`Finish` is `complete` or `fail` and then `release`; every change is written through by `Persist`, and a
write that fails is only logged. `Crash` loses the memory. `Restart` attaches the store and `recover` goes through the rows
it found active, oldest first: `KeepFresh` blocks their session, `ReclaimStale` turns the row STALE and judges
its tool calls, `RecoverDone` lifts the generations, `RecoverFails` is its catch block; `RestartBlind` is a
life without a store. Ids are numbers in the order they were handed out; nothing calls `heartbeat`, so a row is as
old as its id and `cut` divides the stale from the fresh. Left out: `heartbeat` and WAITING_USER, which no other
code uses; the sweep of terminal records above 500; rows of tenants, which `recover` does not list
(`ExecutionStore.ts:373`).

### `ChannelTurns`

The messages of a channel on top of `ExecutionManager`. `turn` is where the router is with a message,
`gen` its stream, `stream` the map of controllers and executions by session, `tool` its guarded tool call,
`current` the session the owner's client has open. `Begin` is admission behind the arrival gate. The set-up of a stream aborts a
stream that is registered (`Displace`), waits for it up to 500 ms, registers itself over whatever is registered by then (`Register`)
and yields its first chunk (`OpenStream`); it may throw before or after it registered (`SetupFails`). `CallTool`, `RecordTool`, `ExecuteTool`, `SettleTool` the four stretches of `executeToolWithGuards`
between awaits; `FinishTurn`, `IdleTimeout`, `AskedInVain` and `GraceOver` are the router, `EndStream` and `AbortStream` the
stream; the grace period (5 s) outlasts the wait of a displacing stream. `left` and `overtaken` (streams registered over while
they were at work) are history variables. The flag `EXECUTION_TWO_PHASE_CANCEL` (default off) is chosen at the start; `MESSAGE_OWNERSHIP`
(default on) is taken as on. A turn makes one tool call at most. The heartbeat chunk of a stream (45 s) keeps the idle timer
(300 s) from firing once the set-up is over. Left out: the session mutex, which the lease precedes;
deleting a session; streams of clients beside the channel; authorisation, attachments, questions and replies.

### `AgentRunLedger` and `AgentRuns`

`AgentRunLedger` is the ledger alone: `active`, the bounded table `recent`, the side effects `owed`. Each
method is one action; `liveCount` is the number of its `Slots`, of which a live entry has as many as its weight; `settlement` is a history variable. `AgentRuns` composes it with what calls it: `Reserve`
to `Finally` are a call of the agent tool along its paths (direct, foreground, background, batch);
`EngineEnds` is the end of an execution, by itself or because it heeds an abort, which the engine's time-out is too; `StartSwarm` to `SwarmReturns` are the
phases of a batch (work, verification with one retry, synthesis), `StartWorkerRow` to `VerifierReturns` one task of it;
`StopAgent` and `ParentAborts` are stops; `Persist`, `Notify` and `MarkCancelRequested` write rows and tell the session.
Executions are named by call, position and round; ids by task key, so that two tasks may share one. Left out:
fork depth and role checks before the reservation, batches asked to run in the background, sessions without id, teammates,
worktrees, progress and tokens, and the recovery of rows at start-up.

### `CronScheduler`

`rows` is the table, `inFlight` and `activeJobs` the memory of the scheduler, `runs` the calls of `runJob`. The
database answers in the same turn of the event loop, so an action is what lies between the awaits that really wait: the executor,
`onJobEnd`, the delivery. `Start` is `tick` and the beginning of `runJob`, `Land` its finally block, `Record` the writes of the
result, `Deliver` its end; `Block` is the scan of the prompt, `TurnAway` the lock of another process, `RecordFails` a write
that throws. `TimeOut` ends the run and not its executor, which goes on `adrift` until `DriftEnds`; for the scheduler it is a failed answer, so
the bound on it loses nothing but executors. `Crash` and `Boot` are the death of the process and `start` with recovery and catch-up, `BootFails` is `start` when reads or
writes of it fail. `Pause` to `Reschedule` are what users, tools and the calendar do. Of a time only its relation to the clock is
kept (`due`: later, now, the empty string, none); which of the due jobs are 60 s late, and which reminders 120 s, is
arbitrary. Left out: the tickets and notices of the hooks, the run log, alerts, jobs that neither recur nor run once
(they become due with every tick), and the delivery queue, whose entries nothing retries.

### Faulty variants

Each module has a few operators marked `Faulty:` right before the definition they vary: a plausible
slip in that place (a dropped conjunct, a missing write, an off-by-one). No action
uses them; each breaks the property `PROJECT.json` pairs it with, which shows that the property
depends on the code it is about.

## 3. Runs

| Run | Instance | Properties | Distinct states |
|---|---|---|---|
| `executions` | 1 session, 2 messages, 2 attempts each, 4 ids, 1 fault, 2 crashes, fair | `TypeOK`, `ActiveIsOwner`, `KeptBlocks`, `FencedAcrossRestarts`, `RecoveredIsJudged`, `OneStreamAtATime`, `EffectIsRecorded`, `LostOnlyIfLeftBehind`, `TerminalIsFinal`, `EveryTurnEnds` | 1,136,560 |
| `outbox` | 2 notifiers, 1 replay, 2 keys, 2 row ids, 1 attempt, 1 delivered row kept, throwing statements, crashes, an index that may be missing | `TypeOK`, `LiveRowUnique`, `TerminalIsFinal`, `UnsettledIsKept` | 1,159,298 |
| `outbox_replay` | 1 notifier, 1 replay, 1 key, 2 row ids, 2 attempts, faults as in `outbox`, fair | `NoForgottenSettlement` | 55,354 |
| `registry` | 1 session, 2 handlers, 2 registrations, 2 turns, 2 clock values, lost writes, restarts | `ClaimedAtMostOnce`, `NewerWaitSurvives`, `KeepsPromise` | 696,807 |
| `recovery_refines` | 1 run, 2 messages, 3 turns, 1 crash, 1 shutdown, lost writes, throwing statements | `RefinesOutbox`, `RefinesRegistry`, `ResumedOncePerLife`, `DeliveredWasHeard` | 706,762 |
| `recovery_live` | 2 runs, 1 message, 3 turns, a log that may refuse, no crash, fair | `EveryWaitSettles`, `ResumedAfterItsRuns` | 219,494 |
| `effect_queue` | 1 effect, 2 processes, 2 payloads, 2 attempts, fair | `TypeOK`, `SettledWasSent`, `GivesUpOnlyAfterFailures`, `EventuallySettled` | 145,886 |
| `agent_runs` | 2 calls (a single agent; a single agent or a batch of one verified task, two tasks, or two with one key), 2 slots, 1 settled run remembered, 1 upset, fair | `TypeOK`, `AnswersOncePerSettlement`, `WithinLimit`, `NothingLiveAfterNotice`, `OneNoticeOneVerdict`, `AbortReachesAll`, `EveryRunIsNotified` | 460,802 |
| `cron` | 1 recurring job, 1 reminder, 2 slots, catch-up of 2, 2 errors, 2 runs at a time, 1 fault, 1 crash, 1 command, fair | `TypeOK`, `AwaitedOnce`, `StopIsKept`, `OccurrenceIsRun`, `DueJobSettles` | 217,900 |
| `cron_stranded` | as `cron`, no fault | violates `InFlightIsExecuting` | |
| `recovery_superseded` | 2 runs, 2 messages | violates `SupersededIsNotReused` | |
| `exec_mixed` | 2 sessions, 1 message each, no fault, no crash | violates `ToolCallsStayApart` | |

Why the bounds are enough. A conflict in the ledger is between two clients on one row, and two
keys are needed for `prune()` to find an unsettled row behind a delivered one, for which one attempt is enough; the two attempts of
`outbox_replay` let a claim be taken over and exhausted. Two row ids are a duplicate, when the index is missing, and its collapse. In the registry a handler may meet the wait it read, its successor, or none, so two
registrations and two handlers make every comparison of `claim()`, `resolve()` and `abandon()` come out both
ways. In `recovery_live` two runs make "another run is still active" happen; in `recovery_refines` a second message
makes a wait old, replaced or refreshed, and three turns are a yield, a user's turn and a resumption, or a yield and a resumption in each of two lives. One effect suffices
because rows of the queue do not interact, and two payloads because a delivery can only be
behind by having started before an `enqueue()`. Executions of different sessions meet only in the current session, which
`exec_mixed` shows; two messages make one wait for the other, two crashes leave rows of two lives. One upset is enough for each kind of
stop, exception or failing write to meet every stage of a run; two tasks with one key share a ledger entry, and a table of one settled run evicts the
other's. One command, fault and crash meet every stage of the runs of two jobs: the safety properties of
all components and of the composition are proved for every value of the constants, so the instances
have to be large enough for the liveness properties only.

Bounds are constants: `MaxRowId`, `MaxWaits`, `MaxTurn`, `MaxTime`, `MaxUserTurns`, `MaxRestarts`,
`MaxCleanups`, `MaxGeneration`, `MaxIds`, `MaxPolls`, `MaxFaults`, `MaxCrashes`, `MaxTasks`, `MaxUpsets`, `MaxRuns`,
`MaxCommands`. The limits of the code are constants too (`MAX_DELIVERY_ATTEMPTS` is 8
there, `OUTBOX_MAX_ROWS` 500, `RECENT_CAP` 200, `MaxErrors` 10, `MaxParallel` 3, `CatchUp` 5, the attempts of an effect a number per
kind). Symmetry is used for safety
only, over notifiers, keys, runs and handlers, which no property names. Deadlock is not checked: every
instance ends, by its bounds or because its work is done (in `cron`, when all jobs were deleted or are complete).

Fairness. In the ledger, each step of a client is fair because its promises resolve; a stale claim comes
with time; `ReplayList` is strongly fair because hosts are started again and again, which is what the
replay is for; and neither crashes nor storage errors go on for ever (a step that is also an ordinary one, as the end of a replay is, does not count). A single replay may well skip a row (one claimed less than 60 seconds
ago), so without further start-ups `NoForgottenSettlement` would be false. In the composition turns and
runs end (both have time-outs in the code), promises resolve and claims go stale; no user need write, no
turn need use a tool. In the queue the dispatcher polls for ever, time passes, and errors, crashes
and postponements end. In `executions` only what a timer or the event loop drives is fair (the step `Driven`): the polls of the
router, its idle and grace timers, the watchdog of a stream (600 s), the end of an aborted stream, recovery; a tool may
hang, a user may do nothing. In `agent_runs` the event loop does not rest while something can run, and the engine's
time-out aborts every execution that does not end; that an execution heeds its abort is assumed, for the code does not enforce it. In `cron` `Boot` and the steps of a run are weakly fair, because the wait for the executor has a time-out and a delivery
answers; `Start` is strongly fair for each job, because `tick` reads the due jobs oldest first and jobs that
fail again and again are disabled, so a due job comes to the front.

## 4. What the violations show

- `recovery_superseded`: at the end of *any* turn that used a tool, the number of that turn is filled
  into the wait of its session, also if an earlier turn registered it. A wait that should count
  as superseded is fresh again and the next settlement resumes it.
- `exec_mixed`: the execution of a tool call is looked up by the session the owner's client has open, not by the session of the call. While
  two sessions of one owner stream, a tool call of the one is recorded and settled under the execution of the
  other, and after a crash recovery may not find it.
- `cron_stranded`: the catch-up of a restart leaves out completed jobs only. `runJob` of an overdue job that is paused or failed
  takes its slot and its place in `inFlightJobs`, and the change of its state throws before the `try` whose `finally` gives both back. The
  job is not run again in this life even if it is resumed, and `maxParallelJobs` of them stop the scheduler. This is
  the exception `DueJobSettles` makes.

Observations without a run, from the models and the reading they took:

- *Ledger.* `notifyYieldSettlement` does not look at what `claim()` returned and may deliver a settlement it does not hold
  (`ResumedOncePerLife` holds all the same: the registry's `claim()` is a second gate). The replay takes a refused claim for an exhausted
  row and skips a row claimed less than 60 s ago. A row whose last permitted attempt dies stays `attempting`: the
  replay does not list it and `prune()` looks at failed rows only.
  Where the unique index could not be created, two concurrent `enqueue()` of a key may both insert, as the comment at
  `SettlementOutbox.ts:181` admits; the next start collapses them.
- *Waits.* Nothing abandons a superseded wait; it stays until a new yield, a tool-using turn or a shutdown, so
  `EveryWaitSettles` is checked with one message of the user. After a crash between a resumed turn and `resolve()` the wait is back, and
  a settlement of another run may resume it a second time without the mark of a repetition.
- *Effects.* The UPDATE of `claimOne()` compares generation and status, not times, so two processes that read the same stale
  row both take it. `SettledWasSent` and `GivesUpOnlyAfterFailures` hold nevertheless.
- *Executions.* A tool that an aborted stream left running keeps a row that says running (`toolResultPostProcess.ts:144`), which
  recovery, looking at active executions only, does not judge. A turn of a known session
  after a restart finds no current session and runs its tool unrecorded, as does a life that starts without a store. Generations start at 1 again
  when no row was active at the restart. A kept CANCEL_REQUESTED row blocks its session until the next restart. The late set-up of a stream that was
  timed out aborts the stream of its successor.
  Without two-phase cancellation and with three turns, two streams may wait for the same older one to go: the one whose turn was given up
  may register last and take the place of the other, unaborted, in the map, whose tool calls are then recorded under the wrong
  execution (`overtaken`; `EffectIsRecorded` and `LostOnlyIfLeftBehind` except it). Two-phase cancellation prevents it.
- *Sub-agents.* A stop between reservation and launch is accepted and the run is launched and completes (`AgentTool.ts:1927`;
  `AgentRunLedger.ts:32` speaks of a safe boundary). Nobody claims the side effects of workers, verifiers and synthesizers, so `unclaimedSideEffects` keeps an
  entry for each, though its comment (line 195) expects few.
- *Cron.* The time-out of a run is a `Promise.race` (`CronScheduler.ts:759`, and again `CronExecutor.ts:88`): the executor is left to itself,
  the `finally` gives back the id and the slot, the failed job stays due, and the next tick starts it beside its abandoned
  executor. `maxParallelJobs` bounds the runs that wait, not the executors at work. A first write that fails (`CronScheduler.ts:472`) strands a job on
  a tick as it does in a catch-up. A job ceases to be in flight before its result is written and delivered, so the same occurrence may be run twice; a run-now
  during that tail is answered as triggered and then swallowed. The end of a run of a reminder that was made
  again meanwhile completes the new one. `upsertJob` at the start of a run puts the state back to scheduled, so recovery finds a running job only if that write
  failed. The catch-up starts up to 5 jobs where 3 may run at a time. `stop()` clears the jobs in flight but not the count of slots.
  A failed delivery is queued and nothing retries it.

## 5. Proofs

TLAPS checks eight proof modules, for all values of the constants that satisfy the named assumptions of the
modules (numbers are natural, limits positive, the "none" value is not a real one, turns have sessions). TLC evaluates the
assumptions in every run.

- `SettlementOutbox_proofs`: `TypeCorrect`, `OneLiveRow`, `TerminalFinal`, `UnsettledKept`,
  `GivesUpWhenDue`, `SettledByAcknowledgement`. `OneLiveRow` is about a process that has the index, and holds whatever duplicates one
  without it left behind, because `Collapsed` removes them before the index is made; without the index nothing of the kind
  holds. Uniqueness of live rows is not inductive alone: an INSERT must add a row of a known key under
  an unused id. The invariant is `TypeOK`, `LiveRowUnique`, `KeyKnown`, `VerdictKnown` (only a replay
  abandons) and `IdsUsed`. For the action properties, `Writers` reduces a step to the ways the
  table is ever written; a start drops a row only if a newer live one of its key is there. A client marks a row by its id alone; that this is the row of its own key needs that
  ids are never used again and that no statement changes a key (`OwnRow`).
- `YieldRegistry_proofs`: `TypeCorrect`, `ClaimedOnce`, `ClaimedIsOwned`, `DiskMirrors`, `NewerSurvives` and
  `RegistryKeepsPromise`, the refinement of `YieldPromise`. The invariant adds to the checked
  properties that numbers of waits are used once and by one session (`WaitsUsed`, `WaitsOwned`), that
  a waiting entry has not been claimed (`WaitingUnclaimed`), what a handler knows of its entry (`HandlerKnows`), and
  the two halves of ownership (`HeldIsClaimed`, `ClaimedHasOwner`). The refinement maps the table to the durable records and is
  proved for writes that may be lost; only `DiskMirrors`, that map and table agree, is about a process that loses none.
- `YieldRecovery_proofs`: `ImplementsOutbox` and `ImplementsRegistry`, so that all of the above holds inside the
  composition, then `ResumedOnce` and `ResumedAfter`. The composition uses its components through instances, the proofs of the
  components have instances of their own; the `Same...` lemmas show that both mean the same. `ResumedOnce` rests on the registry:
  a wait is resumed by a handler that holds its claim. `DeliveredHeard` joins the two: a client's handler works for the key
  its row has (`HandlesKey`), and an answer that acknowledges was given after a turn was resumed for that key (`AckKnown`).
  `RecoveryKeepsPromise` is the refinement of `YieldPromise` by the whole composition, with lost writes, failed rebuilds and an index that may be missing.
- `EffectQueue_proofs`: `TypeCorrect`, `SettledSent` and `GivenUpAfterFailures`. A delivery is `done` long before
  the row is settled, so the invariant follows it: what a tick holds has a real key and generation (`InHand`),
  a tick that was answered *done* has its generation in `sent` (`AnswerKnown`), a row being attempted has an attempt left
  (`AttemptsLeft`). Attempts are counted when a failure is settled, from a reading that may be old, so failures that were
  delivered and not settled may be in the hands of several ticks at once: the attempts a row has, or a settlement has read, and
  the failures in hand together never exceed the failed deliveries of that payload (`RowsCovered`, `ReadingsCovered`).
  That finitely many are in hand is part of the invariant (`FewInHand`), so nothing is assumed of the number of processes.
- `ExecutionManager_proofs`: `OneOwner`, `BlockedByEarlierLife`, `Fenced`, `NothingRunsJudged`, `EndIsFinal` and type
  correctness. Whether a session is blocked is decided row by row, so the invariant says how far recovery has come:
  the rows it has judged are older than those it has still to judge (`OldestFirst`), a row is terminal only after its record
  (`MemoryFirst`), lives have separate ids (`LivesApart`, `Numbered`), and `lastGeneration` bounds what was handed out
  (`GenerationsHandedOut`, `GenerationsBounded`).
- `ChannelTurns_proofs`: every step is a step of the manager or leaves it alone (`ImplementsManager`), so its
  theorems carry over (`TurnsHaveOneOwner`, `TurnsAreBlocked`, `TurnsAreFenced`, `TurnsAreJudged`, `TurnsEndFinally`); then `OneStream`,
  `RecordedFirst`, `LostOnlyLeftBehind`, for any number of turns, with the exception both state: without two-phase cancellation a stream may have been
  registered over. The invariant ties a turn to its lease: leases differ (`LeaseApart`), belong to this life
  (`RunsInLife`), are held while a stream runs (`Holding`); the map of streams names who registered (`Registered`), a tool runs in
  its stream or was left behind (`ToolInStream`), its row is written before it runs (`RowFirst`), and the disk follows memory
  up to a failed write (`DiskFollows`).
- `CronScheduler_proofs`: `TypeCorrect`, `OneAwaitedRun`, `StoppedStays`, `OccurrencesAreRun`. The invariant is
  the soundness of rows and runs, `AwaitedOnce`, and that only reminders are ever complete: without it the end
  of a run could make a recurring job that is complete due again. `FewAwaited` bounds the runs that
  wait for an executor at once, one to one with slots; neither theorem bounds executors that outlived their time-out.
- `AgentRuns_proofs`: first the ledger alone. `Consistent` says what its two tables hold of a run that has ended: its settlement is owed
  exactly if nobody claimed it, and an entry still remembered says the same; from it `AnsweredOnce` and `FirstReportKept`.
  Then the runs, call by call (`CallInv`): an execution that has not been collected is where its caller is (`Placed`), a handle
  is that of a running execution, and beside the call's own run nothing is live without one (`Handled`), how far the settlement of that
  run has come (`Staged`). A step concerns one call and leaves the others as they are (`StepOf`, `Same`).
  For `RunsWithinLimit` the invariant says that the slots in use are finite and within the limit (`SlotsInv`), and that a live call has as
  many as it reserved and a batch no more tasks in flight than that (`Sized`), because a slice takes no more of the queue and starts when the
  one before has been collected. What runs then maps into the slots one to one. The number of calls need not be finite. `SlotsComeBack` says that no
  way a call can end leaves a slot behind. `LedgerRefined` is the refinement: what
  is shown of the ledger holds of the system; `NothingLive`, `OneNotice`, `AbortReachesEverything` follow from the invariant.

The theorems `GivesUpWhenDue`, `SettledByAcknowledgement`, `ClaimedIsOwned`, `DiskMirrors`, `RecoveryKeepsPromise`, `FewAwaited`,
`ImplementsManager`, `LedgerRefined`, `FirstReportKept`, `SlotsComeBack` and the type correctness of registry, composition and manager
state what no run checks separately.

Every safety property a passing run checks is a theorem. Model-checked only are the liveness properties (`NoForgottenSettlement`,
`EveryWaitSettles`, `EventuallySettled`, `EveryRunIsNotified`, `EveryTurnEnds`, `DueJobSettles`), which are beyond the prover, and the
three violations.

## 6. Not modelled, and what is left

- `SelfWake`: `appendEntry` loads and saves the whole store around an `await` although its comment (`SelfWakeService.ts:63`) calls it atomic,
  and a wake is marked `fired` before the session is resumed, with no retry. A model would compose it with the turns of `YieldRecovery`.
- `TicketAssignment` and the hooks of cron that lead to it: claims of tickets and their recovery.
- Of executions: `heartbeat`, WAITING_USER, the sweep, clients that stream beside a channel, and more than one tool call of a turn.
- Of sub-agents: recovery of rows at start-up, background batches.
- Of cron: the writes users make around an awaited import (`handleRunCron`, `handleUpdateCron` read and write a whole row).
- The event log and its repair, which would be a project of its own; the resource governor, the orchestrators and goals, whose control
  depends on the answers of a model; the client, HTTP, ACP and the providers, which are interface and I/O. They are most of the
  repository's lines: what is modelled here is the small part in which concurrency, crashes and repetition meet.
