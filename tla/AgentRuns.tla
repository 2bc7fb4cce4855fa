----------------------------- MODULE AgentRuns -----------------------------
(***************************************************************************)
(* Sub-agent runs from the tool call to the notification of the session:   *)
(* AgentTool.execute and its foreground, background and batch paths,       *)
(* SubAgentEngine (execute, endRun, abort), AgentSwarm, the lifecycle's    *)
(* settleRun, the rows of AgentRunStore, and stopAgent.                    *)
(*                                                                         *)
(* An agent id is a triple: <<c, 0, 0>> is the run of tool call c,         *)
(* <<c, k, 0>> the worker of its task key k (`${batchId}::${taskKey}`),    *)
(* <<c, i, n>> the n-th verifier of its i-th task and <<c, 0, 1>> its      *)
(* synthesizer (fresh ids).  Executions of the engine are named the same   *)
(* way, but by the position of the task: two tasks may have one key.       *)
(***************************************************************************)
EXTENDS Integers, Sequences, FiniteSets

CONSTANTS
  Calls,            \* calls of the agent tool
  Session,          \* the session they are made in
  None,
  Batches,          \* call -> the task keys it may be made with: <<>> for a single agent
  MaxTasks,         \* bound: tasks of a batch
  Limit,            \* maxConcurrentAgents
  SWARM_CONCURRENCY,\* DEFAULT_SWARM_CONCURRENCY
  RECENT_CAP,
  MaxUpsets,        \* bound: stops, aborts of the parent, exceptions, failing writes
  Verified,         \* the batches a verifier may be asked for
  VerifyRetry       \* is a rejected worker run again?

VARIABLES
  active, recent, owed, settlement,   \* AgentRunLedger
  call,      \* call -> where its tool call stands
  handle,    \* activeAgents of the engine: id -> the execution registered for it, or None
  exec,      \* execution -> whether it runs, was aborted, completed
  swarm,     \* call -> its AgentSwarm and the controller of the batch
  item,      \* call -> task position -> where the swarm is with it
  row,       \* AgentRunStore: id -> the status on disk
  marks,     \* accepted stops not yet written to disk
  upsets,    \* counter of the bound
  notified   \* history: call -> notifications of its session

IdsOf(c) ==
  IF Batches[c] \subseteq {<<>>}
  THEN {<<c, 0, 0>>}
  ELSE {<<c, 0, 0>>, <<c, 0, 1>>} \cup {<<c, i, n>> : i \in 1..MaxTasks, n \in 0..2}

Ids == UNION {IdsOf(c) : c \in Calls}

Ledger == INSTANCE AgentRunLedger WITH
            Sessions <- {Session}, MaxWeight <- SWARM_CONCURRENCY

ASSUME RunsAssumption ==
  /\ Batches \in [Calls -> SUBSET UNION {[1..n -> 1..MaxTasks] : n \in 0..MaxTasks}]
  /\ Ledger!Parameters
  /\ None \notin Ids
  /\ MaxTasks \in Nat /\ MaxUpsets \in Nat
  /\ SWARM_CONCURRENCY \in Nat \ {0}
  /\ VerifyRetry \in BOOLEAN

ledgerVars == <<active, recent, owed, settlement>>
engineVars == <<handle, exec>>
swarmVars  == <<swarm, item>>
diskVars   == <<row, marks>>
vars == <<ledgerVars, call, engineVars, swarmVars, diskVars, upsets, notified>>

Own(c)       == <<c, 0, 0>>
Tasks(c)     == DOMAIN call[c].keys
WorkerOf(e)  == e[2] > 0 /\ e[3] = 0

\* The agent id an execution is registered under.
IdOf(e) == IF WorkerOf(e) THEN <<e[1], call[e[1]].keys[e[2]], 0>> ELSE e

IdleExec == [state |-> "idle", aborted |-> FALSE, completed |-> FALSE]
NoSwarm  == [phase |-> "off", aborted |-> FALSE, verify |-> FALSE]
NoItems  == [i \in 1..MaxTasks |-> [state |-> "queued", round |-> 1]]
NoCall   == [pc |-> "idle", background |-> FALSE, keys |-> <<>>, weight |-> 1,
             caught |-> FALSE, claim |-> None]

Upset == upsets < MaxUpsets /\ upsets' = upsets + 1

Status(completed) == IF completed THEN "completed" ELSE "failed"

At(c, pc)     == call[c].pc = pc
Goto(c, pc)   == call' = [call EXCEPT ![c].pc = pc]
Running(e)    == exec[e].state = "running"
Ended(e)      == exec[e].state = "ended"

-----------------------------------------------------------------------------
(* The engine.                                                             *)

\* execute(), up to its first await: the handle first, then the ledger.  A signal
\* that is aborted already aborts the new controller at once.
Launch(e, aborted) ==
  /\ exec[e].state = "idle"
  /\ handle' = [handle EXCEPT ![IdOf(e)] = e]
  /\ exec' = [exec EXCEPT ![e] = [state |-> "running", aborted |-> aborted, completed |-> FALSE]]
  /\ Ledger!EnsureCovered(IdOf(e), Session)

\* The loop ends, by itself or because it heeds an abort (the engine's time-out); endRun()
\* touches nothing if another execution has taken the id.
EngineEnds(e) ==
  /\ Running(e)
  /\ \E completed \in BOOLEAN :
       /\ exec' = [exec EXCEPT ![e].state = "ended", ![e].completed = completed]
       /\ IF handle[IdOf(e)] = e
          THEN /\ Ledger!Settle(IdOf(e), Status(completed))
               /\ handle' = [handle EXCEPT ![IdOf(e)] = None]
          ELSE UNCHANGED <<ledgerVars, handle>>
  /\ UNCHANGED <<call, swarmVars, diskVars, upsets, notified>>

Collect(e) == exec' = [exec EXCEPT ![e] = IdleExec]

-----------------------------------------------------------------------------
(* Rows on disk.                                                           *)

\* startRun(): an upsert that resets whatever the row said.
StartRow(id) == row' = [row EXCEPT ![id] = "running"]

\* settleRun() of the store: a terminal row is not rewritten.
SettleRow(id, status) ==
  row' = [row EXCEPT ![id] =
            IF @ \in {"running", "cancel_requested"} THEN status ELSE @]

-----------------------------------------------------------------------------
(* settleRun() of the lifecycle: settle and claim, then the row with the   *)
(* status of the ledger, then the notification.                            *)

\* Faulty: only who settles the run goes on to its side effects.
SettleRunIfFirst(c, status, caught) ==
  LET answer == IF Ledger!Live(Own(c)) THEN Ledger!ClaimAnswer(Own(c), status) ELSE None IN
  /\ IF answer = None THEN UNCHANGED ledgerVars ELSE Ledger!SettleAndClaim(Own(c), status)
  /\ call' = [call EXCEPT ![c].pc = IF answer = None THEN "wrapup" ELSE "persist",
                          ![c].claim = answer,
                          ![c].caught = @ \/ caught]

SettleRun(c, status, caught) ==
  LET answer == Ledger!ClaimAnswer(Own(c), status) IN
  /\ Ledger!SettleAndClaim(Own(c), status)
  /\ call' = [call EXCEPT ![c].pc = IF answer = None THEN "wrapup" ELSE "persist",
                          ![c].claim = answer,
                          ![c].caught = @ \/ caught]

\* Faulty: the row gets what the caller reported first hand, not what the ledger says.
PersistReport(c) ==
  /\ At(c, "persist")
  /\ SettleRow(Own(c), IF call[c].caught THEN "failed" ELSE call[c].claim.status)
  /\ Goto(c, "notify")
  /\ UNCHANGED <<ledgerVars, engineVars, swarmVars, marks, upsets, notified>>

Persist(c) ==
  /\ At(c, "persist")
  /\ \/ SettleRow(Own(c), call[c].claim.status) /\ UNCHANGED upsets
     \/ Upset /\ UNCHANGED row
  /\ Goto(c, "notify")
  /\ UNCHANGED <<ledgerVars, engineVars, swarmVars, marks, notified>>

Notify(c) ==
  /\ At(c, "notify")
  /\ notified' = [notified EXCEPT ![c] = @ + 1]
  /\ Goto(c, "wrapup")
  /\ UNCHANGED <<ledgerVars, engineVars, swarmVars, diskVars, upsets>>

-----------------------------------------------------------------------------
(* The tool call.                                                          *)

Weight(keys) ==
  LET least(x, y) == IF x < y THEN x ELSE y
      planned == least(least(Len(keys), SWARM_CONCURRENCY), Limit)
  IN  IF keys = <<>> \/ planned < 1 THEN 1 ELSE planned

\* executeGuard(): admitted and registered, or refused.  A batch that is asked to run in
\* the background runs like any other and is left out.
Reserve(c) ==
  /\ At(c, "idle")
  /\ \E keys \in Batches[c], background \in BOOLEAN :
       /\ background => keys = <<>>
       /\ \/ /\ Ledger!TryReserve(Own(c), Session, Weight(keys))
             /\ call' = [call EXCEPT ![c] = [NoCall EXCEPT
                           !.pc = "begin", !.background = background,
                           !.keys = keys, !.weight = Weight(keys)]]
          \/ /\ Ledger!LiveCount + Weight(keys) > Limit
             /\ Goto(c, "refused")
             /\ UNCHANGED ledgerVars
  /\ UNCHANGED <<engineVars, swarmVars, diskVars, upsets, notified>>

BeginRun(c) ==
  /\ At(c, "begin")
  /\ StartRow(Own(c))
  /\ Goto(c, "dispatch")
  /\ UNCHANGED <<ledgerVars, engineVars, swarmVars, marks, upsets, notified>>

\* An unknown role, a tool outside the role's list, background runs switched off.
Reject(c) ==
  /\ At(c, "dispatch") /\ call[c].keys = <<>>
  /\ SettleRun(c, "failed", FALSE)
  /\ UNCHANGED <<engineVars, swarmVars, diskVars, upsets, notified>>

\* Anything else that throws ends in a catch block, which settles the run as failed;
\* what the catch block of a background run throws is settled once more.
Throw(c) ==
  /\ \/ call[c].pc \in {"begin", "dispatch", "direct"}
     \/ At(c, "engine") /\ Ended(Own(c))
     \/ At(c, "wrapup") /\ ~call[c].caught
  /\ Upset
  /\ SettleRun(c, "failed", TRUE)
  /\ UNCHANGED <<engineVars, swarmVars, diskVars, notified>>

\* A simple task is one call of the model, without the engine.
CallDirect(c) ==
  /\ At(c, "dispatch") /\ call[c].keys = <<>> /\ ~call[c].background
  /\ Goto(c, "direct")
  /\ UNCHANGED <<ledgerVars, engineVars, swarmVars, diskVars, upsets, notified>>

DirectReturns(c) ==
  /\ At(c, "direct")
  /\ SettleRun(c, "completed", FALSE)
  /\ UNCHANGED <<engineVars, swarmVars, diskVars, upsets, notified>>

\* A foreground or a background run goes to the engine, without any signal.
LaunchAgent(c) ==
  /\ At(c, "dispatch") /\ call[c].keys = <<>>
  /\ Launch(Own(c), FALSE)
  /\ Goto(c, "engine")
  /\ UNCHANGED <<swarmVars, diskVars, upsets, notified>>

AgentReturns(c) ==
  /\ At(c, "engine") /\ Ended(Own(c))
  /\ SettleRun(c, Status(exec[Own(c)].completed), FALSE)
  /\ Collect(Own(c))
  /\ UNCHANGED <<handle, swarmVars, diskVars, upsets, notified>>

\* finally: the reservation is released unless the run goes on in the background.
Finally(c) ==
  /\ At(c, "wrapup")
  /\ IF call[c].background THEN UNCHANGED ledgerVars ELSE Ledger!Settle(Own(c), "failed")
  /\ Goto(c, "done")
  /\ UNCHANGED <<engineVars, swarmVars, diskVars, upsets, notified>>

-----------------------------------------------------------------------------
(* The swarm of a batch.                                                   *)

Busy == {"starting", "launch", "running", "gate", "verifying"}

InFlight(c) == {i \in Tasks(c) : item[c][i].state \in Busy}

\* The tasks a phase has still to start, and the next ones it starts together.
Queue(c) == {i \in Tasks(c) :
               item[c][i].state = IF swarm[c].phase = "work" THEN "queued" ELSE "ok"}
Slice(c) == {i \in Queue(c) : Cardinality({j \in Queue(c) : j < i}) < call[c].weight}

SetItem(c, i, state) == item' = [item EXCEPT ![c][i].state = state]
SetPhase(c, phase)   == swarm' = [swarm EXCEPT ![c].phase = phase]

\* The controller is registered before the first await of the batch.
StartSwarm(c) ==
  /\ At(c, "dispatch") /\ call[c].keys # <<>>
  /\ \E verify \in {FALSE, call[c].keys \in Verified} :
       swarm' = [swarm EXCEPT ![c] = [NoSwarm EXCEPT !.phase = "work", !.verify = verify]]
  /\ Goto(c, "swarm")
  /\ UNCHANGED <<ledgerVars, engineVars, item, diskVars, upsets, notified>>

\* The roles of the tasks cannot be resolved: the batch throws before its first slice.
ResolveFails(c) ==
  /\ At(c, "swarm") /\ swarm[c].phase = "work"
  /\ item[c] = NoItems
  /\ Upset
  /\ swarm' = [swarm EXCEPT ![c] = NoSwarm]
  /\ SettleRun(c, "failed", TRUE)
  /\ UNCHANGED <<engineVars, item, diskVars, notified>>

\* runBatched(): the next slice starts when the one before has settled entirely.
StartSlice(c) ==
  /\ swarm[c].phase \in {"work", "gate"}
  /\ InFlight(c) = {} /\ Slice(c) # {}
  /\ ~swarm[c].aborted
  /\ item' = [item EXCEPT ![c] = [i \in DOMAIN @ |->
       IF i \in Slice(c)
       THEN [@[i] EXCEPT !.state = IF swarm[c].phase = "work" THEN "starting" ELSE "gate"]
       ELSE @[i]]]
  /\ UNCHANGED <<ledgerVars, call, engineVars, swarm, diskVars, upsets, notified>>

\* Faulty: an aborted batch does not wait for what it has in flight.
EndPhaseAtOnce(c) ==
  /\ swarm[c].phase \in {"work", "gate"}
  /\ swarm[c].aborted \/ InFlight(c) = {}
  /\ SetPhase(c, "end")
  /\ UNCHANGED <<ledgerVars, call, engineVars, item, diskVars, upsets, notified>>

\* A phase ends: nothing is left to start, the batch was aborted, or the budget is
\* used up.  Verification and synthesis follow only a phase that ran to its end.
EndPhase(c) ==
  /\ swarm[c].phase \in {"work", "gate"}
  /\ InFlight(c) = {}
  /\ LET whole == ~swarm[c].aborted /\ (swarm[c].phase = "gate" \/ Queue(c) = {})
     IN  \/ whole /\ swarm[c].phase = "work" /\ swarm[c].verify /\ SetPhase(c, "gate")
         \/ whole /\ (swarm[c].verify => swarm[c].phase = "gate") /\ SetPhase(c, "synth")
         \/ SetPhase(c, "end")
  /\ UNCHANGED <<ledgerVars, call, engineVars, item, diskVars, upsets, notified>>

-----------------------------------------------------------------------------
(* One task of a batch: the executor of swarmPath.                         *)

WorkerId(c, i) == <<c, call[c].keys[i], 0>>

\* Where a task goes from its first run, and from the one a verifier asked for.
WorkedState(c, i) == IF item[c][i].round = 1 THEN "ok" ELSE "gate"
FailedState(c, i) == IF item[c][i].round = 1 THEN "failed" ELSE "rejected"

StartWorkerRow(c, i) ==
  /\ item[c][i].state = "starting"
  /\ \/ StartRow(WorkerId(c, i)) /\ SetItem(c, i, "launch") /\ UNCHANGED upsets
     \/ Upset /\ SetItem(c, i, FailedState(c, i)) /\ UNCHANGED row
  /\ UNCHANGED <<ledgerVars, call, engineVars, swarm, marks, notified>>

\* An unknown role or an empty pool of tools: the row fails, nothing runs.
FailClosed(c, i) ==
  /\ item[c][i] = [state |-> "launch", round |-> 1]
  /\ Upset
  /\ SettleRow(WorkerId(c, i), "failed")
  /\ SetItem(c, i, "failed")
  /\ UNCHANGED <<ledgerVars, call, engineVars, swarm, marks, notified>>

\* Faulty: the worker does not look at a signal that is aborted already.
LaunchDeafWorker(c, i) ==
  /\ item[c][i].state = "launch"
  /\ Launch(<<c, i, 0>>, FALSE)
  /\ SetItem(c, i, "running")
  /\ UNCHANGED <<call, swarm, diskVars, upsets, notified>>

LaunchWorker(c, i) ==
  /\ item[c][i].state = "launch"
  /\ Launch(<<c, i, 0>>, swarm[c].aborted)
  /\ SetItem(c, i, "running")
  /\ UNCHANGED <<call, swarm, diskVars, upsets, notified>>

\* The worker's own row is settled, its debt in the ledger is not claimed.
WorkerReturns(c, i) ==
  LET e == <<c, i, 0>>
      worked == exec[e].completed
  IN
  /\ item[c][i].state = "running" /\ Ended(e)
  /\ Collect(e)
  /\ \/ /\ SettleRow(WorkerId(c, i), Status(worked))
        /\ SetItem(c, i, IF worked THEN WorkedState(c, i) ELSE FailedState(c, i))
        /\ UNCHANGED upsets
     \/ Upset /\ SetItem(c, i, FailedState(c, i)) /\ UNCHANGED row
  /\ UNCHANGED <<ledgerVars, call, handle, swarm, marks, notified>>

LaunchVerifier(c, i) ==
  /\ item[c][i].state = "gate"
  /\ Launch(<<c, i, item[c][i].round>>, swarm[c].aborted)
  /\ SetItem(c, i, "verifying")
  /\ UNCHANGED <<call, swarm, diskVars, upsets, notified>>

\* A verdict; an explicit rejection may send the worker back once.
VerifierReturns(c, i) ==
  LET e == <<c, i, item[c][i].round>> IN
  /\ item[c][i].state = "verifying" /\ Ended(e)
  /\ Collect(e)
  /\ \/ SetItem(c, i, "passed")
     \/ SetItem(c, i, "rejected")
     \/ /\ VerifyRetry /\ item[c][i].round = 1 /\ ~swarm[c].aborted
        /\ item' = [item EXCEPT ![c][i] = [state |-> "starting", round |-> 2]]
  /\ UNCHANGED <<ledgerVars, call, handle, swarm, diskVars, upsets, notified>>

LaunchSynthesizer(c) ==
  /\ swarm[c].phase = "synth"
  /\ Launch(<<c, 0, 1>>, swarm[c].aborted)
  /\ SetPhase(c, "synthesizing")
  /\ UNCHANGED <<call, item, diskVars, upsets, notified>>

SynthesizerReturns(c) ==
  /\ swarm[c].phase = "synthesizing" /\ Ended(<<c, 0, 1>>)
  /\ Collect(<<c, 0, 1>>)
  /\ SetPhase(c, "end")
  /\ UNCHANGED <<ledgerVars, call, handle, item, diskVars, upsets, notified>>

\* allPassed: every task that was started, and at least one, did what was asked.
AllPassed(c) ==
  LET started == {i \in Tasks(c) : item[c][i].state # "queued"}
      good    == IF swarm[c].verify THEN "passed" ELSE "ok"
  IN  started # {} /\ \A i \in started : item[c][i].state = good

SwarmReturns(c) ==
  /\ At(c, "swarm") /\ swarm[c].phase = "end"
  /\ swarm' = [swarm EXCEPT ![c] = NoSwarm]
  /\ item' = [item EXCEPT ![c] = NoItems]
  /\ SettleRun(c, Status(AllPassed(c)), FALSE)
  /\ UNCHANGED <<engineVars, diskVars, upsets, notified>>

-----------------------------------------------------------------------------
(* Stops.                                                                  *)

\* `<id>::` is a prefix of the ids of the workers of a batch, not of its verifiers.
Covers(id, x) == x = id \/ (id = Own(id[1]) /\ x[1] = id[1] /\ WorkerOf(x))

BatchRuns(c) == swarm[c].phase # "off"

\* Every execution of a batch listens to the controller of the batch.
ExecsOf(c) == {e \in IdsOf(c) : e # Own(c) /\ Running(e)}

Abort(es) == exec' = [e \in Ids |-> IF e \in es THEN [exec[e] EXCEPT !.aborted = TRUE] ELSE exec[e]]

\* stopAgent(): the ledger, the engine by id, the batch by its controller, the
\* workers by their prefix, and the mark on disk, which nobody waits for.
StopAgent(id) ==
  LET c == id[1]
      batch == id = Own(c) /\ BatchRuns(c) /\ ~swarm[c].aborted
      runs  == {x \in Ids : Covers(id, x) /\ handle[x] # None}
  IN
  /\ Upset
  /\ Ledger!Live(id) \/ runs # {} \/ batch
  /\ Ledger!RequestCancel(runs \cup {id})
  /\ Abort({handle[x] : x \in runs} \cup (IF batch THEN ExecsOf(c) ELSE {}))
  /\ swarm' = IF batch THEN [swarm EXCEPT ![c].aborted = TRUE] ELSE swarm
  /\ marks' = marks \cup {id}
  /\ UNCHANGED <<call, handle, item, row, notified>>

\* The turn that called the tool is aborted; only a batch listens to it.
ParentAborts(c) ==
  /\ Upset
  /\ BatchRuns(c) /\ ~swarm[c].aborted
  /\ swarm' = [swarm EXCEPT ![c].aborted = TRUE]
  /\ Abort(ExecsOf(c))
  /\ UNCHANGED <<ledgerVars, call, handle, item, diskVars, notified>>

MarkCancelRequested(id) ==
  /\ id \in marks
  /\ marks' = marks \ {id}
  /\ \/ /\ row' = [x \in Ids |-> IF Covers(id, x) /\ row[x] = "running"
                                 THEN "cancel_requested" ELSE row[x]]
        /\ UNCHANGED upsets
     \/ Upset /\ UNCHANGED row
  /\ UNCHANGED <<ledgerVars, call, engineVars, swarmVars, notified>>

-----------------------------------------------------------------------------
Init ==
  /\ Ledger!Init
  /\ call = [c \in Calls |-> NoCall]
  /\ handle = [id \in Ids |-> None]
  /\ exec = [e \in Ids |-> IdleExec]
  /\ swarm = [c \in Calls |-> NoSwarm]
  /\ item = [c \in Calls |-> NoItems]
  /\ row = [id \in Ids |-> "none"]
  /\ marks = {}
  /\ upsets = 0
  /\ notified = [c \in Calls |-> 0]

CallStep(c) ==
  \/ BeginRun(c)
  \/ Reject(c)
  \/ CallDirect(c)
  \/ DirectReturns(c)
  \/ LaunchAgent(c)
  \/ AgentReturns(c)
  \/ Persist(c)
  \/ Notify(c)
  \/ Finally(c)
  \/ StartSwarm(c)
  \/ StartSlice(c)
  \/ EndPhase(c)
  \/ LaunchSynthesizer(c)
  \/ SynthesizerReturns(c)
  \/ SwarmReturns(c)

ItemStep(c, i) ==
  \/ StartWorkerRow(c, i)
  \/ FailClosed(c, i)
  \/ LaunchWorker(c, i)
  \/ WorkerReturns(c, i)
  \/ LaunchVerifier(c, i)
  \/ VerifierReturns(c, i)

Progress(c) ==
  \/ CallStep(c)
  \/ \E i \in 1..MaxTasks : ItemStep(c, i)
  \/ \E e \in IdsOf(c) : EngineEnds(e)

Next ==
  \/ \E c \in Calls : 
       Reserve(c) \/ Throw(c) \/ ResolveFails(c) \/ Progress(c) \/ ParentAborts(c)
  \/ \E id \in Ids : StopAgent(id) \/ MarkCancelRequested(id)

Spec == Init /\ [][Next]_vars

\* The event loop does not rest while there is something to run, and an execution of
\* the engine ends: at the latest its time-out aborts it, and it is taken to heed that.
Fairness == WF_vars(\E c \in Calls : Progress(c))

FairSpec == Spec /\ Fairness

-----------------------------------------------------------------------------
(* Properties.                                                             *)

TypeOK ==
  /\ Ledger!TypeOK
  /\ \A c \in Calls : call[c].keys \in Batches[c] \cup {<<>>}
  /\ handle \in [Ids -> Ids \cup {None}]
  /\ exec \in [Ids -> [state : {"idle", "running", "ended"}, aborted : BOOLEAN, completed : BOOLEAN]]
  /\ row \in [Ids -> {"none", "running", "cancel_requested", "completed", "failed"}]
  /\ marks \subseteq Ids

\* The ledger is used as its own specification allows.
RefinesLedger == Ledger!Spec

AnswersOncePerSettlement == Ledger!AnswersOncePerSettlement
FirstReportStands        == Ledger!FirstReportStands

\* What really runs at one moment, engines and direct calls, stays within the limit of
\* concurrent agents: slots are held through cancellation and in the background, and
\* the workers and verifiers of a batch fit in what the batch reserved.
WithinLimit ==
  Cardinality({e \in Ids : Running(e)}) + Cardinality({c \in Calls : At(c, "direct")}) <= Limit

\* When the session is told that a call has settled, nothing of that call is live in
\* the ledger, so the resumption that asks the ledger is not refused for its sake.
NothingLiveAfterNotice ==
  \A c \in Calls : notified[c] > 0 =>
    \A id \in IdsOf(c) : ~Ledger!Live(id)

\* A run tells its session once, and its row, when it is terminal, says what the
\* ledger says, whichever of engine, tool and catch block came first.
OneNoticeOneVerdict ==
  \A c \in Calls :
    /\ notified[c] <= 1
    /\ row[Own(c)] \in {"completed", "failed"} => row[Own(c)] = settlement[Own(c)].status

\* Once a batch is aborted nothing of it runs on unaware, not even a worker that was
\* writing its row at that moment.
AbortReachesAll ==
  \A c \in Calls : swarm[c].aborted => \A e \in ExecsOf(c) : exec[e].aborted

\* An admitted call comes to its end: it gives its slots back and its session hears of
\* it, whether it was stopped, failed, rejected or run to completion.
EveryRunIsNotified ==
  <>[](\A c \in Calls :
         \/ call[c].pc \in {"idle", "refused"}
         \/ At(c, "done") /\ notified[c] = 1 /\ ~Ledger!Live(Own(c)))

=============================================================================
