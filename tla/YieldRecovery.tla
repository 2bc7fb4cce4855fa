--------------------------- MODULE YieldRecovery ---------------------------
(***************************************************************************)
(* The recovery path of sessions_yield, end to end: the turns of a session *)
(* (streamMessage), the sub-agent runs they spawn (AgentRunLedger,         *)
(* agentLedgerLifecycle.settleRun), the delivery ledger (SettlementOutbox),*)
(* the waits (YieldRegistry), the resumption that a settlement triggers,   *)
(* and what a crash and a restart leave of all that (chat/manager/         *)
(* recovery.ts, shutdown.ts).                                              *)
(*                                                                         *)
(* One execution of notifyYieldSettlement or of the start-up replay is a   *)
(* client of the ledger and, while it delivers, a handler of the registry: *)
(* both components run under the same process name.                        *)
(***************************************************************************)
EXTENDS Integers, FiniteSets, Sequences

CONSTANTS
  Sessions,
  Runs,          \* sub-agent runs; each is its own settlement notification
  Replay,        \* the start-up replay
  None,
  MaxUserTurns,  \* bound: messages a user sends to a session
  MaxRestarts,   \* bound: crashes and restarts
  MaxCleanups,   \* bound: clean shutdowns
  TurnsMayFail,  \* may a turn end with an exception or a lock timeout?
  LogMayFail,    \* may the event log refuse a turn's start or its number?
  \* bounds and parameters of the components
  MaxRowId, MAX_DELIVERY_ATTEMPTS, OUTBOX_MAX_ROWS, StorageMayFail, IndexMayFail,
  MaxWaits, MaxTurn, MaxTime, StoreMayFail

ASSUME RecoveryAssumption ==
  /\ MaxUserTurns \in Nat /\ MaxRestarts \in Nat /\ MaxCleanups \in Nat
  /\ MaxRowId \in Nat /\ MaxWaits \in Nat /\ MaxTurn \in Nat /\ MaxTime \in Nat
  /\ MAX_DELIVERY_ATTEMPTS \in Nat \ {0} /\ OUTBOX_MAX_ROWS \in Nat \ {0}
  /\ {TurnsMayFail, LogMayFail, StorageMayFail, IndexMayFail, StoreMayFail} \subseteq BOOLEAN
  /\ Replay \notin Runs
  /\ {"user", "none"} \cap (Runs \cup {Replay}) = {}
  /\ None \notin Sessions /\ None \notin Sessions \X (0..MaxTime)

VARIABLES
  outbox, indexed, lastId, client,               \* SettlementOutbox
  entries, waiting, lastWait, resumer, claims,   \* YieldRegistry
  now,         \* Date.now()
  run,         \* run -> its state and the session that spawned it
  turn,        \* session -> the running turn and the latest turn number in its log
  handled,     \* client -> how the turn it resumed went
  installed,   \* are listener, resume handler and probe in place?
  replayDue,   \* has the installation still to start its replay?
  restarts, cleanups, userTurns,   \* counters of the bounds
  resumed,     \* history: wait -> the life and the settlement of each resumed turn it got
  armed        \* history: wait -> its turn, and the runs live when it was armed

Clients == Runs \cup {Replay}

outboxVars   == <<outbox, indexed, lastId, client>>
registryVars == <<entries, waiting, lastWait, resumer, claims>>
hostVars     == <<run, turn, handled, installed, replayDue>>
boundVars    == <<now, restarts, cleanups, userTurns>>
historyVars  == <<resumed, armed>>
vars         == <<outboxVars, registryVars, hostVars, boundVars, historyVars>>

Outbox == INSTANCE SettlementOutbox WITH
            Notifiers <- Runs, Replayers <- {Replay}, Keys <- Sessions \X (0..MaxTime)

Registry == INSTANCE YieldRegistry WITH Resumers <- Clients

\* unborn, live (running or cancel_requested), settled in the ledger, notifying
\* (its client runs), lost with the process that ran it.
RunState == {"unborn", "live", "settled", "notifying", "lost"}

NewTurn(owner, latest) ==
  [ owner |-> owner, latest |-> latest, tools |-> FALSE, yielded |-> FALSE ]

NoTurn(latest) == NewTurn("none", latest)

-----------------------------------------------------------------------------
Running(s) == turn[s].owner # "none"

HasActiveRuns(s) == \E r \in Runs : run[r].session = s /\ run[r].state = "live"

SessionOf(c) == client[c].key[1]
EndedAt(c)   == client[c].key[2]

-----------------------------------------------------------------------------
(* Turns.  A turn holds its session's mutex from turn/start to the end.    *)

\* turn/start gives the turn the next number of the log, unless it cannot be written.
StartTurn(s, owner) ==
  /\ ~Running(s)
  /\ turn[s].latest < MaxTurn
  /\ \/ turn' = [turn EXCEPT ![s] = NewTurn(owner, @.latest + 1)]
     \/ LogMayFail /\ turn' = [turn EXCEPT ![s] = NewTurn(owner, @.latest)]

\* ensureYieldResumerInstalled, at the entry of every message: it starts a replay if
\* the resumer was not in place.
Install ==
  /\ installed' = TRUE
  /\ replayDue' = (replayDue \/ ~installed)

\* A message of the user enters, and its turn gets the mutex.  A clean-up between the
\* two takes the resumer out again.
UserTurn(s) ==
  /\ userTurns[s] < MaxUserTurns
  /\ StartTurn(s, "user")
  /\ Install \/ UNCHANGED <<installed, replayDue>>
  /\ userTurns' = [userTurns EXCEPT ![s] = @ + 1]
  /\ UNCHANGED <<outboxVars, registryVars, run, handled, now, restarts, cleanups, historyVars>>

\* A message that enters and never gets the mutex.
MessageFails(s) ==
  /\ TurnsMayFail
  /\ ~installed /\ Install
  /\ userTurns[s] < MaxUserTurns
  /\ userTurns' = [userTurns EXCEPT ![s] = @ + 1]
  /\ UNCHANGED <<outboxVars, registryVars, run, turn, handled, now, restarts, cleanups, historyVars>>

\* The turn calls a tool that starts a run in the background.
SpawnRun(s, r) ==
  /\ Running(s) /\ ~turn[s].yielded
  /\ run[r].state = "unborn"
  /\ run' = [run EXCEPT ![r] = [state |-> "live", session |-> s]]
  /\ turn' = [turn EXCEPT ![s].tools = TRUE]
  /\ UNCHANGED <<outboxVars, registryVars, handled, installed, replayDue, boundVars, historyVars>>

\* Any other tool call, a refused sessions_yield included.
UseTool(s) ==
  /\ Running(s) /\ ~turn[s].yielded /\ ~turn[s].tools
  /\ turn' = [turn EXCEPT ![s].tools = TRUE]
  /\ UNCHANGED <<outboxVars, registryVars, run, handled, installed, replayDue, boundVars, historyVars>>

\* A successful sessions_yield: registered only if the probe, while it is in
\* place, sees a live run.  The loop stops after it.
Yield(s) ==
  /\ Running(s) /\ ~turn[s].yielded
  /\ installed => HasActiveRuns(s)
  /\ Registry!Register(s, now)
  /\ turn' = [turn EXCEPT ![s].tools = TRUE, ![s].yielded = TRUE]
  /\ armed' = [armed EXCEPT ![lastWait + 1] =
       [ turn |-> turn[s].latest,
         runs |-> {r \in Runs : run[r].session = s /\ run[r].state = "live"} ]]
  /\ UNCHANGED <<outboxVars, run, handled, installed, replayDue, boundVars, resumed>>

HandledBy(owner, how) ==
  handled' = IF owner \in Clients THEN [handled EXCEPT ![owner] = how] ELSE handled

\* The number of the turn that ends is read from the log; a log without one is
\* stood in for by a counter that begins with 1.
Number(s) == IF turn[s].latest = 0 THEN 1 ELSE turn[s].latest

\* _finalizeStreamMessage: a turn that used tools fills its number into the wait
\* of its session, if one is waiting; if the log cannot be read nothing is filled in.
FillTurn(s) ==
  IF turn[s].tools /\ Registry!Waiting(s)
  THEN Registry!UpdateTurn(s, Number(s)) \/ (LogMayFail /\ UNCHANGED registryVars)
  ELSE UNCHANGED registryVars

EndTurn(s, how) ==
  /\ Running(s)
  /\ HandledBy(turn[s].owner, how)
  /\ turn' = [turn EXCEPT ![s] = NoTurn(@.latest)]
  /\ UNCHANGED <<outboxVars, run, installed, replayDue, boundVars, historyVars>>

FinishTurn(s) == EndTurn(s, "ok") /\ FillTurn(s)

\* An exception before the number is filled in, or after.
FailTurn(s) ==
  /\ TurnsMayFail
  /\ EndTurn(s, "failed")
  /\ UNCHANGED registryVars \/ FillTurn(s)

-----------------------------------------------------------------------------
(* Runs end: the ledger settles, then settleRun persists and notifies.     *)

SettleRun(r) ==
  /\ run[r].state = "live"
  /\ run' = [run EXCEPT ![r].state = "settled"]
  /\ UNCHANGED <<outboxVars, registryVars, turn, handled, installed, replayDue, boundVars, historyVars>>

NotifySettlement(r) ==
  /\ run[r].state = "settled"
  /\ Outbox!EnqueueCheck(r, <<run[r].session, now>>)
  /\ run' = [run EXCEPT ![r].state = "notifying"]
  /\ UNCHANGED <<registryVars, turn, handled, installed, replayDue, boundVars, historyVars>>

-----------------------------------------------------------------------------
(* The ledger's own steps.                                                 *)

LedgerStep(c) ==
  /\ \/ Outbox!EnqueueInsert(c)
     \/ Outbox!EnqueuePrune(c)
     \/ Outbox!EnqueueRejected(c)
     \/ Outbox!EnqueueReread(c)
     \/ Outbox!Claim(c)
     \/ Outbox!ReplayClaim(c)
     \/ Outbox!ReplayEnd(c)
     \/ Outbox!LookBack(c)
     \/ Outbox!Mark(c)
  /\ UNCHANGED <<registryVars, hostVars, boundVars, historyVars>>

LedgerFails(c) ==
  /\ Outbox!StorageFails(c)
  /\ UNCHANGED <<registryVars, hostVars, boundVars, historyVars>>

\* The replay an installation starts; it may find nothing to do.
StartReplay ==
  /\ replayDue
  /\ client[Replay].pc = "idle"
  /\ IF Outbox!Replayable = {} THEN UNCHANGED outboxVars ELSE Outbox!ReplayList(Replay)
  /\ replayDue' = FALSE
  /\ UNCHANGED <<registryVars, run, turn, handled, installed, boundVars, historyVars>>

ClaimGoesStale ==
  /\ \E i \in 1..MaxRowId : Outbox!ClaimGoesStale(i)
  /\ UNCHANGED <<registryVars, hostVars, boundVars, historyVars>>

-----------------------------------------------------------------------------
(* A delivery.  A notification reaches the resumer through the listeners;  *)
(* the replay calls it itself, if the session is waiting at all.           *)

Delivering(c) == client[c].pc = "deliver" /\ resumer[c].pc = "idle"

\* Faulty: a notification nobody listens to gives its row up.
AbandonUnheard(c) ==
  /\ Delivering(c)
  /\ \/ c \in Runs  /\ ~installed
     \/ c = Replay  /\ ~Registry!Waiting(SessionOf(c))
  /\ client' = [client EXCEPT ![c].pc = "mark", ![c].verdict = "abandon"]
  /\ UNCHANGED <<outbox, indexed, lastId, registryVars, hostVars, boundVars, historyVars>>

DeliverToNobody(c) ==
  /\ Delivering(c)
  /\ \/ c \in Runs  /\ ~installed                       /\ Outbox!Deliver(c, "nack")
     \/ c = Replay  /\ ~Registry!Waiting(SessionOf(c))  /\ Outbox!Deliver(c, "abandon")
  /\ UNCHANGED <<registryVars, hostVars, boundVars, historyVars>>

DeliverToResumer(c) ==
  /\ Delivering(c)
  /\ \/ c \in Runs  /\ installed
     \/ c = Replay  /\ Registry!Waiting(SessionOf(c))
  /\ Registry!Begin(c, SessionOf(c), EndedAt(c), turn[SessionOf(c)].latest, c = Replay)
  /\ UNCHANGED <<outboxVars, hostVars, boundVars, historyVars>>

\* The latest turn was read at some moment of the await.
Judge(c) ==
  LET s == resumer[c].session IN
  /\ resumer[c].pc = "judge"
  /\ \E latest \in resumer[c].latest .. turn[s].latest :
       \/ Registry!Refuse(c, latest, HasActiveRuns(s), installed)
       \/ Registry!ClaimWait(c, latest, HasActiveRuns(s), installed)
  /\ UNCHANGED <<outboxVars, hostVars, boundVars, historyVars>>

\* resumeSessionInternally enters a message of its own ...
CallHandler(c) ==
  /\ Registry!StartResume(c)
  /\ Install
  /\ UNCHANGED <<outboxVars, run, turn, handled, boundVars, historyVars>>

\* ... whose turn gets the mutex ...
ResumeTurn(c) ==
  LET s == resumer[c].session IN
  /\ resumer[c].pc = "resuming" /\ handled[c] = "none"
  /\ StartTurn(s, c)
  /\ handled' = [handled EXCEPT ![c] = "running"]
  /\ resumed' = [resumed EXCEPT ![resumer[c].wait] =
       Append(@, [life |-> restarts, key |-> <<s, resumer[c].endedAt>>])]
  /\ UNCHANGED <<outboxVars, registryVars, run, installed, replayDue, boundVars, armed>>

\* ... or does not get it within 30 seconds.
ResumeTimesOut(c) ==
  /\ TurnsMayFail
  /\ resumer[c].pc = "resuming" /\ handled[c] = "none"
  /\ Running(resumer[c].session)
  /\ handled' = [handled EXCEPT ![c] = "failed"]
  /\ UNCHANGED <<outboxVars, registryVars, run, turn, installed, replayDue, boundVars, historyVars>>

\* Faulty: a failed resumption does not abandon its wait.
FinishIfResumed(c) ==
  /\ handled[c] \in {"ok", "failed"}
  /\ IF handled[c] = "ok"
     THEN Registry!Finish(c, TRUE)
     ELSE /\ resumer' = [resumer EXCEPT ![c].pc = "return"]
          /\ UNCHANGED <<entries, waiting, lastWait, claims>>
  /\ handled' = [handled EXCEPT ![c] = "none"]
  /\ UNCHANGED <<outboxVars, run, turn, installed, replayDue, boundVars, historyVars>>

FinishResume(c) ==
  /\ handled[c] \in {"ok", "failed"}
  /\ Registry!Finish(c, handled[c] = "ok")
  /\ handled' = [handled EXCEPT ![c] = "none"]
  /\ UNCHANGED <<outboxVars, run, turn, installed, replayDue, boundVars, historyVars>>

\* Faulty: a settlement is acknowledged because it was heard.
AcknowledgeHeard(c) ==
  /\ Registry!Return(c)
  /\ Outbox!Deliver(c, "ack")
  /\ UNCHANGED <<hostVars, boundVars, historyVars>>

\* handleYieldSettlement returns: its answer is the acknowledgement.
Acknowledge(c) ==
  /\ Registry!Return(c)
  /\ Outbox!Deliver(c, IF resumer[c].ack THEN "ack" ELSE "nack")
  /\ UNCHANGED <<hostVars, boundVars, historyVars>>

-----------------------------------------------------------------------------
(* The process.                                                            *)

Tick ==
  /\ now < MaxTime
  /\ now' = now + 1
  /\ UNCHANGED <<outboxVars, registryVars, hostVars, restarts, cleanups, userTurns, historyVars>>

\* cleanupHost: the resumer is taken out and the waits are cleared, on disk too.
\* What is in flight goes on, and the next message puts the resumer back.
Cleanup ==
  /\ cleanups < MaxCleanups
  /\ installed' = FALSE
  /\ Registry!Clear
  /\ cleanups' = cleanups + 1
  /\ UNCHANGED <<outboxVars, run, turn, handled, replayDue, now, restarts, userTurns, historyVars>>

\* The process dies at any moment; the next one rebuilds the waits before it
\* installs the resumer and accepts messages (bootstrapYieldRecovery).
Restart ==
  /\ restarts < MaxRestarts
  /\ restarts' = restarts + 1
  /\ Outbox!Crash
  /\ Registry!Restart
  /\ run' = [r \in Runs |-> IF run[r].state \in {"live", "settled"}
                            THEN [run[r] EXCEPT !.state = "lost"] ELSE run[r]]
  /\ turn' = [s \in Sessions |-> NoTurn(turn[s].latest)]
  /\ handled' = [c \in Clients |-> "none"]
  /\ installed' = TRUE
  /\ replayDue' = TRUE
  /\ UNCHANGED <<now, cleanups, userTurns, historyVars>>

-----------------------------------------------------------------------------
Init ==
  /\ Outbox!Init
  /\ Registry!Init
  /\ now = 0
  /\ run = [r \in Runs |-> [state |-> "unborn", session |-> None]]
  /\ turn = [s \in Sessions |-> NoTurn(0)]
  /\ handled = [c \in Clients |-> "none"]
  /\ installed = TRUE
  /\ replayDue = FALSE
  /\ restarts = 0 /\ cleanups = 0
  /\ userTurns = [s \in Sessions |-> 0]
  /\ resumed = [w \in 1..MaxWaits |-> <<>>]
  /\ armed = [w \in 1..MaxWaits |-> [turn |-> 0, runs |-> {}]]

TurnStep(s) == Yield(s) \/ FinishTurn(s) \/ FailTurn(s)

RunStep(r) == SettleRun(r) \/ NotifySettlement(r)

ClientStep(c) ==
  \/ LedgerStep(c)
  \/ DeliverToNobody(c)
  \/ DeliverToResumer(c)
  \/ Judge(c)
  \/ CallHandler(c)
  \/ ResumeTurn(c)
  \/ ResumeTimesOut(c)
  \/ FinishResume(c)
  \/ Acknowledge(c)

Next ==
  \/ \E s \in Sessions :
       \/ UserTurn(s) \/ MessageFails(s)
       \/ \E r \in Runs : SpawnRun(s, r)
       \/ UseTool(s)
       \/ TurnStep(s)
  \/ \E r \in Runs : RunStep(r)
  \/ \E c \in Clients : ClientStep(c) \/ LedgerFails(c)
  \/ StartReplay
  \/ ClaimGoesStale
  \/ Tick
  \/ Cleanup
  \/ Restart

Spec == Init /\ [][Next]_vars

\* Runs and turns end, and what the event loop has been given is executed.
\* Nothing obliges a user to write, a turn to use tools, or the process to die.
Fairness ==
  /\ \A s \in Sessions : WF_vars(FinishTurn(s))
  /\ \A r \in Runs     : WF_vars(RunStep(r))
  /\ \A c \in Clients  : WF_vars(ClientStep(c))
  /\ WF_vars(StartReplay)
  /\ WF_vars(ClaimGoesStale)

FairSpec == Spec /\ Fairness

-----------------------------------------------------------------------------
(* Properties.                                                             *)

TypeOK ==
  /\ Outbox!TypeOK
  /\ Registry!TypeOK
  /\ now \in 0..MaxTime
  /\ run \in [Runs -> [state : RunState, session : Sessions \cup {None}]]
  /\ turn \in [Sessions -> [ owner : Clients \cup {"user", "none"}, latest : 0..MaxTurn,
                             tools : BOOLEAN, yielded : BOOLEAN ]]
  /\ handled \in [Clients -> {"none", "running", "ok", "failed"}]
  /\ installed \in BOOLEAN /\ replayDue \in BOOLEAN

\* The composition uses each component as that component's own specification
\* allows, so what is shown of the components holds of the whole.
RefinesOutbox   == Outbox!Spec
RefinesRegistry == Registry!Spec

\* A yield is answered by at most one resumed turn in one life of the process,
\* whatever settlements, replays, user messages and further yields interleave.
ResumedOncePerLife ==
  \A w \in 1..MaxWaits : \A i, j \in DOMAIN resumed[w] :
    i # j => resumed[w][i].life # resumed[w][j].life

\* The parent goes on only when every run that was live at its yield has ended:
\* a settlement judged while another run is active, or judged against a newer wait,
\* resumes nothing.
ResumedAfterItsRuns ==
  \A w \in 1..MaxWaits : resumed[w] # <<>> =>
    \A r \in armed[w].runs : run[r].state # "live"

\* A turn was resumed for the settlement k.
Heard(k) == \E w \in 1..MaxWaits : \E j \in DOMAIN resumed[w] : resumed[w][j].key = k

\* A settlement counts as delivered only if its session was resumed for it: a signal
\* that was refused, lost its race for the wait or for the mutex, found its wait
\* replaced or cleared, or met a crash stays to be delivered again or is given up.
DeliveredWasHeard ==
  \A i \in DOMAIN outbox : outbox[i].state = "delivered" => Heard(outbox[i].key)

\* A yielded session is not left waiting for ever: when every run has ended its wait
\* is answered or given up, whichever notification comes first, is refused, or loses
\* its turn to the lock timeout (no crash, no further message of the user).
EveryWaitSettles ==
  \A s \in Sessions, w \in 1..MaxWaits :
    (entries[s].wait = w) ~> (entries[s].wait # w)

\* What the comment of isSuperseded() says ("本轮 turn 已推进 => 旧登记不得复用"): a wait
\* whose session had begun a later turn before the settlement was judged is not
\* handed out.
SupersededIsNotReused ==
  [][\A c \in Clients : resumer[c].pc = "judge" /\ resumer'[c].pc = "claimed" =>
       resumer[c].latest = armed[resumer[c].wait].turn]_vars

=============================================================================
