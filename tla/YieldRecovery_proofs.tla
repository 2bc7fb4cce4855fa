------------------------ MODULE YieldRecovery_proofs ------------------------
(* Proofs about the recovery path: it implements the ledger and the        *)
(* registry, so it inherits what is proved of them, and with that it       *)
(* resumes a wait once per life and only after the runs it waited for.     *)
EXTENDS YieldRecovery, TLAPS

\* The proof modules of the components, for the constants of the composition.
OutboxP == INSTANCE SettlementOutbox_proofs WITH
             Notifiers <- Runs, Replayers <- {Replay}, Keys <- Sessions \X (0..MaxTime)

RegistryP == INSTANCE YieldRegistry_proofs WITH Resumers <- Clients

-----------------------------------------------------------------------------
(* An instance of a proof module has definitions of its own: those of the  *)
(* actions say the same as those of the instances in YieldRecovery.        *)

LEMMA ComponentAssumptions == OutboxP!OutboxAssumption /\ RegistryP!RegistryAssumption
  BY RecoveryAssumption DEF OutboxP!OutboxAssumption, RegistryP!RegistryAssumption

LEMMA SameCardinality == ASSUME NEW S PROVE Outbox!Cardinality(S) = OutboxP!Cardinality(S)
  BY DEF Outbox!Cardinality, OutboxP!Cardinality

LEMMA SameLatestLive == ASSUME NEW k PROVE Outbox!LatestLive(k) = OutboxP!LatestLive(k)
<1>1. Outbox!LiveRowsOf(k) = OutboxP!LiveRowsOf(k)
  BY DEF Outbox!LiveRowsOf, OutboxP!LiveRowsOf, Outbox!Live, OutboxP!Live, Outbox!Rows,
         OutboxP!Rows, Outbox!Terminal, OutboxP!Terminal
<1>2. QED BY <1>1 DEF Outbox!LatestLive, OutboxP!LatestLive

LEMMA SamePruned == ASSUME NEW rows PROVE Outbox!Pruned(rows) = OutboxP!Pruned(rows)
<1>1. Outbox!Kept(rows) = OutboxP!Kept(rows)
  BY SameCardinality DEF Outbox!Kept, OutboxP!Kept
<1>2. QED BY <1>1 DEF Outbox!Pruned, OutboxP!Pruned

LEMMA SameIndexMade == Outbox!IndexMade = OutboxP!IndexMade
BY DEF Outbox!IndexMade, OutboxP!IndexMade

LEMMA SameLedger == Outbox!Next => OutboxP!Next
<1> USE DEF Outbox!Rows, OutboxP!Rows, Outbox!Live, OutboxP!Live, Outbox!Terminal,
            OutboxP!Terminal, Outbox!Idle, OutboxP!Idle, Outbox!Clients, OutboxP!Clients,
            Outbox!LiveRowsOf, OutboxP!LiveRowsOf, Outbox!NewRow, OutboxP!NewRow,
            Outbox!Claimable, OutboxP!Claimable, Outbox!ClaimRow, OutboxP!ClaimRow,
            Outbox!WriteState, OutboxP!WriteState, Outbox!RowDone, OutboxP!RowDone
<1>1. ASSUME NEW c, NEW k PROVE Outbox!EnqueueCheck(c, k) => OutboxP!EnqueueCheck(c, k)
  <2>1. Outbox!IdLeft <=> OutboxP!IdLeft
    BY SameCardinality DEF Outbox!IdLeft, OutboxP!IdLeft
  <2>2. QED BY <2>1, SameLatestLive DEF Outbox!EnqueueCheck, OutboxP!EnqueueCheck
<1>2. ASSUME NEW c PROVE Outbox!EnqueueInsert(c) => OutboxP!EnqueueInsert(c)
  BY DEF Outbox!EnqueueInsert, OutboxP!EnqueueInsert, Outbox!IndexRejects, OutboxP!IndexRejects
<1>3. ASSUME NEW c PROVE Outbox!EnqueueRejected(c) => OutboxP!EnqueueRejected(c)
  BY DEF Outbox!EnqueueRejected, OutboxP!EnqueueRejected, Outbox!IndexRejects, OutboxP!IndexRejects
<1>4. ASSUME NEW c PROVE Outbox!EnqueueReread(c) => OutboxP!EnqueueReread(c)
  BY SameLatestLive DEF Outbox!EnqueueReread, OutboxP!EnqueueReread
<1>5. ASSUME NEW c PROVE Outbox!EnqueuePrune(c) => OutboxP!EnqueuePrune(c)
  BY SamePruned DEF Outbox!EnqueuePrune, OutboxP!EnqueuePrune
<1>6. ASSUME NEW c PROVE Outbox!Claim(c) => OutboxP!Claim(c)
  BY DEF Outbox!Claim, OutboxP!Claim
<1>7. ASSUME NEW c PROVE Outbox!ReplayList(c) => OutboxP!ReplayList(c)
  BY DEF Outbox!ReplayList, OutboxP!ReplayList, Outbox!Replayable, OutboxP!Replayable
<1>8. ASSUME NEW c PROVE Outbox!ReplayClaim(c) => OutboxP!ReplayClaim(c)
  BY DEF Outbox!ReplayClaim, OutboxP!ReplayClaim
<1>9. ASSUME NEW c PROVE Outbox!ReplayEnd(c) => OutboxP!ReplayEnd(c)
  BY DEF Outbox!ReplayEnd, OutboxP!ReplayEnd
<1>10. ASSUME NEW c PROVE Outbox!LookBack(c) => OutboxP!LookBack(c)
  BY DEF Outbox!LookBack, OutboxP!LookBack, Outbox!LookedBack, OutboxP!LookedBack,
         Outbox!Exhausted, OutboxP!Exhausted
<1>11. ASSUME NEW c, NEW v PROVE Outbox!Deliver(c, v) => OutboxP!Deliver(c, v)
  BY DEF Outbox!Deliver, OutboxP!Deliver
<1>12. ASSUME NEW c PROVE Outbox!Mark(c) => OutboxP!Mark(c)
  BY DEF Outbox!Mark, OutboxP!Mark, Outbox!StateOf, OutboxP!StateOf
<1>13. ASSUME NEW c PROVE Outbox!StorageFails(c) => OutboxP!StorageFails(c)
  BY DEF Outbox!StorageFails, OutboxP!StorageFails
<1>14. ASSUME NEW i PROVE /\ Outbox!ClaimGoesStale(i) => OutboxP!ClaimGoesStale(i)
                          /\ Outbox!RowAges(i) => OutboxP!RowAges(i)
  BY DEF Outbox!ClaimGoesStale, OutboxP!ClaimGoesStale, Outbox!RowAges, OutboxP!RowAges
<1>15. Outbox!Crash => OutboxP!Crash
  <2>1. Outbox!Collapsed = OutboxP!Collapsed
    BY SameLatestLive DEF Outbox!Collapsed, OutboxP!Collapsed
  <2>2. QED BY <2>1, SameIndexMade DEF Outbox!Crash, OutboxP!Crash
<1>16. ASSUME NEW c PROVE Outbox!ClientStep(c) => OutboxP!ClientStep(c)
  BY <1>2, <1>3, <1>4, <1>5, <1>6, <1>8, <1>9, <1>10, <1>11, <1>12
  DEF Outbox!ClientStep, OutboxP!ClientStep, Outbox!Verdicts, OutboxP!Verdicts
<1> HIDE DEF Outbox!Rows, OutboxP!Rows, Outbox!Live, OutboxP!Live
<1>17. QED
  BY <1>1, <1>7, <1>13, <1>14, <1>15, <1>16
  DEF Outbox!Next, OutboxP!Next, Outbox!RowIds, OutboxP!RowIds

LEMMA SameRegistry == Registry!Next => RegistryP!Next
<1> USE DEF Registry!Waiting, RegistryP!Waiting, Registry!Persist, RegistryP!Persist,
            Registry!ToRecord, RegistryP!ToRecord, Registry!NoEntry, RegistryP!NoEntry,
            Registry!NoRecord, RegistryP!NoRecord, Registry!IdleResumer,
            RegistryP!IdleResumer, Registry!Turns, RegistryP!Turns
<1>1. ASSUME NEW s, NEW t PROVE Registry!Register(s, t) => RegistryP!Register(s, t)
  BY DEF Registry!Register, RegistryP!Register
<1>2. ASSUME NEW s, NEW t PROVE Registry!UpdateTurn(s, t) => RegistryP!UpdateTurn(s, t)
  BY DEF Registry!UpdateTurn, RegistryP!UpdateTurn
<1>3. ASSUME NEW c, NEW s, NEW e, NEW l, NEW r
      PROVE  Registry!Begin(c, s, e, l, r) => RegistryP!Begin(c, s, e, l, r)
  BY DEF Registry!Begin, RegistryP!Begin
<1>4. ASSUME NEW c PROVE Registry!Handle(c) => RegistryP!Handle(c)
  BY DEF Registry!Handle, RegistryP!Handle, Registry!Refuse, RegistryP!Refuse,
         Registry!ShouldResume, RegistryP!ShouldResume, Registry!IsSuperseded,
         RegistryP!IsSuperseded, Registry!CanClaim, RegistryP!CanClaim, Registry!ClaimWait,
         RegistryP!ClaimWait, Registry!StartResume, RegistryP!StartResume, Registry!Finish,
         RegistryP!Finish, Registry!Recorded, RegistryP!Recorded, Registry!Return,
         RegistryP!Return
<1>5. Registry!Clear => RegistryP!Clear
  BY DEF Registry!Clear, RegistryP!Clear
<1>6. Registry!Restart => RegistryP!Restart
  BY DEF Registry!Restart, RegistryP!Restart, Registry!ToEntry, RegistryP!ToEntry,
         Registry!Waits, RegistryP!Waits
<1>7. QED
  BY <1>1, <1>2, <1>3, <1>4, <1>5, <1>6
  DEF Registry!Next, RegistryP!Next, Registry!Times, RegistryP!Times

-----------------------------------------------------------------------------
(* What the host knows: types, which key a client delivers, which turn     *)
(* runs.                                                                   *)

Keys == Sessions \X (0..MaxTime)

HostOK ==
  /\ now \in 0..MaxTime
  /\ restarts \in Nat
  /\ run \in [Runs -> [state : RunState, session : Sessions \cup {None}]]
  /\ \A r \in Runs : run[r].state # "unborn" => run[r].session \in Sessions
  /\ turn \in [Sessions -> [ owner : Clients \cup {"user", "none"}, latest : 0..MaxTurn,
                             tools : BOOLEAN, yielded : BOOLEAN ]]
  /\ \A s \in Sessions : Running(s) => MaxTurn # 0
  /\ handled \in [Clients -> {"none", "running", "ok", "failed"}]
  /\ installed \in BOOLEAN /\ replayDue \in BOOLEAN

\* A delivery knows its session and its time: a notification from the start, a
\* replay from the row it was granted.
DeliversKnown ==
  /\ \A r \in Runs : /\ client[r].pc # "replay"
                     /\ client[r].pc # "idle" => client[r].key \in Keys
  /\ client[Replay].pc \in {"idle", "replay", "look", "deliver", "mark"}
  /\ \/ client[Replay].pc = "look" /\ client[Replay].granted
     \/ client[Replay].pc = "deliver"
     => client[Replay].key \in Keys

LEMMA StartTurnOK ==
  ASSUME HostOK, NEW s \in Sessions, NEW owner \in Clients \cup {"user"}, StartTurn(s, owner)
  PROVE  /\ turn' \in [Sessions -> [ owner : Clients \cup {"user", "none"}, latest : 0..MaxTurn,
                                     tools : BOOLEAN, yielded : BOOLEAN ]]
         /\ \A t \in Sessions : Running(t)' => MaxTurn # 0
         /\ turn'[s].owner = owner
         /\ \A t \in Sessions \ {s} : turn'[t] = turn[t]
<1>1. turn[s].latest \in 0..MaxTurn /\ turn[s].latest + 1 \in 0..MaxTurn /\ MaxTurn # 0
  BY RecoveryAssumption DEF HostOK, StartTurn
<1>2. PICK latest \in 0..MaxTurn :
        turn' = [turn EXCEPT ![s] = [ owner |-> owner, latest |-> latest,
                                      tools |-> FALSE, yielded |-> FALSE ]]
  BY <1>1 DEF StartTurn, NewTurn
<1>3. QED BY <1>1, <1>2 DEF HostOK, Running

\* A turn that is over: nobody owns it and its number stays.
LEMMA NoTurnType ==
  ASSUME NEW latest \in 0..MaxTurn
  PROVE  /\ NoTurn(latest) \in [ owner : Clients \cup {"user", "none"}, latest : 0..MaxTurn,
                                  tools : BOOLEAN, yielded : BOOLEAN ]
         /\ NoTurn(latest).owner = "none"
  BY DEF NoTurn, NewTurn

LEMMA HostKept == HostOK /\ RegistryP!HandlerKnows /\ [Next]_vars => HostOK'
<1> SUFFICES ASSUME HostOK, RegistryP!HandlerKnows, [Next]_vars PROVE HostOK'
  OBVIOUS
<1> USE DEF HostOK, RunState
<1>1. CASE UNCHANGED vars
  BY <1>1 DEF vars, hostVars, boundVars, Running
<1>2. ASSUME NEW s \in Sessions, UserTurn(s) \/ MessageFails(s) PROVE HostOK'
  <2>1. CASE UserTurn(s)
    BY <2>1, StartTurnOK DEF UserTurn, Install
  <2>2. CASE MessageFails(s)
    BY <2>2 DEF MessageFails, Install, Running
  <2>3. QED BY <1>2, <2>1, <2>2
<1>3. ASSUME NEW s \in Sessions, NEW r \in Runs, SpawnRun(s, r) PROVE HostOK'
  BY <1>3 DEF SpawnRun, boundVars, Running
<1>4. ASSUME NEW s \in Sessions, UseTool(s) PROVE HostOK'
  BY <1>4 DEF UseTool, boundVars, Running
<1>5. ASSUME NEW s \in Sessions, Yield(s) PROVE HostOK'
  BY <1>5 DEF Yield, boundVars, Running
<1>6. ASSUME NEW s \in Sessions, FinishTurn(s) \/ FailTurn(s) PROVE HostOK'
  <2>1. turn' = [turn EXCEPT ![s] = NoTurn(turn[s].latest)]
    BY <1>6 DEF FinishTurn, FailTurn, EndTurn
  <2>2. turn[s].latest \in 0..MaxTurn
    OBVIOUS
  <2>3. handled' \in [Clients -> {"none", "running", "ok", "failed"}]
    BY <1>6 DEF FinishTurn, FailTurn, EndTurn, HandledBy
  <2>4. UNCHANGED <<run, installed, replayDue, now, restarts>>
    BY <1>6 DEF FinishTurn, FailTurn, EndTurn, boundVars
  <2>5. QED BY <2>1, <2>2, <2>3, <2>4, NoTurnType DEF Running
<1>7. ASSUME NEW r \in Runs, SettleRun(r) \/ NotifySettlement(r) PROVE HostOK'
  BY <1>7 DEF SettleRun, NotifySettlement, boundVars, Running
<1>8. ASSUME NEW c \in Clients,
             \/ LedgerStep(c) \/ LedgerFails(c) \/ DeliverToNobody(c) \/ DeliverToResumer(c)
             \/ Judge(c) \/ CallHandler(c) \/ Acknowledge(c)
      PROVE  HostOK'
  BY <1>8 DEF LedgerStep, LedgerFails, DeliverToNobody, DeliverToResumer, Judge, CallHandler,
              Acknowledge, Install, hostVars, boundVars, Running
<1>9. ASSUME NEW c \in Clients, ResumeTurn(c) PROVE HostOK'
  <2>1. resumer[c].session \in Sessions
    BY <1>9 DEF ResumeTurn, RegistryP!HandlerKnows
  <2>2. QED BY <1>9, <2>1, StartTurnOK DEF ResumeTurn, boundVars
<1>10. ASSUME NEW c \in Clients, ResumeTimesOut(c) \/ FinishResume(c) PROVE HostOK'
  BY <1>10 DEF ResumeTimesOut, FinishResume, boundVars, Running
<1>11. CASE StartReplay \/ ClaimGoesStale
  BY <1>11 DEF StartReplay, ClaimGoesStale, hostVars, boundVars, Running
<1>12. CASE Tick \/ Cleanup
  <2>1. CASE Tick
    BY <2>1, RecoveryAssumption DEF Tick, hostVars, Running
  <2>2. CASE Cleanup
    BY <2>2 DEF Cleanup, Running
  <2>3. QED BY <1>12, <2>1, <2>2
<1>13. CASE Restart
  <2>1. \A s \in Sessions : turn[s].latest \in 0..MaxTurn
    OBVIOUS
  <2>2. turn' = [s \in Sessions |-> NoTurn(turn[s].latest)]
    BY <1>13 DEF Restart
  <2>3. /\ turn' \in [Sessions -> [ owner : Clients \cup {"user", "none"}, latest : 0..MaxTurn,
                                     tools : BOOLEAN, yielded : BOOLEAN ]]
        /\ \A s \in Sessions : ~Running(s)'
    BY <2>1, <2>2, NoTurnType DEF Running
  <2>4. run' \in [Runs -> [state : RunState, session : Sessions \cup {None}]]
        /\ \A r \in Runs : run'[r].state # "unborn" => run'[r].session \in Sessions
    BY <1>13 DEF Restart
  <2>5. QED BY <1>13, <2>3, <2>4 DEF Restart
<1>14. QED
  BY <1>1, <1>2, <1>3, <1>4, <1>5, <1>6, <1>7, <1>8, <1>9, <1>10, <1>11, <1>12, <1>13
  DEF Next, TurnStep, RunStep, ClientStep

-----------------------------------------------------------------------------
(* Every step is a step of the ledger, or leaves it alone.                 *)

LEMMA LedgerStepMaps ==
  ASSUME NEW c \in Clients, LedgerStep(c) \/ LedgerFails(c) PROVE Outbox!Next
BY DEF LedgerStep, LedgerFails, Outbox!Next, Outbox!ClientStep, Outbox!Clients, Clients

LEMMA DeliverMaps ==
  ASSUME NEW c \in Clients, NEW v \in {"ack", "nack", "abandon"}, Outbox!Deliver(c, v)
  PROVE  Outbox!Next
BY DEF Outbox!Next, Outbox!ClientStep, Outbox!Clients, Clients, Outbox!Verdicts

LEMMA RefinesOutboxStep == HostOK /\ [Next]_vars => [Outbox!Next]_outboxVars
<1> SUFFICES ASSUME HostOK, [Next]_vars, ~UNCHANGED outboxVars PROVE Outbox!Next
  OBVIOUS
<1>1. CASE UNCHANGED vars
  BY <1>1 DEF vars
<1>2. ASSUME NEW s \in Sessions,
             \/ UserTurn(s) \/ MessageFails(s) \/ UseTool(s) \/ Yield(s)
             \/ FinishTurn(s) \/ FailTurn(s) \/ \E r \in Runs : SpawnRun(s, r)
      PROVE  FALSE
  BY <1>2 DEF UserTurn, MessageFails, UseTool, Yield, FinishTurn, FailTurn, EndTurn, SpawnRun
<1>3. ASSUME NEW r \in Runs, SettleRun(r) PROVE FALSE
  BY <1>3 DEF SettleRun
<1>4. ASSUME NEW r \in Runs, NotifySettlement(r) PROVE Outbox!Next
  <2>1. <<run[r].session, now>> \in Sessions \X (0..MaxTime)
    BY <1>4 DEF NotifySettlement, HostOK
  <2>2. Outbox!EnqueueCheck(r, <<run[r].session, now>>) /\ r \in Outbox!Clients
    BY <1>4 DEF NotifySettlement, Outbox!Clients
  <2>3. QED BY <2>1, <2>2 DEF Outbox!Next
<1>5. ASSUME NEW c \in Clients, LedgerStep(c) \/ LedgerFails(c) PROVE Outbox!Next
  BY <1>5, LedgerStepMaps
<1>6. ASSUME NEW c \in Clients, DeliverToNobody(c) \/ Acknowledge(c) PROVE Outbox!Next
  BY <1>6, DeliverMaps DEF DeliverToNobody, Acknowledge
<1>7. ASSUME NEW c \in Clients,
             \/ DeliverToResumer(c) \/ Judge(c) \/ CallHandler(c) \/ ResumeTurn(c)
             \/ ResumeTimesOut(c) \/ FinishResume(c)
      PROVE  FALSE
  BY <1>7 DEF DeliverToResumer, Judge, CallHandler, ResumeTurn, ResumeTimesOut, FinishResume
<1>8. CASE StartReplay
  BY <1>8 DEF StartReplay, Outbox!Next, Outbox!Clients
<1>9. CASE ClaimGoesStale
  BY <1>9 DEF ClaimGoesStale, Outbox!Next, Outbox!RowIds
<1>10. CASE Tick \/ Cleanup
  BY <1>10 DEF Tick, Cleanup
<1>11. CASE Restart
  BY <1>11 DEF Restart, Outbox!Next
<1>12. QED
  BY <1>1, <1>2, <1>3, <1>4, <1>5, <1>6, <1>7, <1>8, <1>9, <1>10, <1>11
  DEF Next, TurnStep, RunStep, ClientStep

-----------------------------------------------------------------------------
(* Which key a client delivers.                                            *)

LEMMA DeliversKept ==
  HostOK /\ OutboxP!TypeOK /\ DeliversKnown /\ [Next]_vars => DeliversKnown'
<1> SUFFICES ASSUME HostOK, OutboxP!TypeOK, DeliversKnown, [Next]_vars,
                    ~UNCHANGED outboxVars
             PROVE  DeliversKnown'
  BY DEF DeliversKnown, outboxVars
<1> DEFINE Moves(c) == \A d \in Clients \ {c} : client'[d] = client[d]
<1>1. /\ client \in [Clients -> OutboxP!Client]
      /\ \A i \in DOMAIN outbox : outbox[i].key \in Keys
  BY DEF OutboxP!TypeOK, OutboxP!Row, OutboxP!Clients, Clients, Keys
<1>2. ASSUME NEW r \in Runs, NotifySettlement(r) PROVE DeliversKnown'
  <2>1. /\ client'[r].pc \in {"insert", "claim"} /\ client'[r].key = <<run[r].session, now>>
        /\ Moves(r)
    BY <1>1, <1>2 DEF NotifySettlement, Outbox!EnqueueCheck, Outbox!Idle, Clients
  <2>2. <<run[r].session, now>> \in Keys
    BY <1>2 DEF NotifySettlement, HostOK, Keys
  <2>3. QED BY <2>1, <2>2, RecoveryAssumption DEF DeliversKnown, Clients
<1>3. ASSUME NEW r \in Runs, LedgerStep(r) \/ LedgerFails(r) PROVE DeliversKnown'
  <2> DEFINE Keeps == /\ Moves(r) /\ client'[r].pc # "replay"
                      /\ client'[r].pc # "idle" => /\ client[r].pc # "idle"
                                                  /\ client'[r].key = client[r].key
  <2>1. r \in Clients /\ r # Replay /\ client[r].pc # "replay" /\ client[r] \in OutboxP!Client
    BY <1>1, RecoveryAssumption DEF Clients, DeliversKnown
  <2>2. ASSUME Outbox!EnqueueInsert(r) PROVE Keeps
    BY <1>1, <2>1, <2>2 DEF Outbox!EnqueueInsert, OutboxP!Client
  <2>3. ASSUME Outbox!EnqueuePrune(r) \/ Outbox!EnqueueRejected(r) \/ Outbox!EnqueueReread(r) PROVE Keeps
    <3>1. CASE Outbox!EnqueuePrune(r)
      BY <1>1, <2>1, <3>1 DEF Outbox!EnqueuePrune, OutboxP!Client
    <3>2. CASE Outbox!EnqueueRejected(r)
      BY <1>1, <2>1, <3>2 DEF Outbox!EnqueueRejected, OutboxP!Client
    <3>3. CASE Outbox!EnqueueReread(r)
      BY <1>1, <2>1, <3>3 DEF Outbox!EnqueueReread, OutboxP!Client
    <3>4. QED BY <2>3, <3>1, <3>2, <3>3
  <2>4. ASSUME Outbox!Claim(r) PROVE Keeps
    BY <1>1, <2>1, <2>4 DEF Outbox!Claim, OutboxP!Client
  <2>5. ASSUME Outbox!LookBack(r) PROVE Keeps
    BY <1>1, <2>1, <2>5 DEF Outbox!LookBack, OutboxP!Client
  <2>6. ASSUME Outbox!Mark(r) PROVE Keeps
    BY <1>1, <2>1, <2>6 DEF Outbox!Mark, Outbox!RowDone, Outbox!Idle
  <2>7. ASSUME Outbox!StorageFails(r) PROVE Keeps
    BY <1>1, <2>1, <2>7 DEF Outbox!StorageFails, Outbox!Idle, OutboxP!Client
  <2>8. ASSUME Outbox!ReplayClaim(r) \/ Outbox!ReplayEnd(r) PROVE Keeps
    BY <2>1, <2>8 DEF Outbox!ReplayClaim, Outbox!ReplayEnd
  <2> HIDE DEF Keeps
  <2>9. Keeps
    BY <1>3, <2>2, <2>3, <2>4, <2>5, <2>6, <2>7, <2>8 DEF LedgerStep, LedgerFails
  <2>10. QED BY <2>9, RecoveryAssumption DEF Keeps, DeliversKnown, Clients
<1>4. ASSUME LedgerStep(Replay) \/ LedgerFails(Replay) PROVE DeliversKnown'
  <2> DEFINE Knows == /\ Moves(Replay)
                      /\ client'[Replay].pc \in {"idle", "replay", "look", "deliver"}
                      /\ \/ client'[Replay].pc = "look" /\ client'[Replay].granted
                         \/ client'[Replay].pc = "deliver"
                         => client'[Replay].key \in Keys
  <2>1. /\ Replay \in Clients /\ Replay \notin Runs
        /\ client[Replay].pc \in {"idle", "replay", "look", "deliver", "mark"}
        /\ client[Replay] \in OutboxP!Client
    BY <1>1, RecoveryAssumption DEF Clients, DeliversKnown
  <2>2. ASSUME Outbox!ReplayClaim(Replay) PROVE Knows
    <3>1. PICK i \in client[Replay].todo :
            client' = [client EXCEPT ![Replay] =
              [Outbox!Idle EXCEPT !.pc      = "look",
                                  !.key     = IF Outbox!Claimable(i) THEN outbox[i].key ELSE None,
                                  !.id      = i,
                                  !.granted = Outbox!Claimable(i),
                                  !.todo    = client[Replay].todo \ {i}]]
      BY <2>2 DEF Outbox!ReplayClaim
    <3>2. /\ Moves(Replay)
          /\ client'[Replay].pc = "look"
          /\ client'[Replay].granted = Outbox!Claimable(i)
          /\ client'[Replay].key = IF Outbox!Claimable(i) THEN outbox[i].key ELSE None
      BY <1>1, <2>1, <3>1 DEF Outbox!Idle
    <3>3. Outbox!Claimable(i) => outbox[i].key \in Keys
      BY <1>1 DEF Outbox!Claimable, Outbox!Rows
    <3>4. QED BY <3>2, <3>3
  <2>3. ASSUME Outbox!LookBack(Replay) PROVE Knows
    <3>1. CASE client[Replay].granted /\ client[Replay].id \in Outbox!Rows
      <4>1. client' = [client EXCEPT ![Replay] = [client[Replay] EXCEPT !.pc = "deliver"]]
            /\ client[Replay].pc = "look"
        BY <2>3, <3>1 DEF Outbox!LookBack
      <4>2. client[Replay].key \in Keys
        BY <3>1, <4>1 DEF DeliversKnown
      <4>3. QED BY <1>1, <2>1, <4>1, <4>2 DEF OutboxP!Client
    <3>2. CASE ~(client[Replay].granted /\ client[Replay].id \in Outbox!Rows)
      <4>1. client' = [client EXCEPT ![Replay] = Outbox!RowDone(Replay)]
        BY <2>3, <3>2 DEF Outbox!LookBack
      <4>2. QED BY <1>1, <2>1, <4>1 DEF Outbox!RowDone, Outbox!Idle
    <3>3. QED BY <3>1, <3>2
  <2>4. ASSUME Outbox!ReplayEnd(Replay) \/ Outbox!Mark(Replay) PROVE Knows
    <3>1. CASE Outbox!ReplayEnd(Replay)
      BY <1>1, <2>1, <3>1 DEF Outbox!ReplayEnd, Outbox!Idle
    <3>2. CASE Outbox!Mark(Replay)
      BY <1>1, <2>1, <3>2 DEF Outbox!Mark, Outbox!RowDone, Outbox!Idle
    <3>3. QED BY <2>4, <3>1, <3>2
  <2>5. ASSUME Outbox!StorageFails(Replay) PROVE Knows
    BY <1>1, <2>1, <2>5 DEF Outbox!StorageFails, Outbox!Idle
  <2>6. ~(\/ Outbox!EnqueueInsert(Replay) \/ Outbox!EnqueuePrune(Replay)
          \/ Outbox!EnqueueRejected(Replay) \/ Outbox!EnqueueReread(Replay)
          \/ Outbox!Claim(Replay))
    BY <2>1 DEF Outbox!EnqueueInsert, Outbox!EnqueuePrune, Outbox!EnqueueRejected,
                Outbox!EnqueueReread, Outbox!Claim
  <2> HIDE DEF Knows
  <2>7. Knows
    BY <1>4, <2>2, <2>3, <2>4, <2>5, <2>6 DEF LedgerStep, LedgerFails
  <2>8. QED BY <2>1, <2>7 DEF Knows, DeliversKnown, Clients
<1>5. ASSUME NEW c \in Clients, DeliverToNobody(c) \/ Acknowledge(c) PROVE DeliversKnown'
  <2>1. PICK v : Outbox!Deliver(c, v)
    BY <1>5 DEF DeliverToNobody, Acknowledge
  <2>2. /\ Moves(c) /\ client[c].pc = "deliver" /\ client'[c].pc = "mark"
        /\ client'[c].key = client[c].key
    BY <1>1, <2>1 DEF Outbox!Deliver, OutboxP!Client
  <2>3. QED BY <2>2, RecoveryAssumption DEF DeliversKnown, Clients
<1>6. CASE StartReplay
  <2>1. Outbox!ReplayList(Replay)
    BY <1>6 DEF StartReplay
  <2>2. Moves(Replay) /\ client'[Replay].pc = "replay"
    BY <1>1, <2>1 DEF Outbox!ReplayList, Outbox!Idle, Clients
  <2>3. QED BY <2>2, RecoveryAssumption DEF DeliversKnown, Clients
<1>7. CASE ClaimGoesStale
  BY <1>7 DEF ClaimGoesStale, Outbox!ClaimGoesStale, DeliversKnown
<1>8. CASE Restart
  <2>1. \A c \in Clients : client'[c].pc = "idle"
    BY <1>8 DEF Restart, Outbox!Crash, Outbox!Idle, Outbox!Clients, Clients
  <2>2. QED BY <2>1 DEF DeliversKnown, Clients
<1>9. QED
  BY <1>2, <1>3, <1>4, <1>5, <1>6, <1>7, <1>8
  DEF Next, TurnStep, RunStep, ClientStep, Clients, vars, outboxVars,
      UserTurn, MessageFails, UseTool, Yield, FinishTurn, FailTurn, EndTurn, SpawnRun,
      SettleRun, DeliverToResumer,
      Judge, CallHandler, ResumeTurn, ResumeTimesOut, FinishResume, Tick, Cleanup

-----------------------------------------------------------------------------
(* Every step is a step of the registry, or leaves it alone.               *)

LEMMA BeginMaps ==
  ASSUME HostOK, DeliversKnown, NEW c \in Clients, DeliverToResumer(c)
  PROVE  Registry!Next
<1>1. client[c].key \in Keys
  BY DEF DeliverToResumer, Delivering, DeliversKnown, Clients
<1>2. /\ SessionOf(c) \in Sessions /\ EndedAt(c) \in 0..MaxTime
      /\ turn[SessionOf(c)].latest \in 0..MaxTurn
  BY <1>1 DEF Keys, SessionOf, EndedAt, HostOK
<1>3. PICK b \in BOOLEAN :
        Registry!Begin(c, SessionOf(c), EndedAt(c), turn[SessionOf(c)].latest, b)
  <2>1. CASE c = Replay
    BY <2>1 DEF DeliverToResumer, Registry!Begin
  <2>2. CASE c # Replay
    BY <2>2 DEF DeliverToResumer, Registry!Begin
  <2>3. QED BY <2>1, <2>2
<1>4. QED BY <1>2, <1>3 DEF Registry!Next, Registry!Times, Registry!Turns

LEMMA JudgeMaps ==
  ASSUME HostOK, RegistryP!TypeOK, RegistryP!HandlerKnows, NEW c \in Clients, Judge(c)
  PROVE  Registry!Handle(c)
<1> DEFINE s == resumer[c].session
<1>1. PICK latest \in resumer[c].latest .. turn[s].latest :
        \/ Registry!Refuse(c, latest, HasActiveRuns(s), installed)
        \/ Registry!ClaimWait(c, latest, HasActiveRuns(s), installed)
  BY DEF Judge
<1>2. s \in Sessions /\ resumer[c].latest \in 0..MaxTurn /\ turn[s].latest \in 0..MaxTurn
  BY DEF Judge, RegistryP!HandlerKnows, RegistryP!TypeOK, RegistryP!Resumer, RegistryP!Turns,
         HostOK
<1>3. latest \in Registry!Turns
  BY <1>1, <1>2, RecoveryAssumption DEF Registry!Turns
<1>4. PICK active \in BOOLEAN : \/ Registry!Refuse(c, latest, active, installed)
                                \/ Registry!ClaimWait(c, latest, active, installed)
  <2>1. CASE HasActiveRuns(s)
    BY <1>1, <2>1 DEF Registry!Refuse, Registry!ClaimWait, Registry!ShouldResume
  <2>2. CASE ~HasActiveRuns(s)
    BY <1>1, <2>2 DEF Registry!Refuse, Registry!ClaimWait, Registry!ShouldResume
  <2>3. QED BY <2>1, <2>2
<1>5. installed \in BOOLEAN
  BY DEF HostOK
<1>6. QED BY <1>3, <1>4, <1>5 DEF Registry!Handle

LEMMA RefinesRegistryStep ==
  HostOK /\ DeliversKnown /\ RegistryP!TypeOK /\ RegistryP!HandlerKnows /\ [Next]_vars
    => [Registry!Next]_registryVars
<1> SUFFICES ASSUME HostOK, DeliversKnown, RegistryP!TypeOK, RegistryP!HandlerKnows,
                    [Next]_vars, ~UNCHANGED registryVars
             PROVE  Registry!Next
  OBVIOUS
<1>1. ASSUME NEW s \in Sessions, Yield(s) PROVE Registry!Next
  BY <1>1 DEF Yield, HostOK, Registry!Next, Registry!Times
<1>2. ASSUME NEW s \in Sessions, FinishTurn(s) \/ FailTurn(s) PROVE Registry!Next
  <2>1. Registry!UpdateTurn(s, Number(s)) /\ Running(s)
    BY <1>2 DEF FinishTurn, FailTurn, EndTurn, FillTurn
  <2>2. Number(s) \in Registry!Turns \ {0}
    BY <2>1, RecoveryAssumption DEF Number, HostOK, Registry!Turns
  <2>3. QED BY <2>1, <2>2 DEF Registry!Next
<1>3. ASSUME NEW c \in Clients, DeliverToResumer(c) PROVE Registry!Next
  BY <1>3, BeginMaps
<1>4. ASSUME NEW c \in Clients, Judge(c) PROVE Registry!Next
  BY <1>4, JudgeMaps DEF Registry!Next
<1>5. ASSUME NEW c \in Clients, CallHandler(c) \/ Acknowledge(c) PROVE Registry!Next
  BY <1>5 DEF CallHandler, Acknowledge, Registry!Next, Registry!Handle
<1>6. ASSUME NEW c \in Clients, FinishResume(c) PROVE Registry!Next
  <2>1. \E ok \in BOOLEAN : Registry!Finish(c, ok)
    <3>1. CASE handled[c] = "ok"
      BY <1>6, <3>1 DEF FinishResume, Registry!Finish
    <3>2. CASE handled[c] # "ok"
      BY <1>6, <3>2 DEF FinishResume, Registry!Finish
    <3>3. QED BY <3>1, <3>2
  <2>2. QED BY <2>1 DEF Registry!Next, Registry!Handle
<1>7. CASE Cleanup
  BY <1>7 DEF Cleanup, Registry!Next
<1>8. CASE Restart
  BY <1>8 DEF Restart, Registry!Next
<1>9. QED
  BY <1>1, <1>2, <1>3, <1>4, <1>5, <1>6, <1>7, <1>8
  DEF Next, TurnStep, RunStep, ClientStep, vars, UserTurn, MessageFails, UseTool, SpawnRun,
      SettleRun, NotifySettlement, LedgerStep, LedgerFails, DeliverToNobody, StartReplay,
      ClaimGoesStale, ResumeTurn, ResumeTimesOut, Tick

-----------------------------------------------------------------------------
(* The inductive invariant of the resumptions.                             *)

Holds(c) == resumer[c].pc \in {"claimed", "resuming"}

\* A turn that was resumed: in which life of the process, and for which settlement.
Resumption == [life : Nat, key : Keys]

ResumedLife(w, life) == \E i \in DOMAIN resumed[w] : resumed[w][i].life = life

HistoryOK ==
  /\ resumed \in [1..MaxWaits -> Seq(Resumption)]
  /\ armed \in [1..MaxWaits -> [turn : 0..MaxTurn, runs : SUBSET Runs]]
  /\ \A w \in 1..MaxWaits : \A i \in DOMAIN resumed[w] : resumed[w][i].life <= restarts
  /\ \A w \in 1..MaxWaits : w > lastWait => resumed[w] = <<>>

\* A resumed turn belongs to one handler, which is still waiting for it.
TurnsOwned ==
  /\ \A c \in Clients : handled[c] # "none" => resumer[c].pc = "resuming"
  /\ \A s \in Sessions : turn[s].owner \in Clients => handled[turn[s].owner] = "running"
  /\ \A s, t \in Sessions :
       turn[s].owner \in Clients /\ turn[t].owner = turn[s].owner => s = t

\* Among the handlers of one life, one holds a wait that was claimed.
HeldOnce ==
  /\ \A c \in Clients : Holds(c) => claims[resumer[c].wait] # 0
  /\ \A c, d \in Clients : Holds(c) /\ Holds(d) /\ resumer[c].wait = resumer[d].wait => c = d

\* After a resumption nobody is left who could resume the same wait in this life.
NoneLeft ==
  \A w \in 1..MaxWaits : ResumedLife(w, restarts) =>
    /\ claims[w] # 0
    /\ \A c \in Clients : Holds(c) /\ resumer[c].wait = w => handled[c] # "none"

\* A wait knows the runs of its session that it waits for.
ArmedOwned ==
  \A w \in 1..MaxWaits : \A r \in armed[w].runs :
    /\ run[r].state # "unborn"
    /\ \A s \in Sessions : entries[s].wait = w \/ waiting[s].wait = w => run[r].session = s

\* A wait is claimed when its runs have ended, and they stay ended.
EndedFirst ==
  \A w \in 1..MaxWaits : claims[w] # 0 \/ resumed[w] # <<>> =>
    \A r \in armed[w].runs : run[r].state # "live"

OnceInv == HistoryOK /\ TurnsOwned /\ HeldOnce /\ NoneLeft /\ ResumedOncePerLife

LEMMA RegistryFacts ==
  ASSUME RegistryP!IInv
  PROVE  /\ claims \in [1..MaxWaits -> Nat] /\ lastWait \in 0..MaxWaits
         /\ resumer \in [Clients -> RegistryP!Resumer]
         /\ RegistryP!TypeOK /\ RegistryP!HandlerKnows
         /\ \A c \in Clients : resumer[c].wait <= lastWait
         /\ \A w \in 1..MaxWaits : w > lastWait => claims[w] = 0
         /\ \A s \in Sessions : entries[s].wait <= lastWait /\ waiting[s].wait <= lastWait
         /\ \A s \in Sessions : entries[s].status = "waiting" => claims[entries[s].wait] = 0
BY DEF RegistryP!IInv, RegistryP!TypeOK, RegistryP!WaitsUsed, RegistryP!WaitingUnclaimed,
       RegistryP!Waiting, RegistryP!Waits

LEMMA AppendFacts ==
  ASSUME NEW S, NEW q \in Seq(S), NEW e \in S
  PROVE  /\ Append(q, e) \in Seq(S)
         /\ DOMAIN q = 1 .. Len(q) /\ Len(q) \in Nat
         /\ DOMAIN Append(q, e) = 1 .. (Len(q) + 1)
         /\ \A i \in DOMAIN q : Append(q, e)[i] = q[i]
         /\ Append(q, e)[Len(q) + 1] = e
OBVIOUS

LEMMA ElementType == ASSUME NEW S, NEW q \in Seq(S), NEW i \in DOMAIN q PROVE q[i] \in S
OBVIOUS

LEMMA OnceKept == HostOK /\ RegistryP!IInv /\ OnceInv /\ [Next]_vars => OnceInv'
<1> SUFFICES ASSUME HostOK, RegistryP!IInv, OnceInv, [Next]_vars PROVE OnceInv'
  OBVIOUS
<1> USE DEF OnceInv
<1>1. /\ claims \in [1..MaxWaits -> Nat] /\ lastWait \in 0..MaxWaits
      /\ resumer \in [Clients -> RegistryP!Resumer]
      /\ \A c \in Clients : Holds(c) => resumer[c].wait \in 1..MaxWaits
      /\ \A c \in Clients : resumer[c].wait <= lastWait
      /\ restarts \in Nat /\ MaxWaits \in Nat
      /\ handled \in [Clients -> {"none", "running", "ok", "failed"}]
  BY RegistryFacts, RecoveryAssumption DEF HostOK, Holds, RegistryP!HandlerKnows, RegistryP!Waits
<1>2. ASSUME UNCHANGED <<lastWait, resumer, claims, handled, restarts, resumed, armed>>,
             \A s \in Sessions : turn'[s].owner \in Clients => turn'[s].owner = turn[s].owner
      PROVE  OnceInv'
  BY <1>2 DEF HistoryOK, TurnsOwned, HeldOnce, NoneLeft, ResumedLife, ResumedOncePerLife, Holds
<1>3. CASE UNCHANGED vars
  BY <1>2, <1>3 DEF vars, registryVars, hostVars, boundVars, historyVars
<1>4. ASSUME NEW s \in Sessions, UserTurn(s) \/ MessageFails(s) PROVE OnceInv'
  <2>1. \A t \in Sessions : turn'[t].owner \in Clients => turn'[t].owner = turn[t].owner
    <3>1. CASE UserTurn(s)
      BY <3>1, StartTurnOK, RecoveryAssumption DEF UserTurn, Clients
    <3>2. CASE MessageFails(s)
      BY <3>2 DEF MessageFails
    <3>3. QED BY <1>4, <3>1, <3>2
  <2>2. QED BY <1>2, <1>4, <2>1 DEF UserTurn, MessageFails, registryVars, historyVars
<1>5. ASSUME NEW s \in Sessions, UseTool(s) \/ \E r \in Runs : SpawnRun(s, r) PROVE OnceInv'
  <2>1. \A t \in Sessions : turn'[t].owner = turn[t].owner
    <3>1. turn' = [turn EXCEPT ![s].tools = TRUE]
      BY <1>5 DEF UseTool, SpawnRun
    <3>2. QED BY <3>1 DEF HostOK
  <2>2. QED BY <1>2, <1>5, <2>1 DEF UseTool, SpawnRun, registryVars, boundVars, historyVars
<1>6. ASSUME NEW s \in Sessions, Yield(s) PROVE OnceInv'
  <2>1. /\ \A t \in Sessions : turn'[t].owner = turn[t].owner
        /\ lastWait' = lastWait + 1 /\ lastWait < MaxWaits
        /\ UNCHANGED <<resumer, claims, handled, restarts, resumed>>
    BY <1>6 DEF Yield, HostOK, Registry!Register, boundVars
  <2>2. armed' \in [1..MaxWaits -> [turn : 0..MaxTurn, runs : SUBSET Runs]]
    BY <1>6 DEF Yield, HistoryOK, HostOK
  <2>3. HistoryOK'
    <3>1. \A w \in 1..MaxWaits : w > lastWait + 1 => resumed[w] = <<>>
      BY <1>1 DEF HistoryOK
    <3>2. QED BY <2>1, <2>2, <3>1 DEF HistoryOK
  <2>4. (TurnsOwned /\ HeldOnce /\ NoneLeft /\ ResumedOncePerLife)'
    BY <2>1 DEF TurnsOwned, HeldOnce, NoneLeft, ResumedLife, ResumedOncePerLife, Holds
  <2>5. QED BY <2>3, <2>4
<1>7. ASSUME NEW s \in Sessions, FinishTurn(s) \/ FailTurn(s) PROVE OnceInv'
  <2>1. /\ UNCHANGED <<lastWait, resumer, claims, restarts, resumed, armed>>
        /\ turn' = [turn EXCEPT ![s] = NoTurn(turn[s].latest)]
        /\ HandledBy(turn[s].owner, "ok") \/ HandledBy(turn[s].owner, "failed")
    BY <1>7
    DEF FinishTurn, FailTurn, EndTurn, FillTurn, registryVars, boundVars, historyVars,
        Registry!UpdateTurn
  <2>2. /\ turn'[s].owner = "none"
        /\ \A t \in Sessions \ {s} : turn'[t].owner = turn[t].owner
    BY <2>1 DEF HostOK, NoTurn, NewTurn
  <2>3. /\ \A c \in Clients : c # turn[s].owner => handled'[c] = handled[c]
        /\ \A c \in Clients : handled'[c] # "none" <=> handled[c] # "none"
    BY <1>1, <2>1 DEF HandledBy, TurnsOwned
  <2>4. TurnsOwned'
    BY <2>1, <2>2, <2>3, RecoveryAssumption DEF TurnsOwned, Clients
  <2>5. (HistoryOK /\ HeldOnce /\ NoneLeft /\ ResumedOncePerLife)'
    BY <2>1, <2>3 DEF HistoryOK, HeldOnce, NoneLeft, ResumedLife, ResumedOncePerLife, Holds
  <2>6. QED BY <2>4, <2>5
<1>8. CASE \/ \E r \in Runs : SettleRun(r) \/ NotifySettlement(r)
           \/ \E c \in Clients : LedgerStep(c) \/ LedgerFails(c) \/ DeliverToNobody(c)
           \/ StartReplay \/ ClaimGoesStale \/ Tick
  <2>1. UNCHANGED <<registryVars, turn, handled, restarts, historyVars>>
    BY <1>8 DEF SettleRun, NotifySettlement, LedgerStep, LedgerFails, DeliverToNobody,
                StartReplay, ClaimGoesStale, Tick, hostVars, boundVars
  <2>2. QED BY <1>2, <2>1 DEF registryVars, historyVars
<1>9. CASE Cleanup
  BY <1>2, <1>9 DEF Cleanup, Registry!Clear, registryVars, historyVars
<1>10. ASSUME NEW c \in Clients, UNCHANGED <<turn, lastWait, restarts, resumed, armed>>,
              \A d \in Clients \ {c} : resumer'[d] = resumer[d] /\ handled'[d] = handled[d],
              ~Holds(c)', handled'[c] = "none", UNCHANGED claims,
              handled[c] # "running"
       PROVE  OnceInv'
  <2>1. TurnsOwned'
    BY <1>10 DEF TurnsOwned
  <2>2. QED BY <1>10, <2>1 DEF HistoryOK, HeldOnce, NoneLeft, ResumedLife, ResumedOncePerLife, Holds
<1>11. ASSUME NEW c \in Clients, DeliverToResumer(c) \/ Acknowledge(c) PROVE OnceInv'
  <2>1. /\ UNCHANGED <<turn, handled, lastWait, restarts, resumed, armed, claims>>
        /\ resumer[c].pc \in {"idle", "return"}
        /\ resumer'[c].pc \in {"judge", "return", "idle"}
        /\ \A d \in Clients \ {c} : resumer'[d] = resumer[d]
    BY <1>1, <1>11
    DEF DeliverToResumer, Acknowledge, Registry!Begin, Registry!Return, Registry!IdleResumer,
        hostVars, boundVars, historyVars
  <2>2. handled[c] = "none"
    BY <1>1, <2>1 DEF TurnsOwned
  <2>3. QED BY <1>10, <2>1, <2>2 DEF Holds
<1>12. ASSUME NEW c \in Clients, FinishResume(c) PROVE OnceInv'
  <2>1. /\ UNCHANGED <<turn, lastWait, restarts, resumed, armed, claims>>
        /\ handled[c] \in {"ok", "failed"} /\ handled'[c] = "none"
        /\ resumer'[c].pc = "return"
        /\ \A d \in Clients \ {c} : resumer'[d] = resumer[d] /\ handled'[d] = handled[d]
    BY <1>1, <1>12
    DEF FinishResume, Registry!Finish, RegistryP!Resumer, boundVars, historyVars
  <2>2. QED BY <1>10, <2>1 DEF Holds
<1>13. ASSUME NEW c \in Clients, Judge(c) PROVE OnceInv'
  <2>1. PICK latest, active :
          Registry!Refuse(c, latest, active, installed) \/ Registry!ClaimWait(c, latest, active, installed)
    BY <1>13 DEF Judge
  <2>2. UNCHANGED <<turn, handled, lastWait, restarts, resumed, armed>> /\ handled[c] = "none"
    BY <1>1, <1>13, <2>1
    DEF Judge, Registry!Refuse, Registry!ClaimWait, hostVars, boundVars, historyVars, TurnsOwned
  <2>3. CASE Registry!Refuse(c, latest, active, installed)
    <3>1. /\ UNCHANGED claims /\ resumer'[c].pc = "return"
          /\ \A d \in Clients \ {c} : resumer'[d] = resumer[d]
      BY <1>1, <2>3 DEF Registry!Refuse, RegistryP!Resumer
    <3>2. QED BY <1>10, <2>2, <3>1 DEF Holds
  <2>4. CASE Registry!ClaimWait(c, latest, active, installed)
    <3> DEFINE w == resumer[c].wait
    <3>1. /\ resumer[c].pc = "judge" /\ resumer[c].session \in Sessions /\ w \in 1..MaxWaits
          /\ claims[w] = 0 /\ claims' = [claims EXCEPT ![w] = 1]
      <4>1. /\ resumer[c].pc = "judge" /\ entries[resumer[c].session].wait = w
            /\ entries[resumer[c].session].status = "waiting"
            /\ claims' = [claims EXCEPT ![w] = @ + 1]
        BY <2>4 DEF Registry!ClaimWait, Registry!CanClaim, Registry!Waiting
      <4>2. resumer[c].session \in Sessions /\ w \in 1..MaxWaits
        BY <4>1, RegistryFacts DEF RegistryP!HandlerKnows, RegistryP!Waits
      <4>3. claims[w] = 0
        BY <4>1, <4>2, RegistryFacts
      <4>4. QED BY <1>1, <4>1, <4>2, <4>3
    <3>2. /\ resumer'[c].pc = "claimed" /\ resumer'[c].wait = w
          /\ \A d \in Clients \ {c} : resumer'[d] = resumer[d]
      BY <1>1, <2>4 DEF Registry!ClaimWait, RegistryP!Resumer
    <3>3. ~ResumedLife(w, restarts) /\ \A d \in Clients : Holds(d) => resumer[d].wait # w
      BY <3>1 DEF NoneLeft, HeldOnce
    <3>4. /\ claims'[w] = 1 /\ \A v \in 1..MaxWaits : v # w => claims'[v] = claims[v]
          /\ \A d \in Clients : Holds(d)' => d = c \/ Holds(d)
          /\ \A d \in Clients : resumer'[d].wait = resumer[d].wait
      BY <1>1, <3>1, <3>2 DEF Holds
    <3>5. HeldOnce'
      BY <1>1, <3>3, <3>4 DEF HeldOnce
    <3>6. NoneLeft'
      <4>1. ASSUME NEW v \in 1..MaxWaits, ResumedLife(v, restarts)'
            PROVE  v # w /\ ResumedLife(v, restarts)
        BY <2>2, <3>3, <4>1 DEF ResumedLife
      <4>2. QED BY <2>2, <3>4, <4>1 DEF NoneLeft
    <3>7. TurnsOwned'
      BY <2>2, <3>2 DEF TurnsOwned
    <3>8. (HistoryOK /\ ResumedOncePerLife)'
      BY <2>2 DEF HistoryOK, ResumedOncePerLife
    <3>9. QED BY <3>5, <3>6, <3>7, <3>8
  <2>5. QED BY <2>1, <2>3, <2>4
<1>14. ASSUME NEW c \in Clients, CallHandler(c) PROVE OnceInv'
  <2>1. /\ UNCHANGED <<turn, handled, lastWait, restarts, resumed, armed, claims>>
        /\ resumer[c].pc = "claimed" /\ resumer'[c].pc = "resuming"
        /\ resumer'[c].wait = resumer[c].wait
        /\ \A d \in Clients \ {c} : resumer'[d] = resumer[d]
    BY <1>1, <1>14
    DEF CallHandler, Registry!StartResume, hostVars, boundVars, historyVars, RegistryP!Resumer
  <2>2. handled[c] = "none"
    BY <1>1, <2>1 DEF TurnsOwned
  <2>3. \A d \in Clients : /\ Holds(d)' <=> Holds(d)
                            /\ resumer'[d].wait = resumer[d].wait
    BY <2>1 DEF Holds
  <2>4. (HeldOnce /\ NoneLeft)'
    BY <2>1, <2>3 DEF HeldOnce, NoneLeft, ResumedLife
  <2>5. (TurnsOwned /\ HistoryOK /\ ResumedOncePerLife)'
    BY <2>1, <2>2 DEF TurnsOwned, HistoryOK, ResumedOncePerLife
  <2>6. QED BY <2>4, <2>5
<1>15. ASSUME NEW c \in Clients, ResumeTimesOut(c) PROVE OnceInv'
  <2>1. /\ UNCHANGED <<turn, resumer, lastWait, restarts, resumed, armed, claims>>
        /\ resumer[c].pc = "resuming" /\ handled[c] = "none" /\ handled'[c] = "failed"
        /\ \A d \in Clients \ {c} : handled'[d] = handled[d]
    BY <1>1, <1>15 DEF ResumeTimesOut, boundVars, historyVars, registryVars
  <2>2. /\ \A d \in Clients : Holds(d)' <=> Holds(d)
        /\ \A d \in Clients : handled[d] # "none" => handled'[d] # "none"
    BY <2>1 DEF Holds
  <2>3. (HeldOnce /\ NoneLeft)'
    BY <2>1, <2>2 DEF HeldOnce, NoneLeft, ResumedLife
  <2>4. (TurnsOwned /\ HistoryOK /\ ResumedOncePerLife)'
    BY <2>1 DEF TurnsOwned, HistoryOK, ResumedOncePerLife
  <2>5. QED BY <2>3, <2>4
<1>16. ASSUME NEW c \in Clients, ResumeTurn(c) PROVE OnceInv'
  <2> DEFINE w == resumer[c].wait
             s == resumer[c].session
             new == [life |-> restarts, key |-> <<s, resumer[c].endedAt>>]
  <2>1. /\ UNCHANGED <<resumer, lastWait, restarts, armed, claims>>
        /\ resumer[c].pc = "resuming" /\ handled[c] = "none" /\ handled'[c] = "running"
        /\ \A d \in Clients \ {c} : handled'[d] = handled[d]
        /\ StartTurn(s, c)
        /\ resumed' = [resumed EXCEPT ![w] = Append(@, new)]
    BY <1>1, <1>16 DEF ResumeTurn, boundVars, registryVars
  <2>2. w \in 1..MaxWaits /\ s \in Sessions /\ Holds(c) /\ claims[w] # 0 /\ w <= lastWait
    BY <1>1, <2>1, RegistryFacts DEF Holds, HeldOnce, RegistryP!HandlerKnows, RegistryP!Waits
  <2>3. ~ResumedLife(w, restarts)
    BY <2>1, <2>2 DEF NoneLeft
  <2>4. /\ new \in Resumption /\ new.life = restarts
        /\ resumed[w] \in Seq(Resumption)
    BY <1>1, <2>2 DEF RegistryP!Resumer, RegistryP!Times, HistoryOK, Keys, Resumption
  <2>5. /\ resumed'[w] = Append(resumed[w], new)
        /\ \A v \in 1..MaxWaits : v # w => resumed'[v] = resumed[v]
        /\ resumed' \in [1..MaxWaits -> Seq(Resumption)]
    BY <2>1, <2>2, <2>4 DEF HistoryOK
  <2>6. /\ DOMAIN resumed'[w] = 1 .. (Len(resumed[w]) + 1)
        /\ \A i \in DOMAIN resumed[w] : i \in 1 .. Len(resumed[w]) /\ resumed'[w][i] = resumed[w][i]
        /\ resumed'[w][Len(resumed[w]) + 1] = new
        /\ DOMAIN resumed[w] = 1 .. Len(resumed[w]) /\ Len(resumed[w]) \in Nat
    <3> DEFINE Lives == Resumption
               q == resumed[w]
    <3>1. q \in Seq(Lives) /\ new \in Lives
      BY <2>4
    <3> HIDE DEF new, Lives, q
    <3>2. /\ DOMAIN Append(q, new) = 1 .. (Len(q) + 1)
          /\ \A i \in DOMAIN q : Append(q, new)[i] = q[i]
          /\ Append(q, new)[Len(q) + 1] = new
          /\ DOMAIN q = 1 .. Len(q) /\ Len(q) \in Nat
      BY <3>1, AppendFacts
    <3>3. /\ DOMAIN Append(resumed[w], new) = 1 .. (Len(resumed[w]) + 1)
          /\ \A i \in DOMAIN resumed[w] : Append(resumed[w], new)[i] = resumed[w][i]
          /\ Append(resumed[w], new)[Len(resumed[w]) + 1] = new
          /\ DOMAIN resumed[w] = 1 .. Len(resumed[w]) /\ Len(resumed[w]) \in Nat
      BY <3>2 DEF q
    <3>4. QED BY <2>5, <3>3
  <2>7. HistoryOK'
    <3>1. ASSUME NEW v \in 1..MaxWaits, NEW i \in DOMAIN resumed'[v]
          PROVE  resumed'[v][i].life <= restarts
      <4>1. CASE v # w
        BY <2>5, <3>1, <4>1 DEF HistoryOK
      <4>2. CASE v = w /\ i \in DOMAIN resumed[w]
        BY <2>2, <2>6, <4>2 DEF HistoryOK
      <4>3. CASE v = w /\ i \notin DOMAIN resumed[w]
        <5>1. i = Len(resumed[w]) + 1
          BY <2>6, <3>1, <4>3
        <5>2. QED BY <1>1, <2>4, <2>6, <4>3, <5>1
      <4>4. QED BY <4>1, <4>2, <4>3
    <3>2. \A v \in 1..MaxWaits : v > lastWait => resumed'[v] = <<>>
      <4>1. ASSUME NEW v \in 1..MaxWaits, v > lastWait PROVE resumed'[v] = resumed[v]
        <5>1. v # w
          BY <1>1, <2>2, <4>1
        <5>2. QED BY <2>5, <5>1
      <4>2. QED BY <4>1 DEF HistoryOK
    <3>3. QED BY <2>1, <2>5, <3>1, <3>2 DEF HistoryOK
  <2>8. ResumedOncePerLife'
    <3>1. ASSUME NEW v \in 1..MaxWaits, NEW i \in DOMAIN resumed'[v], NEW j \in DOMAIN resumed'[v],
                 i # j
          PROVE  resumed'[v][i].life # resumed'[v][j].life
      <4>1. CASE v # w
        BY <2>5, <3>1, <4>1 DEF ResumedOncePerLife
      <4>2. CASE v = w
        <5>1. \A k \in DOMAIN resumed'[w] : k \in DOMAIN resumed[w] \/ k = Len(resumed[w]) + 1
          BY <2>6
        <5>2. \A k \in DOMAIN resumed[w] : resumed'[w][k].life # restarts
          BY <2>3, <2>6 DEF ResumedLife
        <5>3. \A k, l \in DOMAIN resumed[w] :
                k # l => resumed'[w][k].life # resumed'[w][l].life
          <6>1. \A k, l \in DOMAIN resumed[w] : k # l => resumed[w][k].life # resumed[w][l].life
            BY <2>2 DEF ResumedOncePerLife
          <6>2. QED BY <2>6, <6>1
        <5>4. resumed'[w][Len(resumed[w]) + 1].life = restarts
          BY <2>4, <2>6
        <5> HIDE DEF new
        <5>5. QED BY <3>1, <4>2, <5>1, <5>2, <5>3, <5>4
      <4>3. QED BY <4>1, <4>2
    <3>2. QED BY <3>1 DEF ResumedOncePerLife
  <2>9. NoneLeft'
    <3>1. ASSUME NEW v \in 1..MaxWaits, ResumedLife(v, restarts)', v # w
          PROVE  ResumedLife(v, restarts)
      BY <2>1, <2>5, <3>1 DEF ResumedLife
    <3>2. \A d \in Clients : Holds(d) /\ resumer[d].wait = w => d = c
      BY <2>2 DEF HeldOnce
    <3>3. QED BY <2>1, <2>2, <3>1, <3>2 DEF NoneLeft, Holds
  <2>10. HeldOnce'
    BY <2>1 DEF HeldOnce, Holds
  <2>11. TurnsOwned'
    <3>1. turn'[s].owner = c /\ \A t \in Sessions \ {s} : turn'[t].owner = turn[t].owner
      BY <2>1, <2>2, StartTurnOK
    <3>2. \A t \in Sessions : turn[t].owner # c
      BY <2>1 DEF TurnsOwned
    <3>3. QED BY <2>1, <3>1, <3>2 DEF TurnsOwned
  <2>12. QED BY <2>7, <2>8, <2>9, <2>10, <2>11
<1>17. CASE Restart
  <2>1. /\ restarts' = restarts + 1 /\ UNCHANGED <<lastWait, resumed, armed>>
        /\ \A c \in Clients : resumer'[c].pc = "idle" /\ handled'[c] = "none"
        /\ \A s \in Sessions : turn'[s].owner = "none"
    BY <1>17 DEF Restart, Registry!Restart, Registry!IdleResumer, NoTurn, NewTurn, historyVars
  <2>2. \A w \in 1..MaxWaits : \A i \in DOMAIN resumed[w] :
          /\ resumed[w][i].life \in Nat
          /\ resumed[w][i].life <= restarts
    <3>1. ASSUME NEW w \in 1..MaxWaits, NEW i \in DOMAIN resumed[w]
          PROVE  resumed[w][i].life \in Nat
      <4>1. resumed[w] \in Seq(Resumption)
        BY DEF HistoryOK
      <4>2. resumed[w][i] \in Resumption
        BY <4>1, ElementType, Zenon
      <4>3. QED BY <4>2 DEF Resumption
    <3>2. QED BY <3>1 DEF HistoryOK
  <2>3. HistoryOK'
    BY <1>1, <2>1, <2>2 DEF HistoryOK
  <2>4. \A w \in 1..MaxWaits : ~ResumedLife(w, restarts)'
    BY <1>1, <2>1, <2>2 DEF ResumedLife
  <2>5. QED
    BY <2>3, <2>4, <2>1, <2>2, RecoveryAssumption DEF TurnsOwned, HeldOnce, NoneLeft, ResumedOncePerLife, Holds, Clients
<1>18. QED
  BY <1>3, <1>4, <1>5, <1>6, <1>7, <1>8, <1>9, <1>11, <1>12, <1>13, <1>14, <1>15, <1>16, <1>17
  DEF Next, TurnStep, RunStep, ClientStep

-----------------------------------------------------------------------------
(* A wait is resumed after its runs.                                       *)

EndInv == ArmedOwned /\ EndedFirst

\* What every step but a yield does to runs, waits and claims.
LEMMA EndStable ==
  ASSUME HostOK, EndInv, HistoryOK, armed' = armed,
         \A r \in Runs : run[r].state # "unborn" =>
           /\ run'[r].session = run[r].session /\ run'[r].state # "unborn"
           /\ run[r].state # "live" => run'[r].state # "live",
         \A s \in Sessions : /\ entries'[s].wait \in {0, entries[s].wait, waiting[s].wait}
                             /\ waiting'[s].wait \in {0, entries[s].wait, waiting[s].wait},
         \A w \in 1..MaxWaits : claims'[w] # 0 \/ resumed'[w] # <<>> =>
           \/ claims[w] # 0 \/ resumed[w] # <<>>
           \/ \A r \in armed[w].runs : run[r].state # "live"
  PROVE  EndInv'
<1>1. ASSUME NEW w \in 1..MaxWaits, NEW r \in armed[w].runs
      PROVE  /\ r \in Runs /\ run[r].state # "unborn" /\ run'[r].state # "unborn"
             /\ \A s \in Sessions : entries[s].wait = w \/ waiting[s].wait = w
                  => run'[r].session = s
  <2>1. r \in Runs
    BY <1>1 DEF HistoryOK
  <2>2. QED BY <1>1, <2>1 DEF EndInv, ArmedOwned
<1>2. ArmedOwned'
  <2>1. ASSUME NEW w \in 1..MaxWaits, NEW r \in armed[w].runs, NEW s \in Sessions,
               entries'[s].wait = w \/ waiting'[s].wait = w
        PROVE  run'[r].session = s
    <3>1. entries[s].wait = w \/ waiting[s].wait = w
      BY <2>1
    <3>2. QED BY <1>1, <3>1
  <2>2. QED BY <1>1, <2>1 DEF ArmedOwned
<1>3. EndedFirst'
  <2>1. ASSUME NEW w \in 1..MaxWaits, claims'[w] # 0 \/ resumed'[w] # <<>>, NEW r \in armed[w].runs
        PROVE  run'[r].state # "live"
    <3>1. run[r].state # "live"
      BY <2>1 DEF EndInv, EndedFirst
    <3>2. QED BY <1>1, <3>1
  <2>2. QED BY <2>1 DEF EndedFirst
<1>4. QED BY <1>2, <1>3 DEF EndInv

LEMMA EndKept == HostOK /\ RegistryP!IInv /\ OnceInv /\ EndInv /\ [Next]_vars => EndInv'
<1> SUFFICES ASSUME HostOK, RegistryP!IInv, OnceInv, EndInv, [Next]_vars PROVE EndInv'
  OBVIOUS
<1>1. /\ HistoryOK /\ HeldOnce
      /\ claims \in [1..MaxWaits -> Nat]
      /\ entries \in [Sessions -> RegistryP!Entry \cup {RegistryP!NoEntry}]
      /\ waiting \in [Sessions -> RegistryP!Record \cup {RegistryP!NoRecord}]
  BY RegistryFacts DEF OnceInv, RegistryP!TypeOK
<1> DEFINE RunsSame  == run' = run
           WaitsSame == entries' = entries /\ waiting' = waiting
           ClaimsSame == claims' = claims /\ resumed' = resumed
<1>2. ASSUME RunsSame, WaitsSame, ClaimsSame, armed' = armed PROVE EndInv'
  BY <1>1, <1>2, EndStable
<1>3. CASE UNCHANGED vars
  BY <1>2, <1>3 DEF vars, registryVars, hostVars, historyVars
<1>4. CASE \/ \E s \in Sessions : UserTurn(s) \/ MessageFails(s) \/ UseTool(s)
           \/ \E c \in Clients : \/ LedgerStep(c) \/ LedgerFails(c) \/ DeliverToNobody(c)
                                 \/ DeliverToResumer(c) \/ CallHandler(c) \/ ResumeTimesOut(c)
                                 \/ Acknowledge(c)
           \/ StartReplay \/ ClaimGoesStale \/ Tick
  <2>1. RunsSame /\ WaitsSame /\ ClaimsSame /\ armed' = armed
    BY <1>4 DEF UserTurn, MessageFails, UseTool, LedgerStep, LedgerFails, DeliverToNobody,
                DeliverToResumer, CallHandler, ResumeTimesOut, Acknowledge, StartReplay,
                ClaimGoesStale, Tick, Registry!Begin, Registry!StartResume, Registry!Return,
                registryVars, hostVars, historyVars
  <2>2. QED BY <1>2, <2>1
<1>5. ASSUME NEW s \in Sessions, NEW r \in Runs, SpawnRun(s, r) PROVE EndInv'
  <2>1. /\ run[r].state = "unborn" /\ \A q \in Runs \ {r} : run'[q] = run[q]
        /\ WaitsSame /\ ClaimsSame /\ armed' = armed
    BY <1>5 DEF SpawnRun, HostOK, registryVars, historyVars
  <2>2. QED BY <1>1, <2>1, EndStable
<1>6. ASSUME NEW r \in Runs, SettleRun(r) \/ NotifySettlement(r) PROVE EndInv'
  <2>1. /\ run[r].state # "unborn"
        /\ run'[r].session = run[r].session /\ run'[r].state \in {"settled", "notifying"}
        /\ \A q \in Runs \ {r} : run'[q] = run[q]
        /\ WaitsSame /\ ClaimsSame /\ armed' = armed
    BY <1>6 DEF SettleRun, NotifySettlement, HostOK, registryVars, historyVars
  <2>2. QED BY <1>1, <2>1, EndStable
<1>7. ASSUME NEW s \in Sessions, Yield(s) PROVE EndInv'
  <2> DEFINE w == lastWait + 1
             live == {r \in Runs : run[r].session = s /\ run[r].state = "live"}
  <2>1. /\ w \in 1..MaxWaits /\ claims[w] = 0 /\ resumed[w] = <<>>
        /\ \A t \in Sessions : entries[t].wait < w /\ waiting[t].wait < w
    <3>1. lastWait < MaxWaits
      BY <1>7 DEF Yield, Registry!Register
    <3>2. \A t \in Sessions : /\ entries[t].wait \in Int /\ waiting[t].wait \in Int
                              /\ entries[t].wait <= lastWait /\ waiting[t].wait <= lastWait
      BY <1>1, RegistryFacts
      DEF RegistryP!Entry, RegistryP!NoEntry, RegistryP!Record, RegistryP!NoRecord, RegistryP!Waits
    <3>3. lastWait \in Nat /\ w \in 1..MaxWaits
      BY <3>1, RegistryFacts, RecoveryAssumption
    <3>4. claims[w] = 0 /\ resumed[w] = <<>>
      BY <1>1, <3>3, RegistryFacts DEF HistoryOK
    <3>5. QED BY <3>2, <3>3, <3>4
  <2>2. /\ RunsSame /\ ClaimsSame
        /\ entries'[s].wait = w /\ waiting'[s].wait \in {w, waiting[s].wait}
        /\ \A t \in Sessions \ {s} : entries'[t] = entries[t] /\ waiting'[t] = waiting[t]
    BY <1>1, <1>7 DEF Yield, Registry!Register, Registry!Persist, Registry!ToRecord
  <2>3. /\ armed'[w].runs = live
        /\ \A v \in 1..MaxWaits : v # w => armed'[v] = armed[v]
    BY <1>1, <1>7, <2>1 DEF Yield, HistoryOK
  <2>4. ArmedOwned'
    <3>1. ASSUME NEW v \in 1..MaxWaits, NEW r \in armed'[v].runs
          PROVE  /\ run'[r].state # "unborn"
                 /\ \A t \in Sessions : entries'[t].wait = v \/ waiting'[t].wait = v
                      => run'[r].session = t
      <4>1. CASE v = w
        BY <2>1, <2>2, <2>3, <3>1, <4>1
      <4>2. CASE v # w
        BY <2>1, <2>2, <2>3, <3>1, <4>2 DEF EndInv, ArmedOwned
      <4>3. QED BY <4>1, <4>2
    <3>2. QED BY <3>1 DEF ArmedOwned
  <2>5. EndedFirst'
    BY <2>1, <2>2, <2>3 DEF EndInv, EndedFirst
  <2>6. QED BY <2>4, <2>5 DEF EndInv
<1>8. ASSUME NEW s \in Sessions, FinishTurn(s) \/ FailTurn(s) PROVE EndInv'
  <2>1. /\ RunsSame /\ ClaimsSame /\ armed' = armed
        /\ \A t \in Sessions : /\ entries'[t].wait = entries[t].wait
                               /\ waiting'[t].wait \in {entries[t].wait, waiting[t].wait}
    BY <1>1, <1>8
    DEF FinishTurn, FailTurn, EndTurn, FillTurn, Registry!UpdateTurn, Registry!Persist,
        Registry!ToRecord, registryVars, historyVars, RegistryP!Entry, RegistryP!NoEntry
  <2>2. QED BY <1>1, <2>1, EndStable
<1>9. ASSUME NEW c \in Clients, FinishResume(c) PROVE EndInv'
  <2>1. /\ RunsSame /\ ClaimsSame /\ armed' = armed
        /\ \A t \in Sessions : /\ entries'[t].wait \in {0, entries[t].wait}
                               /\ waiting'[t].wait \in {0, waiting[t].wait}
    BY <1>1, <1>9
    DEF FinishResume, Registry!Finish, Registry!Persist, Registry!NoEntry, Registry!NoRecord,
        historyVars
  <2>2. QED BY <1>1, <2>1, EndStable
<1>10. CASE Cleanup
  <2>1. /\ RunsSame /\ ClaimsSame /\ armed' = armed
        /\ \A t \in Sessions : /\ entries'[t].wait \in {0, entries[t].wait}
                               /\ waiting'[t].wait \in {0, waiting[t].wait}
    BY <1>1, <1>10
    DEF Cleanup, Registry!Clear, Registry!Persist, Registry!NoEntry, Registry!NoRecord,
        registryVars, historyVars
  <2>2. QED BY <1>1, <2>1, EndStable
<1>11. CASE Restart
  <2>1. /\ \A r \in Runs : run'[r].session = run[r].session
        /\ \A r \in Runs : run'[r].state = IF run[r].state \in {"live", "settled"}
                                           THEN "lost" ELSE run[r].state
    BY <1>11 DEF Restart, HostOK
  <2>2. /\ resumed' = resumed /\ armed' = armed /\ waiting' = waiting
        /\ \A v \in 1..MaxWaits : claims'[v] = 0
        /\ \A t \in Sessions : entries'[t].wait \in {0, waiting[t].wait}
    BY <1>11 DEF Restart, Registry!Restart, Registry!ToEntry, Registry!NoEntry, Registry!Waits,
                 historyVars
  <2>3. QED BY <1>1, <2>1, <2>2, EndStable
<1>12. ASSUME NEW c \in Clients, Judge(c) PROVE EndInv'
  <2> DEFINE s == resumer[c].session
  <2>1. PICK latest :
          \/ Registry!Refuse(c, latest, HasActiveRuns(s), installed)
          \/ Registry!ClaimWait(c, latest, HasActiveRuns(s), installed)
    BY <1>12 DEF Judge
  <2>2. RunsSame /\ armed' = armed /\ resumed' = resumed
    BY <1>12 DEF Judge, hostVars, historyVars
  <2>3. CASE Registry!Refuse(c, latest, HasActiveRuns(s), installed)
    BY <1>2, <2>2, <2>3 DEF Registry!Refuse
  <2>4. CASE Registry!ClaimWait(c, latest, HasActiveRuns(s), installed)
    <3> DEFINE w == entries[s].wait
    <3>1. /\ ~HasActiveRuns(s) /\ waiting' = waiting /\ resumer[c].pc = "judge"
          /\ entries' = [entries EXCEPT ![s].status = "claimed"]
          /\ claims' = [claims EXCEPT ![w] = @ + 1]
      BY <2>4 DEF Registry!ClaimWait, Registry!ShouldResume
    <3>2. s \in Sessions
      BY <3>1, RegistryFacts DEF RegistryP!HandlerKnows
    <3>3. \A t \in Sessions : entries'[t].wait = entries[t].wait
      BY <1>1, <3>1, <3>2 DEF RegistryP!Entry, RegistryP!NoEntry
    <3>4. ASSUME w \in 1..MaxWaits PROVE \A r \in armed[w].runs : run[r].state # "live"
      <4>1. \A r \in armed[w].runs : r \in Runs /\ run[r].session = s
        BY <1>1, <3>2, <3>4 DEF HistoryOK, EndInv, ArmedOwned
      <4>2. QED BY <3>1, <4>1 DEF HasActiveRuns
    <3>5. \A v \in 1..MaxWaits : v # w => claims'[v] = claims[v]
      BY <1>1, <3>1
    <3>6. QED BY <1>1, <2>2, <3>1, <3>3, <3>4, <3>5, EndStable
  <2>5. QED BY <2>1, <2>3, <2>4
<1>13. ASSUME NEW c \in Clients, ResumeTurn(c) PROVE EndInv'
  <2>1. /\ RunsSame /\ WaitsSame /\ armed' = armed /\ claims' = claims
        /\ resumer[c].pc = "resuming"
        /\ \A v \in 1..MaxWaits : v # resumer[c].wait => resumed'[v] = resumed[v]
    BY <1>1, <1>13 DEF ResumeTurn, registryVars, HistoryOK
  <2>2. claims[resumer[c].wait] # 0
    BY <1>1, <2>1 DEF HeldOnce, Holds
  <2>3. QED BY <1>1, <2>1, <2>2, EndStable
<1>14. QED
  BY <1>3, <1>4, <1>5, <1>6, <1>7, <1>8, <1>9, <1>10, <1>11, <1>12, <1>13
  DEF Next, TurnStep, RunStep, ClientStep

-----------------------------------------------------------------------------
(* A settlement is delivered only if a turn was resumed for it.            *)

\* While a handler works for a client, the client waits in its delivery, and the
\* handler has the session and the time of the client's key.
HandlesKey ==
  \A c \in Clients : resumer[c].pc # "idle" =>
    /\ client[c].pc = "deliver"
    /\ client[c].key = <<resumer[c].session, resumer[c].endedAt>>

\* What makes a handler acknowledge comes from a turn that was resumed for its key,
\* and so does an acknowledgement that is still to be recorded.
AckKnown ==
  \A c \in Clients :
    /\ handled[c] \in {"running", "ok"} \/ resumer[c].ack => Heard(client[c].key)
    /\ resumer[c].ack => resumer[c].pc = "return"
    /\ client[c].pc = "mark" /\ client[c].verdict = "ack" => Heard(client[c].key)

AckInv == OutboxP!OwnRow /\ HandlesKey /\ AckKnown /\ DeliveredWasHeard

\* A turn that was resumed stays resumed.
LEMMA HeardKept ==
  ASSUME HistoryOK, [Next]_vars, NEW k, Heard(k)
  PROVE  Heard(k)'
<1>1. CASE resumed' = resumed  BY <1>1 DEF Heard
<1>2. ASSUME NEW c \in Clients, ResumeTurn(c) PROVE Heard(k)'
  <2>1. PICK e : resumed' = [resumed EXCEPT ![resumer[c].wait] = Append(@, e)]
    BY <1>2 DEF ResumeTurn
  <2>2. PICK w \in 1..MaxWaits : \E j \in DOMAIN resumed[w] : resumed[w][j].key = k
    BY DEF Heard
  <2>3. PICK j \in DOMAIN resumed[w] : resumed[w][j].key = k  BY <2>2
  <2>4. resumed[w] \in Seq(Resumption)  BY DEF HistoryOK
  <2>5. j \in 1 .. Len(resumed[w]) /\ Len(resumed[w]) \in Nat  BY <2>3, <2>4
  <2>6. CASE w = resumer[c].wait
    <3>1. resumed'[w] = Append(resumed[w], e)  BY <2>1, <2>6 DEF HistoryOK
    <3>2. j \in DOMAIN resumed'[w] /\ resumed'[w][j] = resumed[w][j]
      BY <2>4, <2>5, <3>1
    <3>3. QED  BY <2>3, <3>2 DEF Heard
  <2>7. CASE w # resumer[c].wait
    <3>1. resumed'[w] = resumed[w]  BY <2>1, <2>7 DEF HistoryOK
    <3>2. QED  BY <2>3, <3>1 DEF Heard
  <2>8. QED  BY <2>6, <2>7
<1>3. ASSUME resumed' # resumed PROVE \E c \in Clients : ResumeTurn(c)
  BY <1>3 DEF Next, TurnStep, RunStep, ClientStep, vars, historyVars, UserTurn, MessageFails,
    UseTool, SpawnRun, Yield, FinishTurn, FailTurn, EndTurn, SettleRun, NotifySettlement, LedgerStep, LedgerFails,
    DeliverToNobody, DeliverToResumer, Judge, CallHandler, ResumeTimesOut, FinishResume,
    Acknowledge, StartReplay, ClaimGoesStale, Tick, Cleanup, Restart
<1>4. QED  BY <1>1, <1>2, <1>3

\* What a step does to a client whose handler is at work: nothing, until the handler
\* has returned.
LEMMA HandlesKeyKept ==
  ASSUME HostOK, DeliversKnown, OutboxP!TypeOK, RegistryP!IInv, HandlesKey, [Next]_vars
  PROVE  HandlesKey'
<1>1. /\ resumer \in [Clients -> RegistryP!Resumer]
      /\ client \in [Clients -> OutboxP!Client]
      /\ \A c \in Clients : client[c].pc = "deliver" => client[c].key \in Keys
  BY RegistryFacts DEF OutboxP!TypeOK, OutboxP!Clients, Clients, DeliversKnown
<1>2. CASE UNCHANGED <<client, resumer>>  BY <1>2 DEF HandlesKey
<1>3. ASSUME UNCHANGED resumer,
             \A c \in Clients : client[c].pc = "deliver" /\ resumer[c].pc # "idle" => client'[c] = client[c]
      PROVE  HandlesKey'
  BY <1>3 DEF HandlesKey
<1>4. ASSUME UNCHANGED client, NEW c \in Clients,
             \A d \in Clients \ {c} : resumer'[d] = resumer[d],
             resumer[c].pc # "idle",
             resumer'[c].session = resumer[c].session, resumer'[c].endedAt = resumer[c].endedAt
      PROVE  HandlesKey'
  BY <1>4 DEF HandlesKey
<1>5. ASSUME NEW s \in Sessions,
             \/ UserTurn(s) \/ MessageFails(s) \/ UseTool(s) \/ (\E r \in Runs : SpawnRun(s, r))
             \/ Yield(s) \/ FinishTurn(s) \/ FailTurn(s)
      PROVE  UNCHANGED <<client, resumer>>
  BY <1>5 DEF UserTurn, MessageFails, UseTool, SpawnRun, Yield, FinishTurn, FailTurn, EndTurn,
    FillTurn, Registry!Register, Registry!UpdateTurn, outboxVars, registryVars
<1>6. ASSUME NEW r \in Runs, SettleRun(r) PROVE UNCHANGED <<client, resumer>>
  BY <1>6 DEF SettleRun, outboxVars, registryVars
<1>7. ASSUME NEW r \in Runs, NotifySettlement(r) PROVE HandlesKey'
  <2>1. /\ UNCHANGED resumer /\ client[r].pc = "idle"
        /\ \A c \in Clients \ {r} : client'[c] = client[c]
    BY <1>1, <1>7 DEF NotifySettlement, Outbox!EnqueueCheck, registryVars
  <2>2. QED  BY <1>3, <2>1
<1>8. ASSUME NEW c \in Clients, LedgerStep(c) \/ LedgerFails(c) PROVE HandlesKey'
  <2>1. /\ UNCHANGED resumer /\ client[c].pc # "deliver"
        /\ \A d \in Clients \ {c} : client'[d] = client[d]
    BY <1>1, <1>8
    DEF LedgerStep, LedgerFails, registryVars, Outbox!EnqueueInsert, Outbox!EnqueuePrune,
        Outbox!EnqueueRejected, Outbox!EnqueueReread, Outbox!Claim, Outbox!ReplayClaim,
        Outbox!ReplayEnd, Outbox!LookBack, Outbox!Mark, Outbox!StorageFails
  <2>2. QED  BY <1>3, <2>1
<1>9. ASSUME NEW c \in Clients, DeliverToNobody(c) PROVE HandlesKey'
  <2>1. /\ UNCHANGED resumer /\ resumer[c].pc = "idle"
        /\ \A d \in Clients \ {c} : client'[d] = client[d]
    BY <1>1, <1>9 DEF DeliverToNobody, Delivering, Outbox!Deliver, registryVars
  <2>2. QED  BY <1>3, <2>1
<1>10. ASSUME NEW c \in Clients, DeliverToResumer(c) PROVE HandlesKey'
  <2>1. /\ UNCHANGED client /\ client[c].pc = "deliver"
        /\ \A d \in Clients \ {c} : resumer'[d] = resumer[d]
        /\ resumer'[c].session = SessionOf(c) /\ resumer'[c].endedAt = EndedAt(c)
    BY <1>1, <1>10 DEF DeliverToResumer, Delivering, Registry!Begin, outboxVars
  <2>2. client[c].key = <<SessionOf(c), EndedAt(c)>>
    BY <1>1, <2>1 DEF Keys, SessionOf, EndedAt
  <2>3. QED  BY <2>1, <2>2 DEF HandlesKey
<1>11. ASSUME NEW c \in Clients, Judge(c) PROVE HandlesKey'
  <2>1. /\ UNCHANGED client /\ resumer[c].pc # "idle"
        /\ \E p : resumer' = [resumer EXCEPT ![c].pc = p]
    BY <1>11 DEF Judge, Registry!Refuse, Registry!ClaimWait, outboxVars
  <2>2. QED  BY <1>1, <1>4, <2>1 DEF RegistryP!Resumer
<1>12. ASSUME NEW c \in Clients, CallHandler(c) \/ FinishResume(c) PROVE HandlesKey'
  <2>1. CASE CallHandler(c)
    <3>1. /\ UNCHANGED client /\ resumer[c].pc # "idle"
          /\ resumer' = [resumer EXCEPT ![c].pc = "resuming"]
      BY <2>1 DEF CallHandler, Registry!StartResume, outboxVars
    <3>2. QED  BY <1>1, <1>4, <3>1 DEF RegistryP!Resumer
  <2>2. CASE FinishResume(c)
    <3>1. /\ UNCHANGED client /\ resumer[c].pc # "idle"
          /\ resumer'[c].session = resumer[c].session /\ resumer'[c].endedAt = resumer[c].endedAt
          /\ \A d \in Clients \ {c} : resumer'[d] = resumer[d]
      BY <1>1, <2>2 DEF FinishResume, Registry!Finish, RegistryP!Resumer, outboxVars
    <3>2. QED  BY <1>4, <3>1
  <2>3. QED  BY <1>12, <2>1, <2>2
<1>13. ASSUME NEW c \in Clients, ResumeTurn(c) \/ ResumeTimesOut(c) PROVE UNCHANGED <<client, resumer>>
  BY <1>13 DEF ResumeTurn, ResumeTimesOut, outboxVars, registryVars
<1>14. ASSUME NEW c \in Clients, Acknowledge(c) PROVE HandlesKey'
  <2>1. /\ resumer'[c].pc = "idle"
        /\ \A d \in Clients \ {c} : resumer'[d] = resumer[d] /\ client'[d] = client[d]
    BY <1>1, <1>14 DEF Acknowledge, Registry!Return, Registry!IdleResumer, Outbox!Deliver
  <2>2. QED  BY <2>1 DEF HandlesKey
<1>15. CASE StartReplay
  <2>1. /\ UNCHANGED resumer /\ client[Replay].pc = "idle"
        /\ \A c \in Clients \ {Replay} : client'[c] = client[c]
    BY <1>1, <1>15 DEF StartReplay, Outbox!ReplayList, registryVars, outboxVars
  <2>2. QED  BY <1>3, <2>1
<1>16. CASE ClaimGoesStale \/ Tick \/ Cleanup \/ UNCHANGED vars
  BY <1>2, <1>16 DEF ClaimGoesStale, Outbox!ClaimGoesStale, Tick, Cleanup, Registry!Clear,
    registryVars, outboxVars, vars
<1>17. CASE Restart
  BY <1>17 DEF Restart, Registry!Restart, Registry!IdleResumer, HandlesKey
<1>18. QED
  BY <1>2, <1>5, <1>6, <1>7, <1>8, <1>9, <1>10, <1>11, <1>12, <1>13, <1>14, <1>15, <1>16, <1>17
  DEF Next, TurnStep, RunStep, ClientStep

\* What a step may add to the acknowledgements of a client.
Adds(c) ==
  /\ handled'[c] \in {"running", "ok"} =>
       /\ client'[c].key = client[c].key
       /\ handled[c] \in {"running", "ok"} \/ ResumeTurn(c)
  /\ resumer'[c].ack =>
       /\ resumer'[c].pc = "return" /\ client'[c].key = client[c].key
       /\ resumer[c].ack \/ handled[c] = "ok"
  /\ client'[c].pc = "mark" /\ client'[c].verdict = "ack" =>
       /\ client'[c].key = client[c].key
       /\ \/ client[c].pc = "mark" /\ client[c].verdict = "ack"
          \/ resumer[c].ack

LEMMA StepAdds ==
  ASSUME HostOK, DeliversKnown, OutboxP!TypeOK, RegistryP!IInv, OnceInv, HandlesKey, AckKnown,
         [Next]_vars, NEW c \in Clients
  PROVE  Adds(c)
<1>1. /\ resumer \in [Clients -> RegistryP!Resumer] /\ resumer[c] \in RegistryP!Resumer
      /\ client \in [Clients -> OutboxP!Client] /\ client[c] \in OutboxP!Client
      /\ handled \in [Clients -> {"none", "running", "ok", "failed"}]
  BY RegistryFacts DEF OutboxP!TypeOK, OutboxP!Clients, Clients, HostOK
<1>2. /\ handled[c] # "none" => resumer[c].pc = "resuming"
      /\ resumer[c].pc # "idle" => client[c].pc = "deliver"
      /\ resumer[c].ack => resumer[c].pc = "return"
  BY DEF OnceInv, TurnsOwned, HandlesKey, AckKnown
\* A step that leaves the client, its handler and its turn alone adds nothing.
<1>3. client'[c] = client[c] /\ resumer'[c] = resumer[c] /\ handled'[c] = handled[c] => Adds(c)
  BY <1>2 DEF Adds
\* A step of the client in the ledger outside of its delivery adds nothing.
<1>4. ASSUME UNCHANGED <<resumer, handled>>, client[c].pc # "deliver", client'[c].pc # "mark"
      PROVE  Adds(c)
  BY <1>2, <1>4 DEF Adds
<1>5. ASSUME NEW s \in Sessions,
             \/ UserTurn(s) \/ MessageFails(s) \/ UseTool(s)
             \/ (\E r \in Runs : SpawnRun(s, r)) \/ Yield(s)
      PROVE  Adds(c)
  BY <1>3, <1>5 DEF UserTurn, MessageFails, UseTool, SpawnRun, Yield, Registry!Register, outboxVars, registryVars
<1>6. ASSUME NEW s \in Sessions, FinishTurn(s) \/ FailTurn(s) PROVE Adds(c)
  <2>1. /\ UNCHANGED <<client, resumer>>
        /\ HandledBy(turn[s].owner, "ok") \/ HandledBy(turn[s].owner, "failed")
    BY <1>6 DEF FinishTurn, FailTurn, EndTurn, FillTurn, Registry!UpdateTurn, outboxVars, registryVars
  <2>2. turn[s].owner = c => handled[c] = "running"  BY DEF OnceInv, TurnsOwned
  <2>3. handled'[c] \in {"running", "ok"} => handled[c] \in {"running", "ok"}
    BY <1>1, <2>1, <2>2 DEF HandledBy
  <2>4. QED  BY <1>2, <2>1, <2>3 DEF Adds
<1>7. ASSUME NEW r \in Runs, SettleRun(r) PROVE Adds(c)
  BY <1>3, <1>7 DEF SettleRun, outboxVars, registryVars
<1>8. ASSUME NEW r \in Runs, NotifySettlement(r) PROVE Adds(c)
  <2>1. /\ UNCHANGED <<resumer, handled>>
        /\ c # r => client'[c] = client[c]
        /\ c = r => client[c].pc = "idle" /\ client'[c].pc \in {"insert", "claim"}
    BY <1>1, <1>8 DEF NotifySettlement, Outbox!EnqueueCheck, Outbox!Idle, registryVars
  <2>2. QED  BY <1>3, <1>4, <2>1
<1>9. ASSUME NEW d \in Clients, LedgerStep(d) \/ LedgerFails(d) PROVE Adds(c)
  <2>1. UNCHANGED <<resumer, handled>>
    BY <1>9 DEF LedgerStep, LedgerFails, registryVars, hostVars
  <2>2. d # c => client'[c] = client[c]
    BY <1>1, <1>9
    DEF LedgerStep, LedgerFails, Outbox!EnqueueInsert, Outbox!EnqueuePrune,
        Outbox!EnqueueRejected, Outbox!EnqueueReread, Outbox!Claim, Outbox!ReplayClaim,
        Outbox!ReplayEnd, Outbox!LookBack, Outbox!Mark, Outbox!StorageFails
  <2>3. ASSUME d = c PROVE client[c].pc # "deliver" /\ client'[c].pc # "mark"
    <3>1. CASE Outbox!EnqueueInsert(c)
      BY <1>1, <3>1 DEF Outbox!EnqueueInsert, OutboxP!Client
    <3>2. CASE Outbox!EnqueuePrune(c)
      BY <1>1, <3>2 DEF Outbox!EnqueuePrune, OutboxP!Client
    <3>3. CASE Outbox!EnqueueRejected(c) \/ Outbox!EnqueueReread(c)
      BY <1>1, <3>3 DEF Outbox!EnqueueRejected, Outbox!EnqueueReread, OutboxP!Client
    <3>4. CASE Outbox!Claim(c) \/ Outbox!ReplayEnd(c)
      <4>1. CASE Outbox!Claim(c)  BY <1>1, <4>1 DEF Outbox!Claim, OutboxP!Client
      <4>2. CASE Outbox!ReplayEnd(c)  BY <1>1, <4>2 DEF Outbox!ReplayEnd, Outbox!Idle
      <4>3. QED  BY <3>4, <4>1, <4>2
    <3>5. CASE Outbox!ReplayClaim(c)
      BY <1>1, <3>5 DEF Outbox!ReplayClaim, Outbox!Idle
    <3>6. CASE Outbox!LookBack(c)
      <4>1. client[c].pc = "look"  BY <3>6 DEF Outbox!LookBack
      <4>2. \/ client'[c] = Outbox!RowDone(c)
            \/ client'[c] = [client[c] EXCEPT !.pc = "deliver"]
        BY <1>1, <3>6 DEF Outbox!LookBack
      <4>3. Outbox!RowDone(c).pc \in {"replay", "idle"}  BY DEF Outbox!RowDone, Outbox!Idle
      <4>4. QED  BY <1>1, <4>1, <4>2, <4>3 DEF OutboxP!Client
    <3>7. CASE Outbox!Mark(c)
      BY <1>1, <3>7 DEF Outbox!Mark, Outbox!RowDone, Outbox!Idle
    <3>8. CASE Outbox!StorageFails(c)
      BY <1>1, <3>8 DEF Outbox!StorageFails, OutboxP!Client, Outbox!Idle
    <3>9. QED
      BY <1>9, <2>3, <3>1, <3>2, <3>3, <3>4, <3>5, <3>6, <3>7, <3>8 DEF LedgerStep, LedgerFails
  <2>4. QED  BY <1>3, <1>4, <2>1, <2>2, <2>3
<1>10. ASSUME NEW d \in Clients, DeliverToNobody(d) PROVE Adds(c)
  <2>1. /\ UNCHANGED <<resumer, handled>> /\ resumer[d].pc = "idle"
        /\ \E v \in {"nack", "abandon"} : Outbox!Deliver(d, v)
    BY <1>10 DEF DeliverToNobody, Delivering, registryVars, hostVars
  <2>2. d # c => client'[c] = client[c]
    BY <1>1, <2>1 DEF Outbox!Deliver
  <2>3. d = c => client'[c].verdict \in {"nack", "abandon"}
    BY <1>1, <2>1 DEF Outbox!Deliver, OutboxP!Client
  <2>4. d = c => handled[c] = "none" /\ ~resumer[c].ack  BY <1>1, <1>2, <2>1
  <2>5. QED  BY <1>3, <2>1, <2>2, <2>3, <2>4 DEF Adds
<1>11. ASSUME NEW d \in Clients, DeliverToResumer(d) \/ Judge(d) \/ CallHandler(d) PROVE Adds(c)
  <2>1. UNCHANGED <<client, handled>> /\ resumer[d].pc \in {"idle", "judge", "claimed"}
    BY <1>11 DEF DeliverToResumer, Judge, CallHandler, Delivering, Registry!StartResume,
      outboxVars, hostVars
  <2>2. d # c => resumer'[c] = resumer[c]
    BY <1>1, <1>11
    DEF DeliverToResumer, Judge, CallHandler, Registry!Begin, Registry!Refuse,
        Registry!ClaimWait, Registry!StartResume
  <2>3. ASSUME d = c PROVE ~resumer'[c].ack
    <3>1. CASE DeliverToResumer(c)
      BY <1>1, <3>1 DEF DeliverToResumer, Registry!Begin
    <3>2. CASE Judge(c) \/ CallHandler(c)
      <4>1. \E p : resumer' = [resumer EXCEPT ![c].pc = p]
        BY <3>2 DEF Judge, CallHandler, Registry!Refuse, Registry!ClaimWait, Registry!StartResume
      <4>2. resumer'[c].ack = resumer[c].ack  BY <1>1, <4>1 DEF RegistryP!Resumer
      <4>3. QED  BY <1>2, <2>1, <2>3, <4>2
    <3>3. QED  BY <1>11, <2>3, <3>1, <3>2
  <2>4. QED  BY <1>2, <1>3, <2>1, <2>2, <2>3 DEF Adds
<1>12. ASSUME NEW d \in Clients, ResumeTurn(d) \/ ResumeTimesOut(d) PROVE Adds(c)
  <2>1. /\ UNCHANGED <<client, resumer>>
        /\ d # c => handled'[c] = handled[c]
        /\ d = c /\ handled'[c] \in {"running", "ok"} => ResumeTurn(c)
    BY <1>1, <1>12 DEF ResumeTurn, ResumeTimesOut, outboxVars, registryVars
  <2>2. QED  BY <1>2, <1>3, <2>1 DEF Adds
<1>13. ASSUME NEW d \in Clients, FinishResume(d) PROVE Adds(c)
  <2>1. /\ UNCHANGED client /\ resumer[d].pc = "resuming"
        /\ d # c => resumer'[c] = resumer[c] /\ handled'[c] = handled[c]
        /\ d = c => /\ resumer'[c].pc = "return" /\ handled'[c] = "none"
                    /\ resumer'[c].ack => handled[c] = "ok"
    BY <1>1, <1>13 DEF FinishResume, Registry!Finish, RegistryP!Resumer, outboxVars
  <2>2. QED  BY <1>2, <1>3, <2>1 DEF Adds
<1>14. ASSUME NEW d \in Clients, Acknowledge(d) PROVE Adds(c)
  <2>1. /\ UNCHANGED handled /\ resumer[d].pc = "return"
        /\ d # c => client'[c] = client[c] /\ resumer'[c] = resumer[c]
        /\ d = c => /\ ~resumer'[c].ack /\ client'[c].key = client[c].key
                    /\ client'[c].verdict = IF resumer[c].ack THEN "ack" ELSE "nack"
    BY <1>1, <1>14
    DEF Acknowledge, Registry!Return, Registry!IdleResumer, Outbox!Deliver, hostVars, OutboxP!Client
  <2>2. d = c => handled[c] = "none"  BY <1>1, <1>2, <2>1
  <2>3. QED  BY <1>3, <2>1, <2>2 DEF Adds
<1>15. CASE StartReplay
  <2>1. /\ UNCHANGED <<resumer, handled>> /\ client[Replay].pc = "idle"
        /\ c # Replay => client'[c] = client[c]
        /\ c = Replay => client'[c] = client[c] \/ client'[c].pc = "replay"
    BY <1>1, <1>15 DEF StartReplay, Outbox!ReplayList, registryVars, outboxVars, Outbox!Idle
  <2>2. QED  BY <1>3, <1>4, <2>1
<1>16. CASE ClaimGoesStale \/ Tick \/ Cleanup \/ UNCHANGED vars
  BY <1>3, <1>16 DEF ClaimGoesStale, Outbox!ClaimGoesStale, Tick, Cleanup, Registry!Clear,
    registryVars, outboxVars, hostVars, vars
<1>17. CASE Restart
  <2>1. handled'[c] = "none" /\ ~resumer'[c].ack
    BY <1>17 DEF Restart, Registry!Restart, Registry!IdleResumer
  <2>2. \A d \in Clients : client'[d].pc = "idle"
    BY <1>17 DEF Restart, Outbox!Crash, Outbox!Idle, Outbox!Clients, Clients, outboxVars
  <2>3. QED  BY <2>1, <2>2 DEF Adds
<1>18. QED
  BY <1>5, <1>6, <1>7, <1>8, <1>9, <1>10, <1>11, <1>12, <1>13, <1>14, <1>15, <1>16, <1>17
  DEF Next, TurnStep, RunStep, ClientStep

\* A resumed turn is resumed for the key its client delivers.
LEMMA ResumesForKey ==
  ASSUME HostOK, RegistryP!IInv, OnceInv, HandlesKey, NEW c \in Clients, ResumeTurn(c)
  PROVE  Heard(client[c].key)'
<1>1. /\ client' = client /\ resumer[c].pc = "resuming"
      /\ resumed' = [resumed EXCEPT ![resumer[c].wait] =
           Append(@, [life |-> restarts, key |-> <<resumer[c].session, resumer[c].endedAt>>])]
  BY DEF ResumeTurn, outboxVars
<1>2. resumer[c].wait \in 1..MaxWaits
  BY <1>1, RegistryFacts DEF RegistryP!HandlerKnows, RegistryP!Waits
<1>3. PICK w \in 1..MaxWaits : w = resumer[c].wait  BY <1>2
<1>4. PICK e : e = [life |-> restarts, key |-> client[c].key]  OBVIOUS
<1>5. e = [life |-> restarts, key |-> <<resumer[c].session, resumer[c].endedAt>>]
  BY <1>1, <1>4 DEF HandlesKey
<1>6. resumed[w] \in Seq(Resumption) /\ resumed \in [1..MaxWaits -> Seq(Resumption)]
  BY DEF OnceInv, HistoryOK
<1>7. resumed'[w] = Append(resumed[w], e)  BY <1>1, <1>3, <1>5, <1>6
<1>8. /\ Len(resumed[w]) + 1 \in DOMAIN resumed'[w]
      /\ resumed'[w][Len(resumed[w]) + 1] = e
  BY <1>6, <1>7
<1>9. e.key = client'[c].key  BY <1>1, <1>4
<1>10. QED  BY <1>8, <1>9 DEF Heard

LEMMA AckKept ==
  ASSUME HostOK, DeliversKnown, OutboxP!IInv, RegistryP!IInv, OnceInv, AckInv, [Next]_vars
  PROVE  AckInv'
<1> USE DEF AckInv
<1>0. OutboxP!TypeOK  BY DEF OutboxP!IInv
<1>1. HandlesKey'  BY <1>0, HandlesKeyKept
<1>2. [OutboxP!Next]_(OutboxP!outboxVars)
  BY <1>0, RefinesOutboxStep, SameLedger DEF outboxVars, OutboxP!outboxVars
<1>3. OutboxP!OwnRow'
  BY <1>2, OutboxP!OwnRowKept, ComponentAssumptions
<1>4. \A k : Heard(k) => Heard(k)'
  BY HeardKept DEF OnceInv
<1>5. AckKnown'
  <2>1. SUFFICES ASSUME NEW c \in Clients
                 PROVE  /\ handled'[c] \in {"running", "ok"} \/ resumer'[c].ack => Heard(client[c].key)'
                        /\ resumer'[c].ack => resumer'[c].pc = "return"
                        /\ client'[c].pc = "mark" /\ client'[c].verdict = "ack" => Heard(client[c].key)'
    BY DEF AckKnown
  <2>2. Adds(c)  BY <1>0, StepAdds
  <2>3. PICK k : k = client[c].key  OBVIOUS
  <2>4. client'[c].key = client[c].key /\ Heard(k) => Heard(client[c].key)'
    <3>1. SUFFICES ASSUME client'[c].key = k, Heard(k) PROVE Heard(client[c].key)'
      BY <2>3
    <3>2. Heard(k)'  BY <1>4, <3>1
    <3>3. QED  BY <3>1, <3>2 DEF Heard
  <2>5. ResumeTurn(c) => Heard(client[c].key)'  BY ResumesForKey
  <2>6. QED  BY <2>2, <2>3, <2>4, <2>5 DEF Adds, AckKnown
<1>6. DeliveredWasHeard'
  <2>1. SUFFICES ASSUME NEW i \in DOMAIN outbox', outbox'[i].state = "delivered"
                 PROVE  Heard(outbox[i].key)'
    BY DEF DeliveredWasHeard
  <2>2. PICK k : k = outbox'[i].key  OBVIOUS
  <2>3. SUFFICES Heard(k)
    <3>1. Heard(k)'  BY <1>4, <2>3
    <3>2. QED  BY <2>2, <3>1 DEF Heard
  <2>4. CASE i \in DOMAIN outbox /\ outbox[i].state = "delivered"
    <3>1. outbox'[i].key = outbox[i].key
      BY <1>2, <2>4, OutboxP!RowsKeepKeys, ComponentAssumptions DEF OutboxP!Rows
    <3>2. QED  BY <2>2, <2>4, <3>1 DEF DeliveredWasHeard
  <2>5. CASE ~(i \in DOMAIN outbox /\ outbox[i].state = "delivered")
    <3>1. OutboxP!SettlesOnlyAcked
      BY <1>2, OutboxP!StepSettlesOnlyAcked, ComponentAssumptions
    <3>2. PICK c \in OutboxP!Clients : /\ client[c].pc = "mark" /\ client[c].verdict = "ack"
                                      /\ client[c].key = outbox'[i].key
      BY <2>1, <2>5, <3>1 DEF OutboxP!SettlesOnlyAcked, OutboxP!Rows
    <3>3. c \in Clients  BY DEF OutboxP!Clients, Clients
    <3>4. QED  BY <2>2, <3>2, <3>3 DEF AckKnown
  <2>6. QED  BY <2>4, <2>5
<1>7. QED  BY <1>1, <1>3, <1>5, <1>6

-----------------------------------------------------------------------------
(* Theorems.                                                               *)

IInv ==
  /\ HostOK /\ DeliversKnown /\ OutboxP!IInv /\ RegistryP!IInv
  /\ OnceInv /\ EndInv /\ AckInv

LEMMA OutboxStarts == Outbox!Init => OutboxP!Init
BY SameIndexMade
   DEF Outbox!Init, OutboxP!Init, Outbox!NewRow, OutboxP!NewRow, Outbox!Idle, OutboxP!Idle,
       Outbox!Clients, OutboxP!Clients

LEMMA RegistryStarts == Registry!Init => RegistryP!Init
BY DEF Registry!Init, RegistryP!Init, Registry!NoEntry, RegistryP!NoEntry, Registry!NoRecord,
       RegistryP!NoRecord, Registry!IdleResumer, RegistryP!IdleResumer, Registry!Waits,
       RegistryP!Waits

LEMMA InvInit == Init => IInv
<1> SUFFICES ASSUME Init PROVE IInv
  OBVIOUS
<1>1. HostOK
  <2>1. 0 \in 0..MaxTurn /\ 0 \in 0..MaxTime
    BY RecoveryAssumption
  <2>2. /\ turn \in [Sessions -> [ owner : Clients \cup {"user", "none"}, latest : 0..MaxTurn,
                                    tools : BOOLEAN, yielded : BOOLEAN ]]
        /\ \A s \in Sessions : ~Running(s)
    BY <2>1, NoTurnType DEF Init, Running
  <2>3. QED BY <2>1, <2>2 DEF Init, HostOK, RunState
<1>2. DeliversKnown
  BY DEF Init, DeliversKnown, Outbox!Init, Outbox!Clients, Outbox!Idle, Clients
<1>3. OutboxP!IInv
  BY OutboxStarts, OutboxP!InvInit, ComponentAssumptions DEF Init
<1>4. RegistryP!IInv
  BY RegistryStarts, RegistryP!InvInit, ComponentAssumptions DEF Init
<1>5. /\ \A c \in Clients : resumer[c].pc = "idle" /\ handled[c] = "none"
      /\ \A s \in Sessions : turn[s].owner = "none"
      /\ \A w \in 1..MaxWaits : resumed[w] = <<>> /\ armed[w].runs = {} /\ claims[w] = 0
  BY DEF Init, Registry!Init, Registry!IdleResumer, Registry!Waits, NoTurn, NewTurn
<1>6. /\ resumed \in [1..MaxWaits -> Seq(Resumption)]
      /\ armed \in [1..MaxWaits -> [turn : 0..MaxTurn, runs : SUBSET Runs]]
  BY RecoveryAssumption DEF Init
<1>7. OnceInv
  BY <1>5, <1>6, RecoveryAssumption
  DEF OnceInv, HistoryOK, TurnsOwned, HeldOnce, NoneLeft, ResumedLife, ResumedOncePerLife, Holds,
      Clients
<1>8. EndInv
  BY <1>5 DEF EndInv, ArmedOwned, EndedFirst
<1>9. AckInv
  <2>1. OutboxP!OwnRow  BY OutboxStarts, OutboxP!OwnRowStarts, ComponentAssumptions DEF Init
  <2>2. /\ \A c \in Clients : ~resumer[c].ack /\ client[c].pc = "idle"
        /\ DOMAIN outbox = {}
    BY DEF Init, Registry!Init, Registry!IdleResumer, Outbox!Init, Outbox!Clients, Outbox!Idle, Clients
  <2>3. QED  BY <1>5, <2>1, <2>2 DEF AckInv, HandlesKey, AckKnown, DeliveredWasHeard
<1>10. QED BY <1>1, <1>2, <1>3, <1>4, <1>7, <1>8, <1>9 DEF IInv

LEMMA InvNext == IInv /\ [Next]_vars => IInv'
<1> SUFFICES ASSUME IInv, [Next]_vars PROVE IInv'
  OBVIOUS
<1>1. /\ HostOK /\ DeliversKnown /\ OutboxP!TypeOK /\ RegistryP!TypeOK /\ RegistryP!HandlerKnows
  BY RegistryFacts DEF IInv, OutboxP!IInv
<1>2. HostOK' /\ DeliversKnown'
  BY <1>1, HostKept, DeliversKept
<1>3. OutboxP!IInv'
  <2>1. [OutboxP!Next]_(OutboxP!outboxVars)
    BY <1>1, RefinesOutboxStep, SameLedger DEF outboxVars, OutboxP!outboxVars
  <2>2. QED BY <2>1, OutboxP!InvNext, ComponentAssumptions DEF IInv
<1>4. RegistryP!IInv'
  <2>1. [RegistryP!Next]_(RegistryP!registryVars)
    BY <1>1, RefinesRegistryStep, SameRegistry DEF registryVars, RegistryP!registryVars
  <2>2. QED BY <2>1, RegistryP!InvNext, ComponentAssumptions DEF IInv
<1>5. OnceInv' /\ EndInv' /\ AckInv'
  BY OnceKept, EndKept, AckKept DEF IInv
<1>6. QED BY <1>2, <1>3, <1>4, <1>5 DEF IInv

LEMMA Inv == Spec => []IInv
<1>1. Init => IInv
  BY InvInit
<1>2. IInv /\ [Next]_vars => IInv'
  BY InvNext
<1>3. QED BY <1>1, <1>2, PTL DEF Spec

\* The composition uses the delivery ledger as the specification of the ledger
\* allows (LedgerStep, NotifySettlement, the deliveries, Restart), so what is proved
\* of SettlementOutbox holds here.
THEOREM ImplementsOutbox == Spec => RefinesOutbox
<1>1. Init => Outbox!Init
  BY DEF Init
<1>2. IInv /\ [Next]_vars => [Outbox!Next]_(Outbox!outboxVars)
  BY RefinesOutboxStep DEF IInv, outboxVars, Outbox!outboxVars
<1>3. QED BY <1>1, <1>2, Inv, PTL DEF Spec, RefinesOutbox, Outbox!Spec

\* The same of the registry and its handlers: the answers the composition gives
\* them (latest turn, active runs, outcome of the resumed turn) are among those
\* YieldRegistry is proved for.
THEOREM ImplementsRegistry == Spec => RefinesRegistry
<1>1. Init => Registry!Init
  BY DEF Init
<1>2. IInv /\ [Next]_vars => [Registry!Next]_(Registry!registryVars)
  <2>1. IInv => HostOK /\ DeliversKnown /\ RegistryP!TypeOK /\ RegistryP!HandlerKnows
    BY RegistryFacts DEF IInv
  <2>2. QED BY <2>1, RefinesRegistryStep DEF registryVars, Registry!registryVars
<1>3. QED BY <1>1, <1>2, Inv, PTL DEF Spec, RefinesRegistry, Registry!Spec

\* Every reachable state of the composition is well typed.
THEOREM TypeCorrect == Spec => []TypeOK
<1>1. IInv => TypeOK
  <2> SUFFICES ASSUME IInv PROVE TypeOK
    OBVIOUS
  <2>1. Outbox!TypeOK
    BY DEF IInv, OutboxP!IInv, Outbox!TypeOK, OutboxP!TypeOK, Outbox!RowIds, OutboxP!RowIds,
           Outbox!Row, OutboxP!Row, Outbox!DeliveryState, OutboxP!DeliveryState,
           Outbox!Client, OutboxP!Client, Outbox!Clients, OutboxP!Clients, Outbox!Verdicts,
           OutboxP!Verdicts
  <2>2. Registry!TypeOK
    BY RegistryFacts
    DEF IInv, Registry!TypeOK, RegistryP!TypeOK, Registry!Entry, RegistryP!Entry,
        Registry!NoEntry, RegistryP!NoEntry, Registry!Record, RegistryP!Record,
        Registry!NoRecord, RegistryP!NoRecord, Registry!Resumer, RegistryP!Resumer,
        Registry!Waits, RegistryP!Waits, Registry!Turns, RegistryP!Turns, Registry!Times,
        RegistryP!Times
  <2>3. QED BY <2>1, <2>2 DEF IInv, HostOK, TypeOK
<1>2. QED BY <1>1, Inv, PTL

\* A yield gets at most one resumed turn in one life of the process, for any number
\* of sessions, runs and user messages, with lost writes, failing statements, lock
\* timeouts and restarts.
THEOREM ResumedOnce == Spec => []ResumedOncePerLife
<1>1. IInv => ResumedOncePerLife
  BY DEF IInv, OnceInv
<1>2. QED BY <1>1, Inv, PTL

\* The parent is resumed only after every run that was live at its yield has ended.
THEOREM ResumedAfter == Spec => []ResumedAfterItsRuns
<1>1. IInv => ResumedAfterItsRuns
  BY DEF IInv, EndInv, EndedFirst, ResumedAfterItsRuns
<1>2. QED BY <1>1, Inv, PTL

\* A settlement counts as delivered only if its session was resumed for it, for any
\* number of sessions, runs, refusals, lost writes, lock time-outs and crashes.
THEOREM DeliveredHeard == Spec => []DeliveredWasHeard
<1>1. IInv => DeliveredWasHeard
  BY DEF IInv, AckInv
<1>2. QED BY <1>1, Inv, PTL

\* The whole path behaves towards a waiting session as YieldPromise, with writes that
\* are lost or cut off by a crash: turns, runs, replays and shutdowns never bring back
\* a wait that was answered, replaced or cleared, and a restart only one whose record
\* is still there.
THEOREM RecoveryKeepsPromise == Spec => RegistryP!KeepsPromise
<1>1. Init => RegistryP!Init
  BY RegistryStarts DEF Init
<1>2. IInv /\ [Next]_vars => [RegistryP!Next]_(RegistryP!registryVars)
  <2>1. IInv => HostOK /\ DeliversKnown /\ RegistryP!TypeOK /\ RegistryP!HandlerKnows
    BY RegistryFacts DEF IInv
  <2>2. QED BY <2>1, RefinesRegistryStep, SameRegistry DEF registryVars, RegistryP!registryVars
<1>3. Spec => RegistryP!Spec
  BY <1>1, <1>2, Inv, PTL DEF Spec, RegistryP!Spec
<1>4. QED BY <1>3, RegistryP!RegistryKeepsPromise, ComponentAssumptions

=============================================================================
