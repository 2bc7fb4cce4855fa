----------------------- MODULE YieldRegistry_proofs -----------------------
(* Proofs about the registry of waits and its handlers.                    *)
EXTENDS YieldRegistry, TLAPS

-----------------------------------------------------------------------------
(* The inductive invariant.  Numbers of waits stand for references to      *)
(* entries, so most of it says where one number may occur.                 *)

\* Every wait that exists was numbered by Register.
WaitsUsed ==
  /\ \A s \in Sessions : entries[s].wait <= lastWait /\ waiting[s].wait <= lastWait
  /\ \A c \in Resumers : resumer[c].wait <= lastWait
  /\ \A w \in Waits : w > lastWait => claims[w] = 0

\* A wait belongs to one session, in memory and in the table.
WaitsOwned ==
  \A s, t \in Sessions : s # t =>
    /\ entries[s].wait # 0 => entries[s].wait # entries[t].wait
    /\ entries[s].wait # 0 => entries[s].wait # waiting[t].wait
    /\ waiting[s].wait # 0 => waiting[s].wait # waiting[t].wait

\* What is still waiting was not claimed in this life of the process.
WaitingUnclaimed == \A s \in Sessions : Waiting(s) => claims[entries[s].wait] = 0

\* From the moment it asks, a handler knows its session and its wait.
HandlerKnows ==
  \A c \in Resumers : resumer[c].pc \in {"judge", "claimed", "resuming"} =>
    resumer[c].session \in Sessions /\ resumer[c].wait \in Waits

\* The wait a handler holds is not waiting any more.
HeldIsClaimed ==
  \A c \in Resumers : Holds(c) /\ entries[resumer[c].session].wait = resumer[c].wait
    => entries[resumer[c].session].status = "claimed"

IInv ==
  /\ TypeOK
  /\ WaitsUsed
  /\ WaitsOwned
  /\ WaitingUnclaimed
  /\ ClaimedAtMostOnce
  /\ HandlerKnows
  /\ HeldIsClaimed
  /\ ClaimedHasOwner
  /\ DiskMirrorsRegistry

-----------------------------------------------------------------------------
(* Entries and records.                                                    *)

LEMMA EntryFacts ==
  ASSUME TypeOK, NEW s \in Sessions
  PROVE  /\ entries[s] \in Entry \/ entries[s] = NoEntry
         /\ Waiting(s) => entries[s] \in Entry /\ entries[s].wait \in Waits
         /\ entries[s].wait \in 0..MaxWaits
         /\ entries[s].wait = 0 <=> entries[s] = NoEntry
         /\ waiting[s] \in Record \/ waiting[s] = NoRecord
         /\ waiting[s].wait \in 0..MaxWaits
         /\ waiting[s].wait = 0 <=> waiting[s] = NoRecord
  BY RegistryAssumption
  DEF TypeOK, Waiting, Entry, NoEntry, Record, NoRecord, Waits

LEMMA ToRecordType ==
  /\ \A e \in Entry : ToRecord(e) \in Record /\ ToRecord(e).wait = e.wait
  /\ ToRecord(NoEntry) = NoRecord
  BY DEF ToRecord, Entry, Record, NoEntry, NoRecord

LEMMA ToEntryType ==
  /\ \A r \in Record : /\ ToEntry(r) \in Entry
                       /\ ToEntry(r).wait = r.wait
                       /\ ToEntry(r).status = "waiting"
                       /\ ToRecord(ToEntry(r)) = r
  /\ ToEntry(NoRecord) = NoEntry
<1>1. \A r \in Record : r # NoRecord
  BY RegistryAssumption DEF Record, NoRecord, Waits
<1>2. QED  BY <1>1 DEF ToEntry, ToRecord, Record, NoRecord, Entry, NoEntry

LEMMA InvInit == Init => IInv
<1> SUFFICES ASSUME Init PROVE IInv  OBVIOUS
<1>1. TypeOK
  <2>1. IdleResumer \in Resumer
    BY RegistryAssumption DEF IdleResumer, Resumer, Times, Turns
  <2>2. QED  BY <2>1, RegistryAssumption DEF Init, TypeOK
<1>2. WaitsUsed /\ WaitsOwned
  BY RegistryAssumption DEF Init, WaitsUsed, WaitsOwned, NoEntry, NoRecord, IdleResumer, Waits
<1>3. WaitingUnclaimed /\ ClaimedAtMostOnce /\ ClaimedHasOwner
  BY DEF Init, WaitingUnclaimed, ClaimedAtMostOnce, ClaimedHasOwner, Waiting, NoEntry
<1>4. HandlerKnows /\ HeldIsClaimed
  BY DEF Init, HandlerKnows, HeldIsClaimed, Holds, IdleResumer
<1>5. DiskMirrorsRegistry
  BY ToRecordType DEF Init, DiskMirrorsRegistry
<1>6. QED  BY <1>1, <1>2, <1>3, <1>4, <1>5 DEF IInv

-----------------------------------------------------------------------------
(* Each action keeps the invariant.                                        *)

LEMMA RegisterKeeps ==
  ASSUME IInv, NEW s \in Sessions, NEW now \in Times, Register(s, now)
  PROVE  IInv'
<1> USE DEF IInv
<1> DEFINE w == lastWait + 1
           e == [ wait |-> w, turn |-> 0, yieldedAt |-> now, status |-> "waiting" ]
<1>1. w \in Waits /\ lastWait \in 0..MaxWaits
  BY RegistryAssumption DEF Register, TypeOK, Waits
<1>2. e \in Entry /\ ToRecord(e) \in Record /\ ToRecord(e).wait = w
  <2>1. e \in Entry  BY <1>1, RegistryAssumption DEF Entry, Turns
  <2>2. QED  BY <2>1, ToRecordType
<1>3. /\ entries' = [entries EXCEPT ![s] = e]
      /\ waiting' = [waiting EXCEPT ![s] = ToRecord(e)] \/ waiting' = waiting
      /\ ~StoreMayFail => waiting' = [waiting EXCEPT ![s] = ToRecord(e)]
      /\ lastWait' = w
      /\ UNCHANGED <<resumer, claims>>
  BY DEF Register, Persist
<1>4. e.wait = w /\ e.status = "waiting"  OBVIOUS
<1> HIDE DEF w, e
<1>5. TypeOK'
  BY <1>1, <1>2, <1>3 DEF TypeOK, Waits
<1>6. \A t \in Sessions : /\ t # s => entries'[t] = entries[t]
                          /\ entries'[s] = e
  BY <1>3 DEF TypeOK
<1>7. \A t \in Sessions : /\ t # s => waiting'[t] = waiting[t]
                          /\ waiting'[s] = ToRecord(e) \/ waiting'[s] = waiting[s]
                          /\ ~StoreMayFail => waiting'[s] = ToRecord(e)
  BY <1>3 DEF TypeOK
<1>8. w = lastWait + 1 /\ lastWait \in Nat  BY <1>1 DEF w
<1>9. /\ \A t \in Sessions : entries[t].wait < w /\ waiting[t].wait < w
      /\ \A c \in Resumers : resumer[c].wait < w
  BY <1>8, EntryFacts DEF WaitsUsed, TypeOK, Resumer
<1>10. WaitsUsed'
  BY <1>2, <1>3, <1>4, <1>6, <1>7, <1>8, EntryFacts DEF WaitsUsed, TypeOK, Resumer, Waits
<1>11. WaitsOwned'
  <2>1. \A t \in Sessions : t # s =>
          entries'[t].wait # w /\ waiting'[t].wait # w
    BY <1>6, <1>7, <1>9, <1>8, EntryFacts
  <2>2. /\ entries'[s].wait = w
        /\ waiting'[s].wait = w \/ waiting'[s] = waiting[s]
    BY <1>2, <1>4, <1>6, <1>7
  <2>3. QED  BY <1>6, <1>7, <2>1, <2>2 DEF WaitsOwned
<1>12. WaitingUnclaimed' /\ ClaimedAtMostOnce'
  BY <1>1, <1>3, <1>4, <1>6, <1>8
  DEF WaitingUnclaimed, ClaimedAtMostOnce, Waiting, WaitsUsed
<1>13. HandlerKnows'  BY <1>3 DEF HandlerKnows
<1>14. HeldIsClaimed'
  <2> SUFFICES ASSUME NEW c \in Resumers, Holds(c),
                      entries'[resumer[c].session].wait = resumer[c].wait
               PROVE  entries'[resumer[c].session].status = "claimed"
    BY <1>3 DEF HeldIsClaimed, Holds
  <2>1. resumer[c].session \in Sessions /\ resumer[c].wait # w
    BY <1>8, <1>9 DEF HandlerKnows, Holds, TypeOK, Resumer
  <2>2. resumer[c].session # s  BY <1>4, <1>6, <2>1
  <2>3. QED  BY <1>6, <2>1, <2>2 DEF HeldIsClaimed
<1>15. ClaimedHasOwner'
  BY <1>3, <1>4, <1>6 DEF ClaimedHasOwner, Holds
<1>16. DiskMirrorsRegistry'
  BY <1>6, <1>7 DEF DiskMirrorsRegistry
<1>17. QED
  BY <1>5, <1>10, <1>11, <1>12, <1>13, <1>14, <1>15, <1>16

LEMMA UpdateTurnKeeps ==
  ASSUME IInv, NEW s \in Sessions, NEW turn \in Turns \ {0}, UpdateTurn(s, turn)
  PROVE  IInv'
<1> USE DEF IInv
<1> DEFINE e == [entries[s] EXCEPT !.turn = turn]
<1>1. entries[s] \in Entry /\ entries[s].wait \in Waits /\ entries[s].status = "waiting"
  BY EntryFacts DEF UpdateTurn, Waiting
<1>2. e \in Entry /\ e.wait = entries[s].wait /\ e.status = "waiting"
  BY <1>1 DEF Entry
<1>3. /\ entries' = [entries EXCEPT ![s] = e]
      /\ waiting' = [waiting EXCEPT ![s] = ToRecord(e)] \/ waiting' = waiting
      /\ ~StoreMayFail => waiting' = [waiting EXCEPT ![s] = ToRecord(e)]
      /\ UNCHANGED <<lastWait, resumer, claims>>
  BY DEF UpdateTurn, Persist
<1> HIDE DEF e
<1>4. ToRecord(e) \in Record /\ ToRecord(e).wait = entries[s].wait
  BY <1>2, ToRecordType
<1>5. TypeOK'
  BY <1>2, <1>3, <1>4 DEF TypeOK
<1>6. \A t \in Sessions : /\ t # s => entries'[t] = entries[t]
                          /\ entries'[s] = e
  BY <1>3 DEF TypeOK
<1>7. \A t \in Sessions : /\ t # s => waiting'[t] = waiting[t]
                          /\ waiting'[s] = ToRecord(e) \/ waiting'[s] = waiting[s]
                          /\ ~StoreMayFail => waiting'[s] = ToRecord(e)
  BY <1>3 DEF TypeOK
<1>8. \A t \in Sessions : /\ entries'[t].wait = entries[t].wait
                          /\ entries'[t].status = entries[t].status
  BY <1>1, <1>2, <1>6
<1>9. \A t \in Sessions : \/ waiting'[t].wait = waiting[t].wait
                          \/ t = s /\ waiting'[t].wait = entries[s].wait
  BY <1>4, <1>7
<1>10. WaitsUsed'
  BY <1>3, <1>8, <1>9 DEF WaitsUsed
<1>11. WaitsOwned'
  BY <1>1, <1>8, <1>9 DEF WaitsOwned
<1>12. WaitingUnclaimed' /\ ClaimedAtMostOnce' /\ HandlerKnows'
  BY <1>3, <1>8 DEF WaitingUnclaimed, ClaimedAtMostOnce, HandlerKnows, Waiting
<1>13. HeldIsClaimed' /\ ClaimedHasOwner'
  BY <1>3, <1>8 DEF HeldIsClaimed, ClaimedHasOwner, Holds, HandlerKnows
<1>14. DiskMirrorsRegistry'
  BY <1>6, <1>7 DEF DiskMirrorsRegistry
<1>15. QED
  BY <1>5, <1>10, <1>11, <1>12, <1>13, <1>14

\* A step of one handler that leaves the entries, the table and the claims alone,
\* and keeps or drops what the handler held.
LEMMA HandlerMoves ==
  ASSUME IInv, NEW c \in Resumers, NEW r \in Resumer,
         UNCHANGED <<entries, waiting, lastWait, claims>>,
         resumer' = [resumer EXCEPT ![c] = r],
         r.wait <= lastWait,
         r.pc \in {"judge", "claimed", "resuming"} => r.session \in Sessions /\ r.wait \in Waits,
         r.pc \in {"claimed", "resuming"} <=> Holds(c),
         Holds(c) => r.session = resumer[c].session /\ r.wait = resumer[c].wait
  PROVE  IInv'
<1> USE DEF IInv
<1>1. TypeOK'  BY DEF TypeOK
<1>2. /\ resumer'[c] = r
      /\ \A d \in Resumers : d # c => resumer'[d] = resumer[d]
  BY DEF TypeOK
<1>3. WaitsUsed' /\ WaitsOwned'  BY <1>2 DEF WaitsUsed, WaitsOwned
<1>4. WaitingUnclaimed' /\ ClaimedAtMostOnce' /\ DiskMirrorsRegistry'
  BY DEF WaitingUnclaimed, ClaimedAtMostOnce, DiskMirrorsRegistry, Waiting
<1>5. HandlerKnows'  BY <1>2 DEF HandlerKnows
<1>6. HeldIsClaimed' /\ ClaimedHasOwner'
  BY <1>2 DEF HeldIsClaimed, ClaimedHasOwner, Holds
<1>7. QED  BY <1>1, <1>3, <1>4, <1>5, <1>6

LEMMA BeginKeeps ==
  ASSUME IInv, NEW c \in Resumers, NEW s \in Sessions, NEW endedAt \in Times,
         NEW latest \in Turns, NEW restored \in BOOLEAN,
         Begin(c, s, endedAt, latest, restored)
  PROVE  IInv'
<1> DEFINE r == [ pc |-> IF Waiting(s) THEN "judge" ELSE "return",
                  session |-> s, wait |-> IF Waiting(s) THEN entries[s].wait ELSE 0,
                  endedAt |-> endedAt, latest |-> latest, restored |-> restored,
                  ack |-> FALSE ]
<1>1. /\ resumer' = [resumer EXCEPT ![c] = r]
      /\ UNCHANGED <<entries, waiting, lastWait, claims>>
      /\ ~Holds(c)
  BY DEF Begin, Holds
<1>2. /\ Waiting(s) => entries[s].wait \in Waits /\ entries[s].wait <= lastWait
      /\ 0 <= lastWait /\ 0 \in 0..MaxWaits /\ Waits \subseteq 0..MaxWaits
  BY EntryFacts, RegistryAssumption DEF IInv, WaitsUsed, TypeOK, Waits
<1>3. r \in Resumer
  BY <1>2 DEF Resumer
<1>4. /\ r.wait <= lastWait
      /\ r.pc = "judge" => r.session \in Sessions /\ r.wait \in Waits
      /\ r.pc \in {"judge", "return"}
  BY <1>2
<1> HIDE DEF r
<1>5. QED  BY <1>1, <1>3, <1>4, HandlerMoves

LEMMA RefuseKeeps ==
  ASSUME IInv, NEW c \in Resumers, NEW latest, NEW hasActiveRuns, NEW handlerSet,
         Refuse(c, latest, hasActiveRuns, handlerSet)
  PROVE  IInv'
<1> DEFINE r == [resumer[c] EXCEPT !.pc = "return"]
<1>1. /\ resumer' = [resumer EXCEPT ![c] = r]
      /\ UNCHANGED <<entries, waiting, lastWait, claims>>
      /\ ~Holds(c)
  BY DEF Refuse, Holds
<1>2. r \in Resumer /\ r.pc = "return" /\ r.wait = resumer[c].wait
  BY DEF IInv, TypeOK, Resumer
<1> HIDE DEF r
<1>3. r.wait <= lastWait  BY <1>2 DEF IInv, WaitsUsed
<1>4. QED  BY <1>1, <1>2, <1>3, HandlerMoves

LEMMA StartResumeKeeps ==
  ASSUME IInv, NEW c \in Resumers, StartResume(c)
  PROVE  IInv'
<1> DEFINE r == [resumer[c] EXCEPT !.pc = "resuming"]
<1>1. /\ resumer' = [resumer EXCEPT ![c] = r]
      /\ UNCHANGED <<entries, waiting, lastWait, claims>>
      /\ Holds(c)
  BY DEF StartResume, Holds
<1>2. /\ r \in Resumer /\ r.pc = "resuming"
      /\ r.wait = resumer[c].wait /\ r.session = resumer[c].session
  BY DEF IInv, TypeOK, Resumer
<1> HIDE DEF r
<1>3. r.wait <= lastWait /\ r.session \in Sessions /\ r.wait \in Waits
  BY <1>1, <1>2 DEF IInv, WaitsUsed, HandlerKnows, Holds
<1>4. QED  BY <1>1, <1>2, <1>3, HandlerMoves

LEMMA ReturnKeeps ==
  ASSUME IInv, NEW c \in Resumers, Return(c)
  PROVE  IInv'
<1>1. IdleResumer \in Resumer /\ IdleResumer.pc = "idle" /\ IdleResumer.wait = 0
  BY RegistryAssumption DEF IdleResumer, Resumer, Times, Turns
<1>2. /\ resumer' = [resumer EXCEPT ![c] = IdleResumer]
      /\ UNCHANGED <<entries, waiting, lastWait, claims>>
      /\ ~Holds(c)
  BY DEF Return, Holds
<1>3. 0 <= lastWait  BY RegistryAssumption DEF IInv, TypeOK
<1>4. QED  BY <1>1, <1>2, <1>3, HandlerMoves

LEMMA ClaimWaitKeeps ==
  ASSUME IInv, NEW c \in Resumers, NEW latest, NEW hasActiveRuns, NEW handlerSet,
         ClaimWait(c, latest, hasActiveRuns, handlerSet)
  PROVE  IInv'
<1> USE DEF IInv
<1> DEFINE s == resumer[c].session
           w == resumer[c].wait
           e == [entries[s] EXCEPT !.status = "claimed"]
           r == [resumer[c] EXCEPT !.pc = "claimed"]
<1>1. /\ resumer[c].pc = "judge" /\ s \in Sessions /\ w \in Waits
      /\ Waiting(s) /\ entries[s].wait = w /\ entries[s] \in Entry
  BY EntryFacts DEF ClaimWait, CanClaim, HandlerKnows
<1>2. /\ entries' = [entries EXCEPT ![s] = e]
      /\ claims' = [claims EXCEPT ![w] = claims[w] + 1]
      /\ resumer' = [resumer EXCEPT ![c] = r]
      /\ UNCHANGED <<waiting, lastWait>>
  BY <1>1 DEF ClaimWait
<1>3. /\ e \in Entry /\ e.wait = w /\ e.status = "claimed" /\ ToRecord(e) = ToRecord(entries[s])
      /\ r \in Resumer /\ r.pc = "claimed" /\ r.session = s /\ r.wait = w
  BY <1>1 DEF Entry, ToRecord, TypeOK, Resumer
<1>4. claims[w] = 0 /\ claims \in [Waits -> Nat]
  BY <1>1 DEF WaitingUnclaimed, TypeOK
<1> HIDE DEF e, r
<1>5. /\ entries'[s] = e /\ resumer'[c] = r /\ claims'[w] = 1
      /\ \A t \in Sessions : t # s => entries'[t] = entries[t]
      /\ \A d \in Resumers : d # c => resumer'[d] = resumer[d]
      /\ \A v \in Waits : v # w => claims'[v] = claims[v]
  BY <1>1, <1>2, <1>4 DEF TypeOK
<1> HIDE DEF s, w
<1>6. TypeOK'
  BY <1>1, <1>2, <1>3, <1>4 DEF TypeOK
<1>7. \A t \in Sessions : entries'[t].wait = entries[t].wait
  BY <1>1, <1>3, <1>5
<1>8. WaitsUsed'
  <2>1. \A d \in Resumers : resumer'[d].wait <= lastWait'
    BY <1>2, <1>3, <1>5 DEF WaitsUsed, w
  <2>2. w <= lastWait  BY <1>1 DEF WaitsUsed
  <2>3. \A v \in Waits : v > lastWait' => claims'[v] = 0
    BY <1>2, <1>5, <2>2 DEF WaitsUsed, TypeOK, Waits
  <2>4. QED  BY <1>2, <1>7, <2>1, <2>3 DEF WaitsUsed
<1>9. WaitsOwned'  BY <1>2, <1>7 DEF WaitsOwned
<1>10. WaitingUnclaimed'
  <2> SUFFICES ASSUME NEW t \in Sessions, entries'[t].status = "waiting"
               PROVE  claims'[entries'[t].wait] = 0
    BY DEF WaitingUnclaimed, Waiting
  <2>1. t # s /\ Waiting(t)  BY <1>3, <1>5 DEF Waiting
  <2>2. entries[t].wait \in Waits /\ entries[t].wait # w
    BY <1>1, <2>1, EntryFacts DEF WaitsOwned, Waits
  <2>3. QED  BY <1>5, <2>1, <2>2 DEF WaitingUnclaimed
<1>11. ClaimedAtMostOnce'
  BY <1>5 DEF ClaimedAtMostOnce
<1>12. HandlerKnows'
  BY <1>1, <1>3, <1>5 DEF HandlerKnows
<1>13. HeldIsClaimed'
  <2> SUFFICES ASSUME NEW d \in Resumers, Holds(d)',
                      entries'[resumer'[d].session].wait = resumer'[d].wait
               PROVE  entries'[resumer'[d].session].status = "claimed"
    BY DEF HeldIsClaimed
  <2>1. CASE d = c  BY <1>3, <1>5, <2>1
  <2>2. CASE d # c
    <3>1. Holds(d) /\ resumer'[d] = resumer[d] /\ resumer[d].session \in Sessions
      BY <1>5, <2>2 DEF Holds, HandlerKnows
    <3>2. entries[resumer[d].session].status = "claimed"
      BY <1>7, <3>1 DEF HeldIsClaimed
    <3>3. QED  BY <1>3, <1>5, <3>1, <3>2
  <2>3. QED  BY <2>1, <2>2
<1>14. ClaimedHasOwner'
  <2> SUFFICES ASSUME NEW t \in Sessions, entries'[t].status = "claimed"
               PROVE  \E d \in Resumers : /\ Holds(d)'
                                          /\ resumer'[d].session = t
                                          /\ resumer'[d].wait = entries'[t].wait
    BY DEF ClaimedHasOwner
  <2>1. CASE t = s
    BY <1>3, <1>5, <2>1 DEF Holds
  <2>2. CASE t # s
    <3>1. PICK d \in Resumers : /\ Holds(d)
                                /\ resumer[d].session = t
                                /\ resumer[d].wait = entries[t].wait
      BY <1>5, <2>2 DEF ClaimedHasOwner
    <3>2. d # c  BY <1>1, <3>1 DEF Holds
    <3>3. QED  BY <1>5, <1>7, <3>1, <3>2 DEF Holds
  <2>3. QED  BY <2>1, <2>2
<1>15. DiskMirrorsRegistry'
  BY <1>2, <1>3, <1>5 DEF DiskMirrorsRegistry
<1>16. QED
  BY <1>6, <1>8, <1>9, <1>10, <1>11, <1>12, <1>13, <1>14, <1>15

LEMMA FinishKeeps ==
  ASSUME IInv, NEW c \in Resumers, NEW ok \in BOOLEAN, Finish(c, ok)
  PROVE  IInv'
<1> USE DEF IInv
<1> DEFINE s == resumer[c].session
           w == resumer[c].wait
           recorded == entries[s].wait = w
           r == [resumer[c] EXCEPT !.pc = "return", !.ack = ok /\ recorded]
<1>1. resumer[c].pc = "resuming" /\ s \in Sessions /\ w \in Waits
  BY DEF Finish, Recorded, HandlerKnows
<1>2. /\ resumer' = [resumer EXCEPT ![c] = r]
      /\ UNCHANGED <<lastWait, claims>>
  BY DEF Finish, Recorded
<1>3. r \in Resumer /\ r.pc = "return" /\ r.session = s /\ r.wait = w
  BY DEF TypeOK, Resumer
<1>4. \A t \in Sessions :
        \/ entries'[t] = entries[t]
        \/ t = s /\ recorded /\ entries'[t] = NoEntry
  BY DEF Finish, Recorded, TypeOK
<1>5. \A t \in Sessions :
        \/ waiting'[t] = waiting[t] /\ (StoreMayFail \/ entries'[t] = entries[t])
        \/ waiting'[t] = NoRecord /\ entries'[t] = NoEntry
  BY <1>1 DEF Finish, Recorded, TypeOK, Persist
<1>6. recorded => entries'[s] = NoEntry
  BY <1>1 DEF Finish, Recorded, TypeOK
<1>7. entries' \in [Sessions -> Entry \cup {NoEntry}] /\ waiting' \in [Sessions -> Record \cup {NoRecord}]
  BY <1>1 DEF Finish, Recorded, Persist, TypeOK
<1> HIDE DEF r
<1>8. TypeOK'  BY <1>2, <1>3, <1>7 DEF TypeOK
<1>9. /\ resumer'[c] = r
      /\ \A d \in Resumers : d # c => resumer'[d] = resumer[d]
  BY <1>2 DEF TypeOK
<1>10. \A t \in Sessions :
         /\ entries'[t].wait = entries[t].wait \/ entries'[t].wait = 0
         /\ waiting'[t].wait = waiting[t].wait \/ waiting'[t].wait = 0
  BY <1>4, <1>5 DEF NoEntry, NoRecord
<1>11. WaitsUsed'
  <2>1. lastWait \in Nat  BY DEF TypeOK
  <2>2. \A d \in Resumers : resumer'[d].wait <= lastWait  BY <1>3, <1>9 DEF WaitsUsed
  <2>3. QED  BY <1>2, <1>10, <2>1, <2>2 DEF WaitsUsed
<1>12. WaitsOwned'  BY <1>10 DEF WaitsOwned
<1>13. WaitingUnclaimed' /\ ClaimedAtMostOnce'
  BY <1>2, <1>4 DEF WaitingUnclaimed, ClaimedAtMostOnce, Waiting, NoEntry
<1>14. HandlerKnows'  BY <1>3, <1>9 DEF HandlerKnows
<1>15. HeldIsClaimed'
  <2> SUFFICES ASSUME NEW d \in Resumers, Holds(d)',
                      entries'[resumer'[d].session].wait = resumer'[d].wait
               PROVE  entries'[resumer'[d].session].status = "claimed"
    BY DEF HeldIsClaimed
  <2>1. d # c /\ resumer'[d] = resumer[d] /\ Holds(d)  BY <1>3, <1>9 DEF Holds
  <2>2. resumer[d].session \in Sessions /\ resumer[d].wait # 0
    BY <2>1 DEF HandlerKnows, Holds, Waits
  <2>3. entries'[resumer[d].session] = entries[resumer[d].session]
    BY <1>4, <2>1, <2>2 DEF NoEntry
  <2>4. QED  BY <2>1, <2>3 DEF HeldIsClaimed
<1>16. ClaimedHasOwner'
  <2> SUFFICES ASSUME NEW t \in Sessions, entries'[t].status = "claimed"
               PROVE  \E d \in Resumers : /\ Holds(d)'
                                          /\ resumer'[d].session = t
                                          /\ resumer'[d].wait = entries'[t].wait
    BY DEF ClaimedHasOwner
  <2>1. entries'[t] = entries[t]  BY <1>4 DEF NoEntry
  <2>2. PICK d \in Resumers : /\ Holds(d)
                              /\ resumer[d].session = t
                              /\ resumer[d].wait = entries[t].wait
    BY <2>1 DEF ClaimedHasOwner
  <2>3. d # c
    <3>1. SUFFICES ASSUME d = c PROVE FALSE  OBVIOUS
    <3>2. entries'[s] = NoEntry  BY <1>6, <2>2, <3>1
    <3>3. QED  BY <2>2, <3>1, <3>2 DEF NoEntry
  <2>4. QED  BY <1>9, <2>1, <2>2, <2>3 DEF Holds
<1>17. DiskMirrorsRegistry'
  BY <1>5, ToRecordType DEF DiskMirrorsRegistry
<1>18. QED
  BY <1>8, <1>11, <1>12, <1>13, <1>14, <1>15, <1>16, <1>17

LEMMA ClearKeeps ==
  ASSUME IInv, Clear
  PROVE  IInv'
<1> USE DEF IInv
<1>1. /\ \A s \in Sessions : entries'[s] = NoEntry
      /\ entries' \in [Sessions -> {NoEntry}]
      /\ UNCHANGED <<lastWait, resumer, claims>>
  BY DEF Clear
<1>2. /\ waiting' \in [Sessions -> Record \cup {NoRecord}]
      /\ \A s \in Sessions : waiting'[s] = NoRecord \/ (StoreMayFail /\ waiting'[s] = waiting[s])
  BY DEF Clear, Persist, TypeOK
<1>3. NoEntry.wait = 0 /\ NoEntry.status = "none" /\ NoRecord.wait = 0
  BY DEF NoEntry, NoRecord
<1>4. TypeOK'  BY <1>1, <1>2 DEF TypeOK
<1>5. WaitsUsed' /\ WaitsOwned'
  <2>1. lastWait \in Nat  BY DEF TypeOK
  <2>2. QED  BY <1>1, <1>2, <1>3, <2>1 DEF WaitsUsed, WaitsOwned
<1>6. WaitingUnclaimed' /\ ClaimedAtMostOnce' /\ HandlerKnows' /\ ClaimedHasOwner'
  BY <1>1, <1>3
  DEF WaitingUnclaimed, ClaimedAtMostOnce, HandlerKnows, ClaimedHasOwner, Waiting
<1>7. HeldIsClaimed'
  BY <1>1, <1>3 DEF HeldIsClaimed, HandlerKnows, Holds, Waits
<1>8. DiskMirrorsRegistry'  BY <1>1, <1>2, ToRecordType DEF DiskMirrorsRegistry
<1>9. QED  BY <1>4, <1>5, <1>6, <1>7, <1>8

LEMMA RestartKeeps ==
  ASSUME IInv, Restart
  PROVE  IInv'
<1> USE DEF IInv
<1>1. /\ \/ entries' = [s \in Sessions |-> ToEntry(waiting[s])]
         \/ StoreMayFail /\ entries' = [s \in Sessions |-> NoEntry]
      /\ \A c \in Resumers : resumer'[c] = IdleResumer
      /\ resumer' = [c \in Resumers |-> IdleResumer]
      /\ \A w \in Waits : claims'[w] = 0
      /\ claims' = [w \in Waits |-> 0]
      /\ UNCHANGED <<waiting, lastWait>>
  BY DEF Restart
\* An entry comes from its record, or from a table that could not be read.
<1>2. \A s \in Sessions :
        /\ entries'[s] \in Entry \cup {NoEntry}
        /\ entries'[s].wait \in {0, waiting[s].wait}
        /\ entries'[s].status # "claimed"
        /\ StoreMayFail \/ ToRecord(entries'[s]) = waiting[s]
        /\ entries'[s].status = "waiting" => entries'[s].wait \in Waits
  <2> TAKE s \in Sessions
  <2>1. CASE entries'[s] = ToEntry(waiting[s]) /\ waiting[s] \in Record
    BY <2>1, ToEntryType DEF Entry
  <2>2. CASE entries'[s] = ToEntry(waiting[s]) /\ waiting[s] = NoRecord
    BY <2>2, ToEntryType, ToRecordType DEF NoEntry, NoRecord
  <2>3. CASE StoreMayFail /\ entries'[s] = NoEntry
    BY <2>3 DEF NoEntry
  <2>4. QED  BY <1>1, <2>1, <2>2, <2>3, EntryFacts
<1>3. TypeOK'
  <2>1. IdleResumer \in Resumer
    BY RegistryAssumption DEF IdleResumer, Resumer, Times, Turns
  <2>2. entries' \in [Sessions -> Entry \cup {NoEntry}]
    <3>1. CASE entries' = [s \in Sessions |-> ToEntry(waiting[s])]
      BY <1>2, <3>1
    <3>2. CASE entries' = [s \in Sessions |-> NoEntry]
      BY <3>2
    <3>3. QED  BY <1>1, <3>1, <3>2
  <2>3. QED  BY <1>1, <2>1, <2>2 DEF TypeOK
<1>4. WaitsUsed' /\ WaitsOwned'
  <2>1. lastWait \in Nat  BY DEF TypeOK
  <2>2. QED  BY <1>1, <1>2, <2>1 DEF WaitsUsed, WaitsOwned, IdleResumer
<1>5. WaitingUnclaimed' /\ ClaimedAtMostOnce' /\ ClaimedHasOwner'
  BY <1>1, <1>2 DEF WaitingUnclaimed, ClaimedAtMostOnce, ClaimedHasOwner, Waiting
<1>6. HandlerKnows' /\ HeldIsClaimed'
  BY <1>1 DEF HandlerKnows, HeldIsClaimed, Holds, IdleResumer
<1>7. DiskMirrorsRegistry'  BY <1>1, <1>2 DEF DiskMirrorsRegistry
<1>8. QED  BY <1>3, <1>4, <1>5, <1>6, <1>7

LEMMA InvNext == IInv /\ [Next]_registryVars => IInv'
<1> SUFFICES ASSUME IInv, [Next]_registryVars PROVE IInv'  OBVIOUS
<1>1. CASE \E s \in Sessions, now \in Times : Register(s, now)
  BY <1>1, RegisterKeeps
<1>2. CASE \E s \in Sessions, turn \in Turns \ {0} : UpdateTurn(s, turn)
  BY <1>2, UpdateTurnKeeps
<1>3. CASE \E c \in Resumers, s \in Sessions, endedAt \in Times, latest \in Turns,
              restored \in BOOLEAN : Begin(c, s, endedAt, latest, restored)
  BY <1>3, BeginKeeps
<1>4. ASSUME NEW c \in Resumers, Handle(c)
      PROVE  IInv'
  BY <1>4, RefuseKeeps, ClaimWaitKeeps, StartResumeKeeps, FinishKeeps, ReturnKeeps DEF Handle
<1>5. CASE Clear  BY <1>5, ClearKeeps
<1>6. CASE Restart  BY <1>6, RestartKeeps
<1>7. CASE UNCHANGED registryVars
  BY <1>7
  DEF registryVars, IInv, TypeOK, WaitsUsed, WaitsOwned, WaitingUnclaimed, ClaimedAtMostOnce,
      HandlerKnows, HeldIsClaimed, ClaimedHasOwner, DiskMirrorsRegistry, Waiting, Holds
<1>8. QED  BY <1>1, <1>2, <1>3, <1>4, <1>5, <1>6, <1>7 DEF Next

LEMMA Inv == Spec => []IInv
  BY InvInit, InvNext, PTL DEF Spec

-----------------------------------------------------------------------------
(* The theorems.                                                           *)

\* The registry, its table and its handlers keep their types.
THEOREM TypeCorrect == Spec => []TypeOK
  BY Inv, PTL DEF IInv

\* A wait is claimed at most once in one life of the process, for any number of
\* sessions and concurrent settlements, lost writes to the table included.
THEOREM ClaimedOnce == Spec => []ClaimedAtMostOnce
  BY Inv, PTL DEF IInv

\* A claimed entry is always in the hands of a handler that is still at work.
THEOREM ClaimedIsOwned == Spec => []ClaimedHasOwner
  BY Inv, PTL DEF IInv

\* With no write lost, the table rebuilds exactly the waits of the moment of a crash.
THEOREM DiskMirrors == Spec => []DiskMirrorsRegistry
  BY Inv, PTL DEF IInv

LEMMA StepSparesWaiting == IInv /\ [Next]_registryVars => SparesWaiting
<1> SUFFICES ASSUME IInv, [Next]_registryVars,
                    NEW c \in Resumers, NEW s \in Sessions,
                    Waiting(s), resumer[c].pc = "resuming", resumer'[c].pc = "return"
             PROVE  entries'[s] = entries[s]
  BY DEF SparesWaiting
<1>1. Holds(c) /\ resumer[c].session \in Sessions
  BY DEF Holds, IInv, HandlerKnows
<1>2. entries[resumer[c].session].wait = resumer[c].wait => resumer[c].session # s
  BY <1>1 DEF IInv, HeldIsClaimed, Waiting
<1>3. CASE UNCHANGED registryVars  BY <1>3 DEF registryVars
<1>4. CASE \/ \E t \in Sessions, now \in Times : Register(t, now)
           \/ \E t \in Sessions, turn \in Turns \ {0} : UpdateTurn(t, turn)
           \/ Clear
  BY <1>4 DEF Register, UpdateTurn, Clear
<1>5. CASE Restart  BY <1>5 DEF Restart, IdleResumer
<1>6. ASSUME NEW d \in Resumers, \/ \E t \in Sessions, endedAt \in Times, latest \in Turns,
                                      restored \in BOOLEAN : Begin(d, t, endedAt, latest, restored)
                                 \/ Handle(d)
      PROVE  entries'[s] = entries[s]
  <2>1. CASE d = c
    <3>1. \/ StartResume(c)
          \/ \E ok \in BOOLEAN : Finish(c, ok)
      BY <1>6, <2>1 DEF Handle, Begin, Refuse, ClaimWait, Return
    <3>2. QED  BY <1>1, <1>2, <3>1 DEF StartResume, Finish, Recorded, IInv, TypeOK
  <2>2. CASE d # c
    <3>1. resumer'[c] = resumer[c]
      BY <1>6, <2>2 DEF Handle, Begin, Refuse, ClaimWait, StartResume, Finish, Recorded, Return, IInv, TypeOK
    <3>2. QED  BY <3>1
  <2>3. QED  BY <2>1, <2>2
<1>7. QED  BY <1>3, <1>4, <1>5, <1>6 DEF Next

\* A handler that finishes late removes nothing that is still waiting.
THEOREM NewerSurvives == Spec => NewerWaitSurvives
  BY Inv, StepSparesWaiting, PTL DEF Spec, NewerWaitSurvives

-----------------------------------------------------------------------------
(* The registry implements YieldPromise, writes that are lost included.    *)

\* What the mapping makes of an entry.
LEMMA StageOf ==
  ASSUME TypeOK, NEW s \in Sessions
  PROVE  /\ Stage(s) = "armed" <=> entries[s].status = "waiting"
         /\ Stage(s) = "taken" <=> entries[s].status = "claimed"
         /\ entries[s] = NoEntry <=> Stage(s) = "none"
         /\ Stage(s) \in {"armed", "taken", "none"}
  BY EntryFacts DEF Stage, Entry, NoEntry

LEMMA PromiseInit == Init => Promise!Init
  BY DEF Init, Promise!Init, Promise!Nothing, Current, Saved, Stage, NoEntry, NoRecord

\* A write to the table is a write of the abstract records.
LEMMA PersistMaps ==
  ASSUME TypeOK, NEW table, Persist(table), NEW records,
         records = [s \in Sessions |-> table[s].wait]
  PROVE  Promise!Write(records)
<1>1. CASE waiting' = table  BY <1>1 DEF Promise!Write, Saved
<1>2. CASE StoreMayFail /\ UNCHANGED waiting  BY <1>2 DEF Promise!Write, Saved
<1>3. QED  BY <1>1, <1>2 DEF Persist

\* What changes in the abstract view when one record changes.
LEMMA RecordOf ==
  ASSUME TypeOK, NEW s \in Sessions, NEW r
  PROVE  [Saved EXCEPT ![s] = r.wait] = [t \in Sessions |-> [waiting EXCEPT ![s] = r][t].wait]
  BY DEF Saved, TypeOK

LEMMA PromiseNext ==
  ASSUME IInv, [Next]_registryVars
  PROVE  [Promise!Next]_(Promise!promiseVars)
<1> USE DEF IInv
<1> DEFINE View(s) == [wait |-> entries[s].wait, stage |-> Stage(s)]
<1>v. /\ Current = [s \in Sessions |-> View(s)]
      /\ Current' = [s \in Sessions |-> View(s)']
  BY DEF Current
\* A step that changes no wait and no status.
<1>same. ASSUME \A s \in Sessions : entries'[s].wait = entries[s].wait
                                   /\ entries'[s].status = entries[s].status
         PROVE  Current' = Current
  BY <1>same DEF Current, Stage
\* A step that changes the entry of one session alone.
<1>one. ASSUME NEW s \in Sessions, NEW e, entries' = [entries EXCEPT ![s] = e]
        PROVE  Current' = [Current EXCEPT ![s] = View(s)']
  <2>1. \A t \in Sessions \ {s} : View(t)' = View(t)
    BY <1>one DEF TypeOK, Stage
  <2>2. QED  BY <1>v, <2>1
<1>1. ASSUME NEW s \in Sessions, NEW now \in Times, Register(s, now)
      PROVE  Promise!Next
  <2>0. PICK e : e = [ wait |-> lastWait + 1, turn |-> 0, yieldedAt |-> now,
                       status |-> "waiting" ]
    OBVIOUS
  <2>1. /\ lastWait' = lastWait + 1
        /\ entries' = [entries EXCEPT ![s] = e]
        /\ Persist([waiting EXCEPT ![s] = ToRecord(e)])
        /\ ToRecord(e).wait = lastWait + 1
    BY <1>1, <2>0 DEF Register, ToRecord
  <2>2. View(s)' = [wait |-> lastWait + 1, stage |-> "armed"]
    BY <2>0, <2>1 DEF TypeOK, Stage
  <2>3. Promise!Armed(lastWait + 1) = [wait |-> lastWait + 1, stage |-> "armed"]
    <3>1. lastWait \in Nat  BY DEF TypeOK
    <3>2. QED  BY <3>1 DEF Promise!Armed
  <2>4. Promise!Write([Saved EXCEPT ![s] = lastWait + 1])
    <3>1. PICK r : r = ToRecord(e)  OBVIOUS
    <3>2. [Saved EXCEPT ![s] = lastWait + 1] = [t \in Sessions |-> [waiting EXCEPT ![s] = r][t].wait]
      BY <2>1, <3>1, RecordOf
    <3>3. QED  BY <2>1, <3>1, <3>2, PersistMaps
  <2>5. Promise!Arm(s)  BY <1>one, <2>1, <2>2, <2>3, <2>4 DEF Promise!Arm
  <2>6. QED  BY <2>5 DEF Promise!Next
<1>2. ASSUME NEW s \in Sessions, NEW turn \in Turns \ {0}, UpdateTurn(s, turn)
      PROVE  [Promise!Next]_(Promise!promiseVars)
  <2>0. PICK e : e = [entries[s] EXCEPT !.turn = turn]
    OBVIOUS
  <2>1. entries[s] \in Entry /\ Waiting(s)  BY <1>2, EntryFacts DEF UpdateTurn
  <2>2. /\ entries' = [entries EXCEPT ![s] = e]
        /\ lastWait' = lastWait
        /\ waiting' = [waiting EXCEPT ![s] = ToRecord(e)] \/ waiting' = waiting
    BY <1>2, <2>0 DEF UpdateTurn, Persist
  <2>3. Current' = Current
    BY <1>same, <2>0, <2>1, <2>2 DEF TypeOK, Entry
  <2>4. CASE waiting' = waiting
    BY <2>2, <2>3, <2>4 DEF Promise!promiseVars, Saved
  <2>5. CASE waiting' = [waiting EXCEPT ![s] = ToRecord(e)]
    <3>1. ToRecord(e).wait = entries[s].wait  BY <2>0, <2>1 DEF ToRecord, Entry
    <3>2. Saved' = [Saved EXCEPT ![s] = entries[s].wait]
      BY <2>5, <3>1, RecordOf DEF Saved
    <3>3. Current[s].wait = entries[s].wait /\ Current[s].stage = "armed"
      BY <1>v, <2>1 DEF Stage, Waiting
    <3>4. Promise!Save(s)  BY <2>2, <2>3, <3>2, <3>3 DEF Promise!Save
    <3>5. QED  BY <3>4 DEF Promise!Next
  <2>6. QED  BY <2>2, <2>4, <2>5
<1>3. ASSUME NEW c \in Resumers, NEW latest, NEW active, NEW set, ClaimWait(c, latest, active, set)
      PROVE  Promise!Next
  <2>0. PICK s \in Sessions : s = resumer[c].session
    BY <1>3 DEF ClaimWait, HandlerKnows
  <2>1. entries[s] \in Entry /\ entries[s].status = "waiting"
    BY <1>3, <2>0, EntryFacts DEF ClaimWait, CanClaim, Waiting
  <2>2. /\ entries' = [entries EXCEPT ![s] = [entries[s] EXCEPT !.status = "claimed"]]
        /\ lastWait' = lastWait /\ Saved' = Saved
    BY <1>3, <2>0 DEF ClaimWait, Saved
  <2>3. View(s) = [wait |-> entries[s].wait, stage |-> "armed"]
    BY <2>1 DEF Stage
  <2>4. View(s)' = [wait |-> entries[s].wait, stage |-> "taken"]
    BY <2>1, <2>2 DEF TypeOK, Entry, Stage
  <2>5. Promise!Take(s)
    <3>1. Current[s] = View(s)  BY <1>v
    <3>2. Current' = [Current EXCEPT ![s] = View(s)']  BY <1>one, <2>2
    <3>3. View(s)' = [View(s) EXCEPT !.stage = "taken"]  BY <2>3, <2>4
    <3> HIDE DEF View
    <3>4. Current' = [Current EXCEPT ![s].stage = "taken"]  BY <3>1, <3>2, <3>3
    <3>5. Current[s].stage = "armed"  BY <2>3, <3>1 DEF View
    <3>6. QED  BY <2>2, <3>4, <3>5 DEF Promise!Take
  <2>6. QED  BY <2>1, <2>5 DEF Promise!Next
<1>4. ASSUME NEW c \in Resumers, NEW ok \in BOOLEAN, Finish(c, ok)
      PROVE  [Promise!Next]_(Promise!promiseVars)
  <2>1. PICK s \in Sessions : s = resumer[c].session /\ resumer[c].wait \in Waits
    BY <1>4 DEF Finish, Recorded, HandlerKnows
  <2>2. CASE entries[s].wait = resumer[c].wait
    <3>1. /\ entries' = [entries EXCEPT ![s] = NoEntry]
          /\ lastWait' = lastWait
          /\ entries[s].status = "claimed"
          /\ Persist([waiting EXCEPT ![s] = NoRecord])
      BY <1>4, <2>1, <2>2 DEF Finish, Recorded, HeldIsClaimed, Holds
    <3>2. View(s).stage = "taken"  BY <2>1, <3>1 DEF Stage
    <3>3. View(s)' = Promise!Nothing
      BY <2>1, <3>1 DEF TypeOK, Stage, NoEntry, Promise!Nothing
    <3>4. Promise!Write([Saved EXCEPT ![s] = 0])
      <4>1. NoRecord.wait = 0  BY DEF NoRecord
      <4>2. [Saved EXCEPT ![s] = 0] = [t \in Sessions |-> [waiting EXCEPT ![s] = NoRecord][t].wait]
        BY <4>1, RecordOf
      <4>3. QED  BY <3>1, <4>2, PersistMaps
    <3>5. Promise!Settle(s)
      BY <1>v, <1>one, <2>1, <3>1, <3>2, <3>3, <3>4 DEF Promise!Settle
    <3>6. QED  BY <2>1, <3>5 DEF Promise!Next
  <2>3. CASE entries[s].wait # resumer[c].wait
    <3>1. UNCHANGED <<entries, waiting, lastWait>>
      BY <1>4, <2>1, <2>3 DEF Finish, Recorded
    <3>2. QED  BY <1>same, <3>1 DEF Promise!promiseVars, Saved
  <2>4. QED  BY <2>2, <2>3
<1>5. CASE Clear
  <2>1. \A s \in Sessions : View(s)' = Promise!Nothing
    BY <1>5 DEF Clear, Stage, NoEntry, Promise!Nothing
  <2>2. Promise!Write([s \in Sessions |-> 0])
    <3>1. NoRecord.wait = 0  BY DEF NoRecord
    <3>2. [s \in Sessions |-> 0] = [s \in Sessions |-> [t \in Sessions |-> NoRecord][s].wait]
      BY <3>1
    <3>3. QED  BY <1>5, <3>2, PersistMaps DEF Clear
  <2>3. Promise!DropAll  BY <1>v, <1>5, <2>1, <2>2 DEF Clear, Promise!DropAll
  <2>4. QED  BY <2>3 DEF Promise!Next
<1>6. CASE Restart
  <2>1. Saved' = Saved /\ lastWait' = lastWait  BY <1>6 DEF Restart, Saved
  <2>2. CASE entries' = [s \in Sessions |-> ToEntry(waiting[s])]
    <3>1. \A s \in Sessions : View(s)' = Promise!Armed(Saved[s])
      <4> TAKE s \in Sessions
      <4>1. CASE waiting[s] = NoRecord
        <5>1. entries'[s] = NoEntry /\ Saved[s] = 0
          BY <2>2, <4>1, ToEntryType DEF Saved, NoRecord
        <5>2. QED  BY <5>1 DEF Stage, NoEntry, Promise!Armed, Promise!Nothing
      <4>2. CASE waiting[s] \in Record
        <5>1. /\ entries'[s].wait = waiting[s].wait /\ entries'[s].status = "waiting"
              /\ Saved[s] = waiting[s].wait
          BY <2>2, <4>2, ToEntryType DEF Saved
        <5>2. waiting[s].wait # 0  BY <4>2, RegistryAssumption DEF Record, Waits
        <5>3. QED  BY <5>1, <5>2 DEF Stage, Promise!Armed
      <4>3. QED  BY <4>1, <4>2, EntryFacts
    <3>2. Promise!Revive
      BY <1>v, <2>1, <3>1 DEF Promise!Revive
    <3>3. QED  BY <3>2 DEF Promise!Next
  <2>3. CASE StoreMayFail /\ entries' = [s \in Sessions |-> NoEntry]
    <3>1. \A s \in Sessions : View(s)' = Promise!Nothing
      BY <2>3 DEF Stage, NoEntry, Promise!Nothing
    <3>2. Promise!Revive
      BY <1>v, <2>1, <2>3, <3>1 DEF Promise!Revive
    <3>3. QED  BY <3>2 DEF Promise!Next
  <2>4. QED  BY <1>6, <2>2, <2>3 DEF Restart
<1>7. ASSUME NEW c \in Resumers,
             \/ \E s \in Sessions, endedAt \in Times, latest \in Turns, restored \in BOOLEAN :
                  Begin(c, s, endedAt, latest, restored)
             \/ \E latest \in Turns, active, set \in BOOLEAN : Refuse(c, latest, active, set)
             \/ StartResume(c)
             \/ Return(c)
      PROVE  UNCHANGED Promise!promiseVars
  <2>1. UNCHANGED <<entries, waiting, lastWait>>
    BY <1>7 DEF Begin, Refuse, StartResume, Return
  <2>2. QED  BY <1>same, <2>1 DEF Promise!promiseVars, Saved
<1>8. CASE UNCHANGED registryVars
  BY <1>8, <1>same DEF registryVars, Promise!promiseVars, Saved
<1>9. QED
  BY <1>1, <1>2, <1>3, <1>4, <1>5, <1>6, <1>7, <1>8 DEF Next, Handle

\* Whatever handlers, turns, shutdowns and restarts do, and whichever writes are lost
\* or cut off by a crash, the registry behaves as YieldPromise: a settled, replaced or
\* cleared wait returns only if a restart finds its record still in the table.
THEOREM RegistryKeepsPromise == Spec => KeepsPromise
<1>1. Init => Promise!Init  BY PromiseInit
<1>2. IInv /\ [Next]_registryVars => [Promise!Next]_(Promise!promiseVars)
  BY PromiseNext
<1>3. QED  BY <1>1, <1>2, Inv, PTL DEF Spec, KeepsPromise, Promise!Spec
=============================================================================
