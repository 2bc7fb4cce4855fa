------------------------- MODULE ChannelTurns_proofs -------------------------
(* Proofs about the turns of channel messages.  A step of a turn is a step *)
(* of the manager or leaves it alone, so what is proved of the manager     *)
(* holds here; on top of it an inductive invariant of the turns.           *)
EXTENDS ChannelTurns, ExecutionManager_proofs

-----------------------------------------------------------------------------
(* The inductive invariant.                                                *)

\* While no write has failed, the disk has what memory has.
DiskFollows ==
  faults = 0 =>
    /\ attached
    /\ \A id \in Ids : IsActive(records[id]) => executions[id] = records[id]

\* Every turn has an execution of its own.
LeaseApart ==
  \A t \in Turns :
    /\ turn[t] \in {"new", "waiting"} => gen[t] = "none" /\ lease[t] = None /\ tool[t] = NoTool
    /\ gen[t] # "none" \/ turn[t] \in {"consuming", "graceIdle", "graceAsked"} => lease[t] # None
    /\ lease[t] # None =>
         /\ lease[t] <= issued
         /\ records[lease[t]].status # "none" => records[lease[t]].session = SessionOf[t]
         /\ \A u \in Turns : u # t => lease[u] # lease[t]

\* What runs, runs in this life.
RunsInLife ==
  \A t \in Turns :
    /\ Started(t) \/ Alive(t) \/ InTool(t) => phase = "up"
    /\ tool[t].at = "gone" => ~Started(t)

\* A stream at work that was not aborted is the one registered in its session.
Registered ==
  /\ \A t \in Turns : AtWork(t) /\ ~aborted[t] /\ InPlace(t) => stream[SessionOf[t]] = t
  /\ \A s \in Sessions : stream[s] # None => SessionOf[stream[s]] = s

\* A turn that consumes its stream holds its session, and with two-phase
\* cancellation so does every stream of a turn that was not asked in vain.
Holding ==
  \A t \in Turns :
    /\ Alive(t) /\ ~aborted[t] => turn[t] = "consuming"
    /\ turn[t] = "consuming" => gen[t] # "none" /\ IsActive(records[lease[t]])
    /\ twoPhase /\ Alive(t) /\ turn[t] # "asked" => IsActive(records[lease[t]])
    /\ turn[t] \in {"graceAsked", "asked"} => gen[t] \in {"running", "ended"}

\* A tool that runs is in the stream of its turn, or was left behind by it.
ToolInStream ==
  \A t \in Turns :
    InTool(t) /\ t \notin left => gen[t] = "running" /\ turn[t] = "consuming"

\* The row of a tool call is written once, before the tool runs.
RowFirst ==
  \A t \in Turns :
    /\ tool[t].at \in {"none", "recording", "refused"} => toolCalls[t] = NoCall
    /\ tool[t].session = SessionOf[t] /\ InPlace(t) =>
         /\ tool[t].execution = lease[t] /\ lease[t] # None
         /\ toolCalls[t] # NoCall => toolCalls[t].execution = lease[t]
         /\ tool[t].at \in {"executing", "returned"} /\ attached => toolCalls[t] # NoCall

TurnInv ==
  /\ TypeOK
  /\ LeaseApart
  /\ RunsInLife
  /\ Registered
  /\ Holding
  /\ ToolInStream
  /\ RowFirst
  /\ LostOnlyIfLeftBehind

TInv == IInv /\ DiskFollows /\ TurnInv

-----------------------------------------------------------------------------
(* What the steps of the manager do to a turn.                             *)

LEMMA TurnFacts ==
  ASSUME TypeOK, NEW t \in Turns
  PROVE  /\ SessionOf[t] \in Sessions /\ SessionOf[t] # None
         /\ t \in Calls /\ t # None /\ t \in Nat
         /\ lease[t] \in Ids \cup {None}
         /\ NoTool.session # SessionOf[t]
  BY TurnsAssumption, ManagerAssumption DEF TypeOK, Turns, NoTool

LEMMA LandingEffect ==
  ASSUME IInv, NEW id \in Ids,
         (\E to \in {"COMPLETED", "FAILED"} : Finish(id, to)) \/ ConfirmCancel(id)
  PROVE  /\ \A j \in Ids : j # id => records'[j] = records[j] /\ executions'[j] = executions[j]
         /\ records'[id].status # "none" => records'[id].session = records[id].session
                                            /\ records[id].status # "none"
         /\ UNCHANGED <<toolCalls, phase, attached, issued>>
         /\ faults' = 0 => faults = 0
<1>1. /\ records \in [Ids -> Record] /\ executions \in [Ids -> Record] /\ faults \in Nat
      /\ records[id] \in Record
  BY ManagerAssumption DEF IInv, ManagerTypeOK
<1>2. CASE ConfirmCancel(id)
  <2>1. \A j \in Ids : j # id => records'[j] = records[j] /\ executions'[j] = executions[j]
    BY <1>1, <1>2 DEF ConfirmCancel, Persist
  <2>2. records'[id].status = "none"  BY <1>1, <1>2 DEF ConfirmCancel, NoRecord
  <2>3. faults' = 0 => faults = 0  BY <1>1, <1>2 DEF ConfirmCancel, Persist
  <2>4. QED  BY <1>2, <2>1, <2>2, <2>3 DEF ConfirmCancel, life
<1>3. ASSUME NEW to \in {"COMPLETED", "FAILED"}, Finish(id, to)
      PROVE  /\ \A j \in Ids : j # id => records'[j] = records[j] /\ executions'[j] = executions[j]
             /\ records'[id].status # "none" => records'[id].session = records[id].session
                                                /\ records[id].status # "none"
             /\ UNCHANGED <<toolCalls, phase, attached, issued>>
             /\ faults' = 0 => faults = 0
  <2> DEFINE end == [records[id] EXCEPT !.status = Lands(id, to)]
  <2>1. \A j \in Ids : j # id => records'[j] = records[j] /\ executions'[j] = executions[j]
    BY <1>1, <1>3 DEF Finish, Persist
  <2>2. /\ records[id].status # "none"
        /\ records' = [records EXCEPT ![id] =
             IF end.status = "STALE" /\ records[id].status # "STALE" THEN end ELSE NoRecord]
    BY <1>3 DEF Finish
  <2>3. end.session = records[id].session  BY <1>1 DEF Record
  <2> HIDE DEF end
  <2>4. records'[id].status # "none" => records'[id].session = records[id].session
    BY <1>1, <2>2, <2>3 DEF NoRecord
  <2>5. faults' = 0 => faults = 0  BY <1>1, <1>3 DEF Finish, Persist
  <2>6. QED  BY <1>3, <2>1, <2>2, <2>4, <2>5 DEF Finish, life
<1>4. QED  BY <1>2, <1>3

LEMMA CancelEffect ==
  ASSUME IInv, NEW id \in Ids, RequestCancel(id)
  PROVE  /\ \A j \in Ids : j # id => records'[j] = records[j] /\ executions'[j] = executions[j]
         /\ IsActive(records'[id]) /\ records'[id].session = records[id].session
         /\ records[id].status # "none"
         /\ IsActive(executions'[id]) \/ executions'[id] = executions[id]
         /\ UNCHANGED <<toolCalls, phase, attached, issued>>
         /\ faults' = 0 => faults = 0
<1> DEFINE rec == [records[id] EXCEPT !.status = "CANCEL_REQUESTED"]
<1>1. /\ records \in [Ids -> Record] /\ executions \in [Ids -> Record] /\ faults \in Nat
      /\ records[id] \in Record
  BY ManagerAssumption DEF IInv, ManagerTypeOK
<1>2. /\ records[id].status = "RUNNING" /\ records' = [records EXCEPT ![id] = rec]
      /\ Persist(id, rec) /\ UNCHANGED <<toolCalls, life, issued>>
  BY DEF RequestCancel, CanTransition
<1>3. /\ rec \in Record /\ rec.session = records[id].session /\ IsActive(rec)
  BY <1>1 DEF Record, Statuses, IsActive, ActiveStatuses
<1> HIDE DEF rec
<1>4. executions'[id] \in {executions[id], rec}
      /\ \A j \in Ids : j # id => executions'[j] = executions[j]
  BY <1>2, <1>3, WriteThrough
<1>5. faults' = 0 => faults = 0  BY <1>1, <1>2 DEF Persist
<1>6. QED  BY <1>1, <1>2, <1>3, <1>4, <1>5 DEF life

LEMMA IssueEffect ==
  ASSUME IInv, NEW s \in Sessions, Admit(s) \/ Refuse(s)
  PROVE  /\ issued + 1 \in Ids /\ issued \in Nat /\ issued' = issued + 1
         /\ \A j \in Ids : j <= issued => records'[j] = records[j] /\ executions'[j] = executions[j]
         /\ Admit(s) => IsActive(records'[issued + 1]) /\ records'[issued + 1].session = s
         /\ Refuse(s) => records' = records
         /\ UNCHANGED <<toolCalls, phase, attached>> /\ phase = "up"
         /\ faults' = 0 => faults = 0
<1>1. /\ records \in [Ids -> Record] /\ executions \in [Ids -> Record]
      /\ faults \in Nat /\ issued \in Nat
  BY ManagerAssumption DEF IInv, ManagerTypeOK
<1>2. issued + 1 \in Ids /\ issued' = issued + 1 /\ phase = "up"
  BY IssueFacts DEF Admit, Refuse, Issue
<1>3. \A j \in Ids : j <= issued => j # issued + 1  BY <1>1 DEF Ids
<1>4. \A j \in Ids : j <= issued => records'[j] = records[j] /\ executions'[j] = executions[j]
  BY <1>1, <1>3 DEF Admit, Refuse, Persist
<1>5. Admit(s) => IsActive(records'[issued + 1]) /\ records'[issued + 1].session = s
  BY <1>1, <1>2 DEF Admit, Acquired, IsActive, ActiveStatuses
<1>6. faults' = 0 => faults = 0  BY <1>1 DEF Admit, Refuse, Persist
<1>7. QED  BY <1>1, <1>2, <1>4, <1>5, <1>6 DEF Admit, Refuse, life

LEMMA DiskFollowsKeeps ==
  ASSUME IInv, DiskFollows, [ManagerNext]_managerVars
  PROVE  DiskFollows'
<1> USE DEF DiskFollows
<1>1. /\ records \in [Ids -> Record] /\ executions \in [Ids -> Record] /\ faults \in Nat
  BY ManagerAssumption DEF IInv, ManagerTypeOK
<1>2. ASSUME UNCHANGED <<records, executions, attached>>, faults' \in {faults, faults + 1}
      PROVE  DiskFollows'
  BY <1>1, <1>2
<1>3. ASSUME NEW s \in Sessions, Admit(s) \/ Refuse(s) PROVE DiskFollows'
  <2>1. /\ issued + 1 \in Ids /\ \A j \in Ids : j # issued + 1 =>
             records'[j] = records[j] /\ executions'[j] = executions[j]
    BY <1>1, <1>3, IssueFacts DEF Admit, Refuse, Persist
  <2>2. ~IsActive(records[issued + 1])
    BY <1>3, IssueFacts DEF Admit, Refuse, IsActive, ActiveStatuses
  <2>3. /\ faults' = 0 => faults = 0 /\ UNCHANGED attached
        /\ faults' = 0 => \/ records' = records
                          \/ records'[issued + 1] = executions'[issued + 1]
    BY <1>1, <1>3, <2>1 DEF Admit, Refuse, Persist, life
  <2>4. QED  BY <2>1, <2>2, <2>3
<1>4. ASSUME NEW id \in Ids, RequestCancel(id) PROVE DiskFollows'
  <2>1. \A j \in Ids : j # id => records'[j] = records[j] /\ executions'[j] = executions[j]
    BY <1>4, CancelEffect
  <2>2. /\ faults' = 0 => faults = 0 /\ UNCHANGED attached
        /\ faults' = 0 /\ attached => records'[id] = executions'[id]
    BY <1>1, <1>4 DEF RequestCancel, Persist, life
  <2>3. QED  BY <2>1, <2>2
<1>5. ASSUME NEW id \in Ids,
             (\E to \in {"COMPLETED", "FAILED"} : Finish(id, to)) \/ ConfirmCancel(id)
      PROVE  DiskFollows'
  <2>1. /\ \A j \in Ids : j # id => records'[j] = records[j] /\ executions'[j] = executions[j]
        /\ faults' = 0 => faults = 0 /\ UNCHANGED attached
    BY <1>5, LandingEffect
  <2>2. ~IsActive(records'[id])
    <3>1. CASE ConfirmCancel(id)
      BY <1>1, <3>1 DEF ConfirmCancel, NoRecord, IsActive, ActiveStatuses
    <3>2. ASSUME NEW to \in {"COMPLETED", "FAILED"}, Finish(id, to) PROVE ~IsActive(records'[id])
      <4> DEFINE end == [records[id] EXCEPT !.status = Lands(id, to)]
      <4>1. records' = [records EXCEPT ![id] =
              IF end.status = "STALE" /\ records[id].status # "STALE" THEN end ELSE NoRecord]
        BY <3>2 DEF Finish
      <4> HIDE DEF end
      <4>2. records'[id].status \in {"STALE", "none"}
        BY <1>1, <4>1 DEF NoRecord
      <4>3. QED  BY <4>2 DEF IsActive, ActiveStatuses
    <3>3. QED  BY <1>5, <3>1, <3>2
  <2>3. QED  BY <2>1, <2>2
<1>6. CASE ToolCall
  BY <1>1, <1>2, <1>6 DEF ToolCall, BeginRefused, BeginToolCall, EndToolCall, memory, disk, life
<1>7. CASE Crash
  <2>1. \A id \in Ids : ~IsActive(records'[id])
    BY <1>7 DEF Crash, Forget, NoRecord, IsActive, ActiveStatuses
  <2>2. QED  BY <1>7, <2>1 DEF Crash
<1>8. CASE Recovery
  <2>1. CASE phase = "up"
    BY <1>8, <2>1
    DEF Recovery, Restart, RestartBlind, KeepFresh, ReclaimStale, RecoverDone, RecoverFails
  <2>2. CASE phase # "up"
    <3>1. \A id \in Ids : ~IsActive(records[id])
      BY <2>2 DEF IInv, LivesApart, IsActive, ActiveStatuses
    <3>2. records' = records
      BY <1>8 DEF Recovery, Restart, RestartBlind, KeepFresh, ReclaimStale, RecoverDone,
                  RecoverFails, memory
    <3>3. faults' = 0 => faults = 0 /\ (attached => attached')
      BY <1>1, <1>8 DEF Recovery, Restart, RestartBlind, KeepFresh, ReclaimStale, RecoverDone,
                  RecoverFails
    <3>4. QED  BY <3>1, <3>2, <3>3
  <2>3. QED  BY <2>1, <2>2
<1>9. CASE UNCHANGED managerVars
  BY <1>1, <1>2, <1>9 DEF managerVars, memory, disk, life
<1>10. CASE ManagerNext
  BY <1>3, <1>4, <1>5, <1>6, <1>7, <1>8, <1>10 DEF ManagerNext, Lease
<1>11. QED  BY <1>9, <1>10

-----------------------------------------------------------------------------
(* Steps that leave the manager alone.                                     *)

LEMMA SessionsKeep ==
  ASSUME TInv, IInv', (\E t \in Turns : CreateSession(t)) \/ (\E s \in Sessions : SwitchSession(s))
  PROVE  TurnInv'
<1> USE DEF TInv, TurnInv
<1>1. UNCHANGED <<managerVars, twoPhase, turn, lease, gen, aborted, stream, tool, polls, left, overtaken>>
  BY DEF CreateSession, SwitchSession, history
<1>2. current' \in known' \cup {None} /\ known' \subseteq Sessions
  BY TurnFacts DEF CreateSession, SwitchSession, TypeOK
<1>3. TypeOK'
  BY <1>1, <1>2 DEF TypeOK, IInv
<1> USE <1>1 DEF managerVars, memory, disk, life
<1>4. LeaseApart' /\ RunsInLife' /\ Registered' /\ Holding'
  BY DEF LeaseApart, RunsInLife, Registered, Holding, Started, Alive, InTool, AtWork, InPlace
<1>5. ToolInStream' /\ RowFirst' /\ LostOnlyIfLeftBehind'
  BY DEF ToolInStream, RowFirst, LostOnlyIfLeftBehind, InTool, InPlace
<1>6. QED  BY <1>3, <1>4, <1>5

\* Two executions of a session are not active at once.
LEMMA OneHolds ==
  ASSUME TInv, NEW t \in Turns, NEW u \in Turns, t # u, SessionOf[t] = SessionOf[u],
         lease[t] # None, lease[u] # None,
         IsActive(records[lease[t]]), IsActive(records[lease[u]])
  PROVE  FALSE
<1> USE DEF TInv, TurnInv
<1>1. /\ lease[t] \in Ids /\ lease[u] \in Ids /\ lease[t] # lease[u]
      /\ records[lease[t]].session = SessionOf[t]
      /\ records[lease[u]].session = SessionOf[u]
  <2>1. lease[t] \in Ids /\ lease[u] \in Ids  BY TurnFacts
  <2>2. records[lease[t]].status # "none" /\ records[lease[u]].status # "none"
    BY DEF IsActive, ActiveStatuses
  <2>3. QED  BY <2>1, <2>2 DEF LeaseApart
<1>2. owner[SessionOf[t]] = lease[t] /\ owner[SessionOf[u]] = lease[u]
  BY <1>1 DEF IInv, ActiveIsOwner
<1>3. QED  BY <1>1, <1>2

LEMMA DisplaceKeeps ==
  ASSUME TInv, IInv', NEW t \in Turns, Displace(t)
  PROVE  TurnInv'
<1> USE DEF TInv, TurnInv
<1>1. /\ gen[t] = "setup" /\ gen' = [gen EXCEPT ![t] = "displacing"]
      /\ stream[SessionOf[t]] \in Turns
      /\ aborted' = [aborted EXCEPT ![stream[SessionOf[t]]] = TRUE]
      /\ UNCHANGED <<managerVars, twoPhase, turn, lease, stream, tool, current, known, polls,
                     left, overtaken>>
  BY TurnFacts DEF Displace, history, TypeOK
<1>2. TypeOK'
  BY <1>1 DEF TypeOK, IInv
<1>3. \A u \in Turns : /\ gen'[u] = IF u = t THEN "displacing" ELSE gen[u]
                       /\ aborted[u] => aborted'[u]
  BY <1>1 DEF TypeOK
<1> USE DEF managerVars, memory, disk, life
<1>4. Registered'
  BY <1>1, <1>3 DEF Registered, AtWork, InPlace
<1>5. LeaseApart'
  BY <1>1, <1>3 DEF LeaseApart
<1>6. RunsInLife' /\ Holding'
  BY <1>1, <1>3 DEF RunsInLife, Holding, Started, Alive, InTool
<1>7. ToolInStream' /\ RowFirst' /\ LostOnlyIfLeftBehind'
  BY <1>1, <1>3 DEF ToolInStream, RowFirst, LostOnlyIfLeftBehind, InTool, InPlace
<1>8. QED  BY <1>2, <1>4, <1>5, <1>6, <1>7

\* With two-phase cancellation the stream found in the map is not at work: it would
\* hold the session that the new one's turn holds.
LEMMA RegisterKeeps ==
  ASSUME TInv, IInv', NEW t \in Turns, Register(t)
  PROVE  TurnInv'
<1> USE DEF TInv, TurnInv
<1> DEFINE s == SessionOf[t]
           u == stream[s]
<1>1. /\ gen[t] \in {"setup", "displacing"} /\ gen' = [gen EXCEPT ![t] = "opening"]
      /\ stream' = [stream EXCEPT ![s] = t]
      /\ overtaken' = IF u # None /\ AtWork(u) /\ ~aborted[u] THEN overtaken \cup {u}
                                                            ELSE overtaken
      /\ UNCHANGED <<managerVars, twoPhase, turn, lease, aborted, tool, current, known, polls, left>>
  BY DEF Register
<1>2. u \in Turns \cup {None} /\ s \in Sessions  BY TurnFacts DEF TypeOK
<1>3. TypeOK'
  BY <1>1, <1>2 DEF TypeOK, IInv
<1>4. /\ \A v \in Turns : gen'[v] = IF v = t THEN "opening" ELSE gen[v]
      /\ \A r \in Sessions : stream'[r] = IF r = s THEN t ELSE stream[r]
      /\ overtaken \subseteq overtaken'
  BY <1>1 DEF TypeOK
<1>5. ASSUME u # None, AtWork(u), ~aborted[u] PROVE ~twoPhase
  <2>1. u \in Turns /\ SessionOf[u] = s  BY <1>2, <1>5 DEF Registered
  <2>2. u # t  BY <1>1, <1>5 DEF AtWork
  <2>3. Alive(t) /\ Alive(u) /\ turn[t] # "asked"
    BY <1>1, <1>5 DEF AtWork, Alive, Holding
  <2>4. turn[u] = "consuming"  BY <1>5, <2>1, <2>3 DEF Holding
  <2>5. lease[t] # None /\ lease[u] # None  BY <2>1, <2>3 DEF LeaseApart, Alive
  <2>6. IsActive(records[lease[u]])  BY <2>1, <2>4 DEF Holding
  <2>7. twoPhase => IsActive(records[lease[t]])  BY <2>3 DEF Holding
  <2>8. QED  BY <2>1, <2>2, <2>5, <2>6, <2>7, OneHolds
<1>6. Registered'
  <2>1. ASSUME NEW v \in Turns, AtWork(v)', ~aborted'[v], InPlace(v)'
        PROVE  stream'[SessionOf[v]] = v
    <3>1. CASE v = t  BY <1>2, <1>4, <3>1
    <3>2. CASE v # t
      <4>1. AtWork(v) /\ ~aborted[v] /\ InPlace(v)
        BY <1>1, <1>4, <2>1, <3>2 DEF AtWork, InPlace
      <4>2. stream[SessionOf[v]] = v  BY <4>1 DEF Registered
      <4>3. CASE SessionOf[v] # s  BY <1>4, <4>2, <4>3, TurnFacts
      <4>4. CASE SessionOf[v] = s
        <5>1. u = v /\ u # None  BY <4>2, <4>4, TurnFacts
        <5>2. v \in overtaken' /\ ~twoPhase  BY <1>1, <1>5, <4>1, <5>1
        <5>3. QED  BY <1>1, <2>1, <5>2 DEF InPlace
      <4>5. QED  BY <4>3, <4>4
    <3>3. QED  BY <3>1, <3>2
  <2>2. ASSUME NEW r \in Sessions, stream'[r] # None PROVE SessionOf[stream'[r]] = r
    BY <1>4, <2>2 DEF Registered
  <2>3. QED  BY <2>1, <2>2 DEF Registered
<1> HIDE DEF u
<1> USE DEF managerVars, memory, disk, life
<1>7. LeaseApart'
  BY <1>1, <1>4 DEF LeaseApart
<1>8. RunsInLife' /\ Holding'
  BY <1>1, <1>4 DEF RunsInLife, Holding, Started, Alive, InTool
<1>9. ToolInStream'
  BY <1>1, <1>4 DEF ToolInStream, InTool
<1>10. RowFirst' /\ LostOnlyIfLeftBehind'
  BY <1>1, <1>4 DEF RowFirst, LostOnlyIfLeftBehind, InPlace
<1>11. QED  BY <1>3, <1>6, <1>7, <1>8, <1>9, <1>10

LEMMA OpenStreamKeeps ==
  ASSUME TInv, IInv', NEW t \in Turns, OpenStream(t)
  PROVE  TurnInv'
<1> USE DEF TInv, TurnInv
<1>1. /\ gen[t] = "opening" /\ gen' = [gen EXCEPT ![t] = "running"]
      /\ UNCHANGED <<managerVars, twoPhase, turn, lease, aborted, stream, tool, current, known,
                     polls, left, overtaken>>
  BY DEF OpenStream, history
<1>2. TypeOK'
  BY <1>1 DEF TypeOK, IInv
<1>3. \A u \in Turns : gen'[u] = IF u = t THEN "running" ELSE gen[u]
  BY <1>1 DEF TypeOK
<1> USE DEF managerVars, memory, disk, life
<1>4. Registered' /\ LeaseApart'
  BY <1>1, <1>3 DEF Registered, LeaseApart, AtWork, InPlace
<1>5. RunsInLife' /\ Holding'
  BY <1>1, <1>3 DEF RunsInLife, Holding, Started, Alive, InTool
<1>6. ToolInStream' /\ RowFirst' /\ LostOnlyIfLeftBehind'
  BY <1>1, <1>3 DEF ToolInStream, RowFirst, LostOnlyIfLeftBehind, InTool, InPlace
<1>7. QED  BY <1>2, <1>4, <1>5, <1>6

LEMMA StreamEndKeeps ==
  ASSUME TInv, IInv', NEW t \in Turns, SetupFails(t) \/ EndStream(t)
  PROVE  TurnInv'
<1> USE DEF TInv, TurnInv
<1>1. /\ Alive(t) /\ gen' = [gen EXCEPT ![t] = "ended"]
      /\ stream' \in {stream, Cleared(t)}
      /\ left' = left \/ (left' = left \cup {t})
      /\ gen[t] = "running" /\ InTool(t) => t \in left'
      /\ UNCHANGED <<managerVars, twoPhase, turn, lease, aborted, tool, current, known, polls,
                     overtaken>>
  BY DEF SetupFails, EndStream, Alive, history
<1>2. TypeOK'
  BY <1>1 DEF TypeOK, IInv, Cleared
<1>3. \A u \in Turns : gen'[u] = IF u = t THEN "ended" ELSE gen[u]
  BY <1>1 DEF TypeOK
<1>4. \A s \in Sessions : stream'[s] = stream[s] \/ (stream[s] = t /\ stream'[s] = None)
  BY <1>1, TurnFacts DEF Cleared, TypeOK
<1>5. Registered'
  BY <1>1, <1>3, <1>4, TurnFacts DEF Registered, AtWork, InPlace
<1> USE DEF managerVars, memory, disk, life
<1>6. LeaseApart'
  BY <1>1, <1>3 DEF LeaseApart, Alive
<1>7. RunsInLife' /\ Holding'
  BY <1>1, <1>3 DEF RunsInLife, Holding, Started, Alive, InTool
<1>8. ToolInStream'
  BY <1>1, <1>3 DEF ToolInStream, InTool
<1>9. RowFirst' /\ LostOnlyIfLeftBehind'
  BY <1>1 DEF RowFirst, LostOnlyIfLeftBehind, InPlace
<1>10. QED  BY <1>2, <1>5, <1>6, <1>7, <1>8, <1>9

LEMMA AbortStreamKeeps ==
  ASSUME TInv, IInv', NEW s \in Sessions, AbortStream(s)
  PROVE  TurnInv'
<1> USE DEF TInv, TurnInv
<1>1. /\ aborted' = [aborted EXCEPT ![stream[s]] = TRUE] /\ stream[s] \in Turns
      /\ UNCHANGED <<managerVars, twoPhase, turn, lease, gen, stream, tool, current, known, polls, left, overtaken>>
  BY DEF AbortStream, TypeOK, history
<1>2. TypeOK'
  BY <1>1 DEF TypeOK, IInv
<1>3. \A u \in Turns : aborted[u] => aborted'[u]
  BY <1>1 DEF TypeOK
<1> USE DEF managerVars, memory, disk, life
<1>4. LeaseApart' /\ RunsInLife' /\ Registered' /\ Holding'
  BY <1>1, <1>3 DEF LeaseApart, RunsInLife, Registered, Holding, Started, Alive, InTool, AtWork, InPlace
<1>5. ToolInStream' /\ RowFirst' /\ LostOnlyIfLeftBehind'
  BY <1>1 DEF ToolInStream, RowFirst, LostOnlyIfLeftBehind, InTool, InPlace
<1>6. QED  BY <1>2, <1>4, <1>5

LEMMA CallToolKeeps ==
  ASSUME TInv, IInv', NEW t \in Turns, CallTool(t)
  PROVE  TurnInv'
<1> USE DEF TInv, TurnInv
<1> DEFINE u == IF current = None THEN None ELSE stream[current]
           new == IF u = None
                  THEN [at |-> "executing", session |-> current, execution |-> None]
                  ELSE [at |-> "recording", session |-> current, execution |-> lease[u]]
<1>1. /\ gen[t] = "running" /\ ~aborted[t] /\ tool[t] = NoTool
      /\ tool' = [tool EXCEPT ![t] = new]
      /\ UNCHANGED <<managerVars, twoPhase, turn, lease, gen, aborted, stream, current, known, polls, left, overtaken>>
  BY DEF CallTool, history
<1>2. /\ u \in Turns \cup {None} /\ current \in Sessions \cup {None}
      /\ new.at \in {"executing", "recording"} /\ new.session = current
      /\ new \in [at : {"executing", "recording"},
                  session : Sessions \cup {None}, execution : Ids \cup {None}]
  <2>1. current \in Sessions \cup {None}  BY DEF TypeOK
  <2>2. u \in Turns \cup {None}  BY <2>1 DEF TypeOK
  <2>3. u \in Turns => lease[u] \in Ids \cup {None}  BY DEF TypeOK
  <2>4. QED  BY <2>1, <2>2, <2>3
<1>3. current = SessionOf[t] /\ InPlace(t) => u = t /\ new.at = "recording" /\ new.execution = lease[t]
  BY <1>1, TurnFacts DEF Registered, AtWork
<1> HIDE DEF new, u
<1>4. \A w \in Turns : tool'[w] = IF w = t THEN new ELSE tool[w]
  BY <1>1 DEF TypeOK
<1>5. TypeOK'
  BY <1>1, <1>2 DEF TypeOK, IInv
<1>6. turn[t] = "consuming" /\ phase = "up" /\ lease[t] # None
  BY <1>1 DEF Holding, RunsInLife, LeaseApart, Alive
<1> USE DEF managerVars, memory, disk, life
<1>7. LeaseApart'
  BY <1>1, <1>4, <1>6 DEF LeaseApart
<1>8. RunsInLife'
  BY <1>1, <1>2, <1>4, <1>6 DEF RunsInLife, Started, Alive, InTool
<1>9. Registered' /\ Holding'
  BY <1>1 DEF Registered, Holding, Alive, AtWork, InPlace
<1>10. ToolInStream'
  BY <1>1, <1>4, <1>6 DEF ToolInStream, InTool
<1>11. RowFirst'
  <2>1. toolCalls[t] = NoCall  BY <1>1 DEF RowFirst, NoTool, InPlace
  <2>2. QED  BY <1>1, <1>2, <1>3, <1>4, <1>6, <2>1 DEF RowFirst, InPlace
<1>12. LostOnlyIfLeftBehind'
  BY <1>1, <1>2, <1>4 DEF LostOnlyIfLeftBehind, InPlace
<1>13. QED  BY <1>5, <1>7, <1>8, <1>9, <1>10, <1>11, <1>12

LEMMA ExecuteToolKeeps ==
  ASSUME TInv, IInv', NEW t \in Turns, ExecuteTool(t)
  PROVE  TurnInv'
<1> USE DEF TInv, TurnInv
<1>1. /\ tool[t].at = "executing" /\ tool' = [tool EXCEPT ![t].at = "returned"]
      /\ UNCHANGED <<managerVars, twoPhase, turn, lease, gen, aborted, stream, current, known, polls, left, overtaken>>
  BY DEF ExecuteTool, history
<1>2. TypeOK'
  BY <1>1 DEF TypeOK, IInv
<1>3. \A w \in Turns : /\ w # t => tool'[w] = tool[w]
                       /\ tool'[w].session = tool[w].session
                       /\ tool'[w].execution = tool[w].execution
                       /\ tool'[t].at = "returned"
  BY <1>1 DEF TypeOK
<1> USE DEF managerVars, memory, disk, life
<1>4. LeaseApart'
  BY <1>1, <1>3 DEF LeaseApart, NoTool
<1>5. RunsInLife'
  BY <1>1, <1>3 DEF RunsInLife, Started, Alive, InTool
<1>6. Registered' /\ Holding'
  BY <1>1 DEF Registered, Holding, Alive, AtWork, InPlace
<1>7. ToolInStream'
  BY <1>1, <1>3 DEF ToolInStream, InTool
<1>8. RowFirst'
  BY <1>1, <1>3 DEF RowFirst, InPlace
<1>9. LostOnlyIfLeftBehind'
  BY <1>1, <1>3 DEF LostOnlyIfLeftBehind, InPlace
<1>10. QED  BY <1>2, <1>4, <1>5, <1>6, <1>7, <1>8, <1>9

-----------------------------------------------------------------------------
(* Steps in which the manager takes part.                                  *)

LEMMA BeginKeeps ==
  ASSUME TInv, IInv', NEW t \in Turns, Begin(t)
  PROVE  TurnInv'
<1> USE DEF TInv, TurnInv
<1> DEFINE new == issued + 1
<1>1. /\ turn[t] \in {"new", "waiting"} /\ Admit(SessionOf[t])
      /\ lease' = [lease EXCEPT ![t] = new]
      /\ turn' = [turn EXCEPT ![t] = "consuming"]
      /\ gen' = [gen EXCEPT ![t] = "setup"]
      /\ UNCHANGED <<twoPhase, aborted, stream, tool, current, known, polls, left, overtaken>>
  BY DEF Begin, Trying, history
<1>2. /\ new \in Ids /\ new # None /\ issued' = new /\ issued \in Nat
      /\ \A j \in Ids : j <= issued => records'[j] = records[j] /\ executions'[j] = executions[j]
      /\ IsActive(records'[new]) /\ records'[new].session = SessionOf[t]
      /\ UNCHANGED <<toolCalls, phase, attached>> /\ phase = "up"
      /\ faults' = 0 => faults = 0
  BY <1>1, IssueEffect, TurnFacts, ManagerAssumption DEF Ids
<1>3. /\ new > issued /\ new = issued + 1 /\ Ids \subseteq Nat
      /\ lease[t] = None /\ gen[t] = "none" /\ tool[t] = NoTool
  BY <1>1, <1>2 DEF LeaseApart, Ids
<1> HIDE DEF new
<1>4. \A u \in Turns : /\ lease'[u] = IF u = t THEN new ELSE lease[u]
                       /\ turn'[u] = IF u = t THEN "consuming" ELSE turn[u]
                       /\ gen'[u] = IF u = t THEN "setup" ELSE gen[u]
  BY <1>1 DEF TypeOK
<1>5. TypeOK'
  BY <1>1, <1>2 DEF TypeOK, IInv
<1>6. \A u \in Turns : lease[u] # None =>
        /\ lease[u] \in Ids /\ lease[u] <= issued /\ lease[u] # new
        /\ records'[lease[u]] = records[lease[u]]
  BY <1>2, <1>3, TurnFacts DEF LeaseApart
<1>7. LeaseApart'
  BY <1>1, <1>2, <1>3, <1>4, <1>6 DEF LeaseApart
<1>8. RunsInLife'
  BY <1>1, <1>2, <1>3, <1>4 DEF RunsInLife, Started, Alive, InTool, NoTool
<1>9. Registered'
  BY <1>1, <1>4 DEF Registered, AtWork, InPlace
<1>10. Holding'
  <2> SUFFICES ASSUME NEW u \in Turns
               PROVE  /\ Alive(u)' /\ ~aborted'[u] => turn'[u] = "consuming"
                      /\ turn'[u] = "consuming" => gen'[u] # "none" /\ IsActive(records'[lease'[u]])
                      /\ twoPhase' /\ Alive(u)' /\ turn'[u] # "asked" => IsActive(records'[lease'[u]])
                      /\ turn'[u] \in {"graceAsked", "asked"} => gen'[u] \in {"running", "ended"}
    BY DEF Holding
  <2>1. CASE u = t  BY <1>2, <1>4, <2>1
  <2>2. CASE u # t
    <3>1. gen[u] # "none" => records'[lease[u]] = records[lease[u]]
      BY <1>6 DEF LeaseApart
    <3>2. QED  BY <1>1, <1>4, <2>2, <3>1 DEF Holding, Alive
  <2>3. QED  BY <2>1, <2>2
<1>11. ToolInStream'
  BY <1>1, <1>3, <1>4 DEF ToolInStream, InTool, NoTool
<1>12. RowFirst'
  BY <1>1, <1>2, <1>3, <1>4, TurnFacts DEF RowFirst, InPlace
<1>13. LostOnlyIfLeftBehind'
  <2> SUFFICES ASSUME faults = 0, NEW u \in Turns, toolCalls[u].status = "running",
                      tool[u].at = "gone", tool[u].session = SessionOf[u], u \notin left, InPlace(u)
               PROVE  IsActive(executions'[toolCalls[u].execution])
    BY <1>1, <1>2 DEF LostOnlyIfLeftBehind, InPlace
  <2>1. toolCalls[u].execution = lease[u] /\ lease[u] # None
    BY DEF RowFirst, NoCall, InPlace
  <2>2. executions'[lease[u]] = executions[lease[u]]  BY <1>2, <1>6, <2>1
  <2>3. QED  BY <2>1, <2>2 DEF LostOnlyIfLeftBehind, InPlace
<1>14. QED  BY <1>5, <1>7, <1>8, <1>9, <1>10, <1>11, <1>12, <1>13

LEMMA BusyKeeps ==
  ASSUME TInv, IInv', NEW t \in Turns, Busy(t)
  PROVE  TurnInv'
<1> USE DEF TInv, TurnInv
<1>1. /\ turn[t] \in {"new", "waiting"} /\ Refuse(SessionOf[t]) /\ polls[t] < MaxPolls
      /\ polls' = [polls EXCEPT ![t] = polls[t] + 1]
      /\ \E w \in {"waiting", "over"} : turn' = [turn EXCEPT ![t] = w]
      /\ UNCHANGED <<twoPhase, lease, gen, aborted, stream, tool, current, known, left, overtaken>>
  BY DEF Busy, Trying, history
<1>2. /\ issued' = issued + 1 /\ issued \in Nat
      /\ \A j \in Ids : j <= issued => records'[j] = records[j] /\ executions'[j] = executions[j]
      /\ records' = records
      /\ UNCHANGED <<toolCalls, phase, attached>> /\ phase = "up"
      /\ faults' = 0 => faults = 0
  BY <1>1, IssueEffect, TurnFacts
<1>3. gen[t] = "none" /\ lease[t] = None /\ tool[t] = NoTool
  BY <1>1 DEF LeaseApart
<1>4. \A u \in Turns : /\ u # t => turn'[u] = turn[u]
                       /\ turn'[t] \in {"waiting", "over"}
  BY <1>1 DEF TypeOK
<1>5. TypeOK'
  <2>1. polls' \in [Turns -> 0..MaxPolls]
    BY <1>1, TurnsAssumption DEF TypeOK
  <2>2. turn' \in [Turns -> {"new", "waiting", "consuming", "graceIdle", "graceAsked",
                             "over", "asked", "lost"}]
    BY <1>1 DEF TypeOK
  <2>3. QED  BY <1>1, <2>1, <2>2 DEF TypeOK, IInv
<1>6. LeaseApart'
  BY <1>1, <1>2, <1>3, <1>4, TurnFacts DEF LeaseApart, Ids
<1>7. RunsInLife' /\ Registered' /\ Holding'
  BY <1>1, <1>2, <1>3, <1>4 DEF RunsInLife, Registered, Holding, Started, Alive, InTool, NoTool, AtWork, InPlace
<1>8. ToolInStream' /\ RowFirst'
  BY <1>1, <1>2, <1>3, <1>4 DEF ToolInStream, RowFirst, InTool, NoTool, InPlace
<1>9. LostOnlyIfLeftBehind'
  <2> SUFFICES ASSUME faults = 0, NEW u \in Turns, toolCalls[u].status = "running",
                      tool[u].at = "gone", tool[u].session = SessionOf[u], u \notin left, InPlace(u)
               PROVE  IsActive(executions'[toolCalls[u].execution])
    BY <1>1, <1>2 DEF LostOnlyIfLeftBehind, InPlace
  <2>1. toolCalls[u].execution = lease[u] /\ lease[u] # None
    BY DEF RowFirst, NoCall, InPlace
  <2>2. executions'[lease[u]] = executions[lease[u]]
    BY <1>2, <2>1, TurnFacts DEF LeaseApart
  <2>3. QED  BY <2>1, <2>2 DEF LostOnlyIfLeftBehind, InPlace
<1>10. QED  BY <1>5, <1>6, <1>7, <1>8, <1>9

\* The router gives the session of a turn back, its stream having ended or not.
LEMMA GivesBackKeeps ==
  ASSUME TInv, IInv', NEW t \in Turns,
         turn[t] \in {"consuming", "graceIdle", "graceAsked"},
         turn[t] = "consuming" => gen[t] = "ended",
         (\E to \in {"COMPLETED", "FAILED"} : Finish(lease[t], to)) \/ ConfirmCancel(lease[t]),
         NEW w \in {"over", "asked"}, turn' = [turn EXCEPT ![t] = w],
         twoPhase /\ Alive(t) => w = "asked", w = "asked" => gen[t] \in {"running", "ended"},
         UNCHANGED <<twoPhase, lease, gen, aborted, stream, tool, current, known, polls, left, overtaken>>
  PROVE  TurnInv'
<1> USE DEF TInv, TurnInv
<1> DEFINE id == lease[t]
<1>1. id \in Ids /\ id # None /\ ~(InTool(t) /\ t \notin left)
  BY TurnFacts DEF LeaseApart, ToolInStream
<1>2. /\ \A j \in Ids : j # id => records'[j] = records[j] /\ executions'[j] = executions[j]
      /\ records'[id].status # "none" => records'[id].session = records[id].session
                                         /\ records[id].status # "none"
      /\ UNCHANGED <<toolCalls, phase, attached, issued>>
      /\ faults' = 0 => faults = 0
  BY <1>1, LandingEffect
<1> HIDE DEF id
<1>3. \A u \in Turns : turn'[u] = IF u = t THEN w ELSE turn[u]
  BY DEF TypeOK
<1>4. \A u \in Turns : u # t /\ lease[u] # None =>
        /\ records'[lease[u]] = records[lease[u]]
        /\ executions'[lease[u]] = executions[lease[u]]
  BY <1>1, <1>2, TurnFacts DEF LeaseApart, id
<1>5. TypeOK'
  BY DEF TypeOK, IInv
<1>6. LeaseApart'
  BY <1>1, <1>2, <1>3, <1>4 DEF LeaseApart, id
<1>7. RunsInLife' /\ Registered'
  BY <1>2, <1>3 DEF RunsInLife, Registered, Started, Alive, InTool, AtWork, InPlace
<1>8. Holding'
  <2> SUFFICES ASSUME NEW u \in Turns
               PROVE  /\ Alive(u)' /\ ~aborted'[u] => turn'[u] = "consuming"
                      /\ turn'[u] = "consuming" => gen'[u] # "none" /\ IsActive(records'[lease'[u]])
                      /\ twoPhase' /\ Alive(u)' /\ turn'[u] # "asked" => IsActive(records'[lease'[u]])
                      /\ turn'[u] \in {"graceAsked", "asked"} => gen'[u] \in {"running", "ended"}
    BY DEF Holding
  <2>1. CASE u = t
    BY <1>3, <2>1 DEF Holding, Alive
  <2>2. CASE u # t
    <3>1. gen[u] # "none" => records'[lease[u]] = records[lease[u]]
      BY <1>4, <2>2 DEF LeaseApart
    <3>2. QED  BY <1>3, <2>2, <3>1 DEF Holding, Alive
  <2>3. QED  BY <2>1, <2>2
<1>9. ToolInStream'
  BY <1>1, <1>3 DEF ToolInStream, InTool
<1>10. RowFirst'
  BY <1>2 DEF RowFirst, InPlace
<1>11. LostOnlyIfLeftBehind'
  <2> SUFFICES ASSUME faults = 0, NEW u \in Turns, toolCalls[u].status = "running",
                      tool[u].at = "gone", tool[u].session = SessionOf[u], u \notin left, InPlace(u)
               PROVE  IsActive(executions'[toolCalls[u].execution])
    BY <1>2 DEF LostOnlyIfLeftBehind, InPlace
  <2>1. toolCalls[u].execution = lease[u] /\ lease[u] # None
    BY DEF RowFirst, NoCall, InPlace
  <2>2. u # t  BY DEF RunsInLife, Started
  <2>3. QED  BY <1>4, <2>1, <2>2 DEF LostOnlyIfLeftBehind, InPlace
<1>12. QED  BY <1>5, <1>6, <1>7, <1>8, <1>9, <1>10, <1>11

LEMMA CancelKeeps ==
  ASSUME TInv, IInv', NEW t \in Turns, IdleTimeout(t) \/ AskedInVain(t)
  PROVE  TurnInv'
<1> USE DEF TInv, TurnInv
<1> DEFINE id == lease[t]
<1>1. /\ turn[t] = "consuming" /\ RequestCancel(id)
      /\ aborted' = [aborted EXCEPT ![t] = TRUE]
      /\ \/ turn' = [turn EXCEPT ![t] = "graceIdle"]
         \/ turn' = [turn EXCEPT ![t] = "graceAsked"] /\ gen[t] = "running"
      /\ gen[t] # "running" \/ ~InTool(t)
      /\ UNCHANGED <<twoPhase, lease, gen, stream, tool, current, known, polls, left, overtaken>>
  BY DEF IdleTimeout, AskedInVain, Cancel, history
<1>2. id \in Ids /\ id # None /\ ~(InTool(t) /\ t \notin left)
  BY <1>1, TurnFacts DEF LeaseApart, ToolInStream
<1>3. /\ \A j \in Ids : j # id => records'[j] = records[j] /\ executions'[j] = executions[j]
      /\ IsActive(records'[id]) /\ records'[id].session = records[id].session
      /\ records[id].status # "none"
      /\ IsActive(executions'[id]) \/ executions'[id] = executions[id]
      /\ UNCHANGED <<toolCalls, phase, attached, issued>>
      /\ faults' = 0 => faults = 0
  BY <1>1, <1>2, CancelEffect
<1> HIDE DEF id
<1>4. \A u \in Turns : /\ u # t => turn'[u] = turn[u]
                       /\ turn'[t] \in {"graceIdle", "graceAsked"}
                       /\ turn'[t] = "graceAsked" => gen[t] = "running"
                       /\ u # t => aborted'[u] = aborted[u]
                       /\ aborted'[t]
  BY <1>1 DEF TypeOK
<1>5. \A u \in Turns : lease[u] # None =>
        /\ IsActive(records[lease[u]]) => IsActive(records'[lease[u]])
        /\ records'[lease[u]].session = records[lease[u]].session
        /\ records'[lease[u]].status # "none" => records[lease[u]].status # "none"
        /\ IsActive(executions[lease[u]]) => IsActive(executions'[lease[u]])
  <2>1. \A j \in Ids :
          /\ IsActive(records[j]) => IsActive(records'[j])
          /\ records'[j].session = records[j].session
          /\ records'[j].status # "none" => records[j].status # "none"
          /\ IsActive(executions[j]) => IsActive(executions'[j])
    BY <1>3
  <2>2. QED  BY <2>1, TurnFacts
<1>6. TypeOK'
  BY <1>1 DEF TypeOK, IInv
<1>7. LeaseApart'
  <2>1. UNCHANGED <<lease, gen, tool, issued>>  BY <1>1, <1>3
  <2>2. \A u \in Turns : turn'[u] \in {"new", "waiting"} => turn'[u] = turn[u]
    BY <1>4
  <2>3. \A u \in Turns :
          turn'[u] \in {"consuming", "graceIdle", "graceAsked"} => lease[u] # None
    BY <1>1, <1>4 DEF LeaseApart
  <2>4. QED  BY <1>5, <2>1, <2>2, <2>3 DEF LeaseApart
<1>8. RunsInLife' /\ Registered'
  BY <1>1, <1>3, <1>4 DEF RunsInLife, Registered, Started, Alive, InTool, AtWork, InPlace
<1>9. Holding'
  <2> SUFFICES ASSUME NEW u \in Turns
               PROVE  /\ Alive(u)' /\ ~aborted'[u] => turn'[u] = "consuming"
                      /\ turn'[u] = "consuming" => gen'[u] # "none" /\ IsActive(records'[lease'[u]])
                      /\ twoPhase' /\ Alive(u)' /\ turn'[u] # "asked" => IsActive(records'[lease'[u]])
                      /\ turn'[u] \in {"graceAsked", "asked"} => gen'[u] \in {"running", "ended"}
    BY DEF Holding
  <2>1. CASE u = t
    BY <1>1, <1>3, <1>4, <2>1 DEF id
  <2>2. CASE u # t
    <3>1. gen[u] # "none" => lease[u] # None  BY DEF LeaseApart
    <3>2. QED  BY <1>1, <1>4, <1>5, <2>2, <3>1 DEF Holding, Alive
  <2>3. QED  BY <2>1, <2>2
<1>10. ToolInStream'
  BY <1>1, <1>2, <1>4 DEF ToolInStream, InTool
<1>11. RowFirst'
  BY <1>1, <1>3 DEF RowFirst, InPlace
<1>12. LostOnlyIfLeftBehind'
  <2> SUFFICES ASSUME faults = 0, NEW u \in Turns, toolCalls[u].status = "running",
                      tool[u].at = "gone", tool[u].session = SessionOf[u], u \notin left, InPlace(u)
               PROVE  IsActive(executions'[toolCalls[u].execution])
    BY <1>1, <1>3 DEF LostOnlyIfLeftBehind, InPlace
  <2>1. toolCalls[u].execution = lease[u] /\ lease[u] # None
    BY DEF RowFirst, NoCall, InPlace
  <2>2. QED  BY <1>5, <2>1 DEF LostOnlyIfLeftBehind, InPlace
<1>13. QED  BY <1>6, <1>7, <1>8, <1>9, <1>10, <1>11, <1>12

LEMMA FinishTurnKeeps ==
  ASSUME TInv, IInv', NEW t \in Turns, FinishTurn(t)
  PROVE  TurnInv'
  BY GivesBackKeeps DEF FinishTurn, Alive, history

LEMMA GraceOverKeeps ==
  ASSUME TInv, IInv', NEW t \in Turns, GraceOver(t)
  PROVE  TurnInv'
<1> DEFINE w == IF turn[t] = "graceAsked" THEN "asked" ELSE "over"
<1>1. /\ turn[t] \in {"graceIdle", "graceAsked"}
      /\ turn' = [turn EXCEPT ![t] = w]
      /\ UNCHANGED <<twoPhase, lease, gen, aborted, stream, tool, current, known, polls, left, overtaken>>
  BY DEF GraceOver, history
<1>2. /\ w \in {"over", "asked"} /\ (turn[t] = "graceAsked" => w = "asked")
      /\ w = "asked" => turn[t] = "graceAsked" /\ gen[t] \in {"running", "ended"}
  BY DEF TInv, TurnInv, Holding
<1> HIDE DEF w
<1>3. CASE twoPhase /\ turn[t] = "graceIdle" /\ gen[t] # "ended"
  <2> USE DEF TInv, TurnInv
  <2>1. UNCHANGED managerVars  BY <1>3 DEF GraceOver
  <2>2. \A u \in Turns : turn'[u] = IF u = t THEN w ELSE turn[u]
    BY <1>1 DEF TypeOK
  <2>3. TypeOK'
    BY <1>1, <1>2 DEF TypeOK, IInv
  <2> USE <2>1 DEF managerVars, memory, disk, life
  <2>4. LeaseApart'
    BY <1>1, <1>2, <2>2 DEF LeaseApart
  <2>5. RunsInLife' /\ Registered' /\ Holding'
    BY <1>1, <1>2, <1>3, <2>2 DEF RunsInLife, Registered, Holding, Started, Alive, InTool, AtWork, InPlace
  <2>6. ToolInStream' /\ RowFirst' /\ LostOnlyIfLeftBehind'
    BY <1>1, <1>2, <2>2 DEF ToolInStream, RowFirst, LostOnlyIfLeftBehind, InTool, InPlace
  <2>7. QED  BY <2>3, <2>4, <2>5, <2>6
<1>4. CASE ~(twoPhase /\ turn[t] = "graceIdle" /\ gen[t] # "ended")
  <2>1. (\E to \in {"COMPLETED", "FAILED"} : Finish(lease[t], to)) \/ ConfirmCancel(lease[t])
    BY <1>4 DEF GraceOver
  <2>2. twoPhase /\ Alive(t) => w = "asked"
    BY <1>1, <1>2, <1>4 DEF Alive
  <2>3. QED  BY <1>1, <1>2, <2>1, <2>2, GivesBackKeeps
<1>5. QED  BY <1>3, <1>4


LEMMA RecordToolKeeps ==
  ASSUME TInv, IInv', NEW t \in Turns, RecordTool(t)
  PROVE  TurnInv'
<1> USE DEF TInv, TurnInv
<1> DEFINE e == tool[t].execution
<1>1. /\ tool[t].at = "recording"
      /\ \/ BeginToolCall(t, e) /\ tool' = [tool EXCEPT ![t].at = "executing"]
         \/ BeginRefused /\ tool' = [tool EXCEPT ![t].at = "refused"]
      /\ UNCHANGED <<twoPhase, turn, lease, gen, aborted, stream, current, known, polls, left, overtaken>>
  BY DEF RecordTool, history
<1>2. /\ UNCHANGED <<records, executions, phase, attached, issued>>
      /\ faults' = 0 => faults = 0
  BY <1>1, ManagerAssumption
  DEF BeginToolCall, BeginRefused, memory, disk, life, IInv, ManagerTypeOK
<1>3. /\ tool'[t].at \in {"executing", "refused"}
      /\ \A u \in Turns : /\ u # t => tool'[u] = tool[u]
                          /\ tool'[u].session = tool[u].session
                          /\ tool'[u].execution = tool[u].execution
  BY <1>1 DEF TypeOK
<1>4. toolCalls[t] = NoCall  BY <1>1 DEF RowFirst, InPlace
<1>5. /\ \A u \in Turns : u # t => toolCalls'[u] = toolCalls[u]
      /\ tool'[t].at = "refused" => toolCalls'[t] = NoCall
      /\ toolCalls'[t] # NoCall => toolCalls'[t].execution = e
      /\ tool'[t].at = "executing" /\ attached => toolCalls'[t] # NoCall
  <2>1. t \in Calls /\ \A u \in Turns : u \in Calls  BY TurnFacts
  <2>2. CASE BeginToolCall(t, e) /\ tool' = [tool EXCEPT ![t].at = "executing"]
    <3>1. tool'[t].at = "executing"  BY <2>2 DEF TypeOK
    <3>2. toolCalls' = IF attached
                       THEN [toolCalls EXCEPT ![t] = [execution |-> e, status |-> "running"]]
                       ELSE toolCalls
      BY <1>4, <2>2 DEF BeginToolCall
    <3>3. QED  BY <1>4, <2>1, <3>1, <3>2 DEF IInv, ManagerTypeOK, NoCall
  <2>3. CASE BeginRefused /\ tool' = [tool EXCEPT ![t].at = "refused"]
    <3>1. tool'[t].at = "refused" /\ toolCalls' = toolCalls
      BY <2>3 DEF TypeOK, BeginRefused, disk
    <3>2. QED  BY <1>4, <3>1
  <2>4. QED  BY <1>1, <2>2, <2>3
<1>6. TypeOK'
  <2>1. tool' \in [Turns -> [at : {"none", "recording", "executing", "returned", "done",
                                   "refused", "gone"},
                             session : Sessions \cup {None}, execution : Ids \cup {None}]]
    BY <1>1 DEF TypeOK
  <2>2. QED  BY <1>1, <2>1 DEF TypeOK, IInv
<1>7. LeaseApart'
  BY <1>1, <1>2, <1>3 DEF LeaseApart, NoTool
<1>8. RunsInLife' /\ Registered' /\ Holding'
  BY <1>1, <1>2, <1>3 DEF RunsInLife, Registered, Holding, Started, Alive, InTool, AtWork, InPlace
<1>9. ToolInStream'
  BY <1>1, <1>3 DEF ToolInStream, InTool
<1>10. RowFirst'
  BY <1>1, <1>2, <1>3, <1>5 DEF RowFirst, InPlace
<1>11. LostOnlyIfLeftBehind'
  BY <1>1, <1>2, <1>3, <1>5 DEF LostOnlyIfLeftBehind, InPlace
<1>12. QED  BY <1>6, <1>7, <1>8, <1>9, <1>10, <1>11

LEMMA SettleToolKeeps ==
  ASSUME TInv, IInv', NEW t \in Turns, SettleTool(t)
  PROVE  TurnInv'
<1> USE DEF TInv, TurnInv
<1> DEFINE e == tool[t].execution
<1>1. /\ tool[t].at = "returned" /\ tool' = [tool EXCEPT ![t].at = "done"]
      /\ \/ UNCHANGED managerVars
         \/ \E status \in {"completed", "failed"} : EndToolCall(t, e, status)
      /\ UNCHANGED <<twoPhase, turn, lease, gen, aborted, stream, current, known, polls, left, overtaken>>
  BY DEF SettleTool, history
<1>2. /\ UNCHANGED <<records, executions, phase, attached, issued>>
      /\ faults' = 0 => faults = 0
  BY <1>1, ManagerAssumption
  DEF EndToolCall, managerVars, memory, disk, life, IInv, ManagerTypeOK
<1>3. /\ tool'[t].at = "done"
      /\ \A u \in Turns : /\ u # t => tool'[u] = tool[u]
                          /\ tool'[u].session = tool[u].session
                          /\ tool'[u].execution = tool[u].execution
  BY <1>1 DEF TypeOK
<1>4. /\ \A u \in Turns : u # t => toolCalls'[u] = toolCalls[u]
      /\ toolCalls'[t] = toolCalls[t] \/ toolCalls'[t].execution = e
  <2>1. \A u \in Turns : u \in Calls  BY TurnFacts
  <2>2. CASE UNCHANGED managerVars  BY <2>2 DEF managerVars, disk
  <2>3. ASSUME NEW status \in {"completed", "failed"}, EndToolCall(t, e, status)
        PROVE  /\ \A u \in Turns : u # t => toolCalls'[u] = toolCalls[u]
               /\ toolCalls'[t] = toolCalls[t] \/ toolCalls'[t].execution = e
    <3>1. \/ toolCalls' = toolCalls
          \/ toolCalls' = [toolCalls EXCEPT ![t] = [execution |-> e, status |-> status]]
      BY <2>3 DEF EndToolCall
    <3>2. QED  BY <2>1, <3>1 DEF IInv, ManagerTypeOK
  <2>4. QED  BY <1>1, <2>2, <2>3
<1>5. TypeOK'
  <2>1. tool' \in [Turns -> [at : {"none", "recording", "executing", "returned", "done",
                                   "refused", "gone"},
                             session : Sessions \cup {None}, execution : Ids \cup {None}]]
    BY <1>1 DEF TypeOK
  <2>2. QED  BY <1>1, <2>1 DEF TypeOK, IInv
<1>6. LeaseApart'
  BY <1>1, <1>2, <1>3 DEF LeaseApart, NoTool
<1>7. RunsInLife' /\ Registered' /\ Holding'
  BY <1>1, <1>2, <1>3 DEF RunsInLife, Registered, Holding, Started, Alive, InTool, AtWork, InPlace
<1>8. ToolInStream'
  BY <1>1, <1>3 DEF ToolInStream, InTool
<1>9. RowFirst'
  BY <1>1, <1>2, <1>3, <1>4 DEF RowFirst, InPlace
<1>10. LostOnlyIfLeftBehind'
  BY <1>1, <1>2, <1>3, <1>4 DEF LostOnlyIfLeftBehind, InPlace
<1>11. QED  BY <1>5, <1>6, <1>7, <1>8, <1>9, <1>10

LEMMA ProcessCrashKeeps ==
  ASSUME TInv, IInv', ProcessCrash
  PROVE  TurnInv'
<1> USE DEF TInv, TurnInv
<1>1. /\ \A id \in Ids : records'[id].status = "none"
      /\ UNCHANGED <<executions, toolCalls, attached, issued, faults>>
      /\ phase' = "down"
      /\ UNCHANGED <<twoPhase, lease, aborted, known, polls, left, overtaken>>
      /\ stream' = [s \in Sessions |-> None] /\ current' = None
  BY DEF ProcessCrash, Crash, Forget, NoRecord, disk, history
<1>2. \A t \in Turns :
        /\ turn'[t] = IF Started(t) THEN "lost" ELSE turn[t]
        /\ gen'[t] = IF Alive(t) THEN "ended" ELSE gen[t]
        /\ tool'[t] = IF InTool(t) THEN [tool[t] EXCEPT !.at = "gone"] ELSE tool[t]
  BY DEF ProcessCrash
<1>3. \A t \in Turns :
        /\ tool'[t].session = tool[t].session /\ tool'[t].execution = tool[t].execution
        /\ tool'[t].at = IF InTool(t) THEN "gone" ELSE tool[t].at
        /\ ~Started(t)' /\ ~Alive(t)' /\ ~InTool(t)'
  BY <1>2 DEF TypeOK, Started, Alive, InTool
<1>4. TypeOK'
  <2>1. /\ turn' \in [Turns -> {"new", "waiting", "consuming", "graceIdle", "graceAsked",
                                "over", "asked", "lost"}]
        /\ gen' \in [Turns -> {"none", "setup", "displacing", "opening", "running", "ended"}]
    BY DEF ProcessCrash, TypeOK
  <2>2. tool' \in [Turns -> [at : {"none", "recording", "executing", "returned", "done",
                                   "refused", "gone"},
                             session : Sessions \cup {None}, execution : Ids \cup {None}]]
    <3>1. \A t \in Turns :
            [tool[t] EXCEPT !.at = "gone"] \in
              [at : {"none", "recording", "executing", "returned", "done", "refused", "gone"},
               session : Sessions \cup {None}, execution : Ids \cup {None}]
      BY DEF TypeOK
    <3>2. QED  BY <3>1 DEF ProcessCrash, TypeOK
  <2>3. QED  BY <1>1, <2>1, <2>2 DEF TypeOK, IInv
<1>5. LeaseApart'
  <2> SUFFICES ASSUME NEW t \in Turns
               PROVE  /\ turn'[t] \in {"new", "waiting"}
                           => gen'[t] = "none" /\ lease[t] = None /\ tool'[t] = NoTool
                      /\ gen'[t] # "none" \/ turn'[t] \in {"consuming", "graceIdle", "graceAsked"}
                           => lease[t] # None
                      /\ lease[t] # None =>
                           /\ lease[t] <= issued
                           /\ records'[lease[t]].status = "none"
                           /\ \A u \in Turns : u # t => lease[u] # lease[t]
    BY <1>1 DEF LeaseApart
  <2>1. turn'[t] \in {"new", "waiting"} => turn[t] = "new" /\ ~Alive(t) /\ ~InTool(t)
    <3>1. turn'[t] \in {"new", "waiting"} => turn[t] = "new"
      BY <1>2 DEF Started
    <3>2. turn[t] = "new" => gen[t] = "none" /\ tool[t] = NoTool
      BY DEF LeaseApart
    <3>3. NoTool.at = "none"  BY DEF NoTool
    <3>4. QED  BY <3>1, <3>2, <3>3 DEF Alive, InTool
  <2>2. turn'[t] \in {"new", "waiting"}
          => gen'[t] = "none" /\ lease[t] = None /\ tool'[t] = NoTool
    BY <1>2, <2>1 DEF LeaseApart
  <2>3. gen'[t] # "none" => gen[t] # "none"
    BY <1>2 DEF Alive
  <2>4. turn'[t] \notin {"consuming", "graceIdle", "graceAsked"}
    BY <1>3 DEF Started
  <2>5. QED  BY <1>1, <2>2, <2>3, <2>4, TurnFacts DEF LeaseApart
<1>6. RunsInLife' /\ ToolInStream'
  BY <1>3 DEF RunsInLife, ToolInStream
<1>7. Registered' /\ Holding'
  BY <1>1, <1>2, <1>3 DEF Registered, Holding, Alive, Started, AtWork, InPlace
<1>8. RowFirst'
  BY <1>1, <1>3 DEF RowFirst, InTool, InPlace
<1>9. LostOnlyIfLeftBehind'
  <2> SUFFICES ASSUME faults = 0, NEW t \in Turns, toolCalls[t].status = "running",
                      tool'[t].at = "gone", tool[t].session = SessionOf[t], t \notin left, InPlace(t)
               PROVE  IsActive(executions[toolCalls[t].execution])
    BY <1>1, <1>3 DEF LostOnlyIfLeftBehind, InPlace
  <2>1. CASE InTool(t)
    <3>1. toolCalls[t].execution = lease[t] /\ lease[t] # None
      BY DEF RowFirst, NoCall, InPlace
    <3>2. lease[t] \in Ids /\ IsActive(records[lease[t]])
      BY <2>1, <3>1, TurnFacts DEF ToolInStream, Holding
    <3>3. QED  BY <3>1, <3>2 DEF DiskFollows
  <2>2. CASE ~InTool(t)  BY <1>3, <2>2 DEF LostOnlyIfLeftBehind, InPlace
  <2>3. QED  BY <2>1, <2>2
<1>10. QED  BY <1>4, <1>5, <1>6, <1>7, <1>8, <1>9

LEMMA BootKeeps ==
  ASSUME TInv, IInv', Boot
  PROVE  TurnInv'
<1> USE DEF TInv, TurnInv
<1>1. /\ UNCHANGED <<twoPhase, turn, lease, gen, aborted, stream, tool, current, known, polls, left, overtaken>>
      /\ UNCHANGED <<records, issued>> /\ phase # "up"
      /\ faults' = 0 => faults = 0
  BY ManagerAssumption
  DEF Boot, turnVars, history, Recovery, Restart, RestartBlind, KeepFresh, ReclaimStale, RecoverDone,
      RecoverFails, memory, IInv, ManagerTypeOK
<1>2. \A t \in Turns : ~Started(t) /\ ~Alive(t) /\ ~InTool(t)
  BY <1>1 DEF RunsInLife
<1>3. TypeOK'
  BY <1>1 DEF TypeOK, IInv
<1>4. LeaseApart'
  BY <1>1 DEF LeaseApart
<1>5. RunsInLife' /\ Registered' /\ Holding' /\ ToolInStream'
  BY <1>1, <1>2 DEF RunsInLife, Registered, Holding, ToolInStream, Started, Alive, InTool, AtWork, InPlace
<1>6. \A c \in Calls :
        /\ toolCalls'[c].execution = toolCalls[c].execution
        /\ toolCalls[c] = NoCall <=> toolCalls'[c] = NoCall
        /\ toolCalls'[c].status = "running" =>
             /\ toolCalls[c].status = "running"
             /\ toolCalls[c].execution \in Ids
                  => executions'[toolCalls[c].execution] = executions[toolCalls[c].execution]
  <2>1. CASE ReclaimStale
    <3> DEFINE id == Oldest
    <3>1. id \in todo /\ id \in Ids
      BY <2>1, OldestFacts DEF ReclaimStale, IInv, ManagerTypeOK
    <3>2. /\ toolCalls' = UnknownOf(id)
          /\ executions' = [executions EXCEPT ![id].status = "STALE", ![id].generation = @ + 1]
      BY <2>1 DEF ReclaimStale
    <3> HIDE DEF id
    <3>3. \A j \in Ids : j # id => executions'[j] = executions[j]
      BY <3>2 DEF IInv, ManagerTypeOK
    <3>4. \A c \in Calls :
            /\ toolCalls'[c] = IF toolCalls[c].execution = id /\ toolCalls[c].status = "running"
                               THEN [toolCalls[c] EXCEPT !.status = "unknown"]
                               ELSE toolCalls[c]
            /\ [toolCalls[c] EXCEPT !.status = "unknown"].status = "unknown"
            /\ [toolCalls[c] EXCEPT !.status = "unknown"].execution = toolCalls[c].execution
      BY <3>2 DEF UnknownOf, IInv, ManagerTypeOK
    <3>5. NoCall.status = "none"  BY DEF NoCall
    <3>6. QED  BY <3>3, <3>4, <3>5
  <2>2. CASE ~ReclaimStale
    <3>1. UNCHANGED disk
      BY <2>2 DEF Boot, Recovery, Restart, RestartBlind, KeepFresh, RecoverDone, RecoverFails
    <3>2. QED  BY <3>1 DEF disk
  <2>3. QED  BY <2>1, <2>2
<1>7. RowFirst'
  BY <1>1, <1>2, <1>6, TurnFacts DEF RowFirst, InTool, InPlace
<1>8. LostOnlyIfLeftBehind'
  <2> SUFFICES ASSUME faults = 0, NEW t \in Turns, toolCalls'[t].status = "running",
                      tool[t].at = "gone", tool[t].session = SessionOf[t], t \notin left, InPlace(t)
               PROVE  IsActive(executions'[toolCalls'[t].execution])
    BY <1>1 DEF LostOnlyIfLeftBehind, InPlace
  <2>1. t \in Calls /\ toolCalls[t].status = "running"  BY <1>6, TurnFacts
  <2>2. toolCalls[t].execution = lease[t] /\ lease[t] \in Ids
    BY <2>1, TurnFacts DEF RowFirst, NoCall, InPlace
  <2>3. QED  BY <1>6, <2>1, <2>2 DEF LostOnlyIfLeftBehind, InPlace
<1>9. QED  BY <1>3, <1>4, <1>5, <1>7, <1>8


-----------------------------------------------------------------------------
(* Every step is a step of the manager, or leaves it alone.                *)

LEMMA StepOfManager ==
  ASSUME TInv, [Next]_vars
  PROVE  [ManagerNext]_managerVars
<1> USE DEF TInv, TurnInv
<1>1. ASSUME NEW t \in Turns, Begin(t) \/ Busy(t) PROVE ManagerNext
  BY <1>1, TurnFacts DEF Begin, Busy, ManagerNext, Lease
<1>2. ASSUME NEW t \in Turns,
             \/ CreateSession(t) \/ Displace(t) \/ Register(t) \/ OpenStream(t)
             \/ SetupFails(t) \/ EndStream(t)
             \/ CallTool(t) \/ ExecuteTool(t)
      PROVE  UNCHANGED managerVars
  BY <1>2 DEF CreateSession, Displace, Register, OpenStream, SetupFails, EndStream, CallTool, ExecuteTool
<1>3. ASSUME NEW s \in Sessions, AbortStream(s) \/ SwitchSession(s)
      PROVE  UNCHANGED managerVars
  BY <1>3 DEF AbortStream, SwitchSession
<1>4. ASSUME NEW t \in Turns, RecordTool(t) \/ SettleTool(t)
      PROVE  [ManagerNext]_managerVars
  <2>1. t \in Calls  BY TurnFacts
  <2>2. \A id \in born + 1 .. issued : id \in Ids
    BY ManagerAssumption DEF IInv, ManagerTypeOK, Ids
  <2>3. CASE RecordTool(t)
    <3>1. BeginToolCall(t, tool[t].execution) \/ BeginRefused  BY <2>3 DEF RecordTool
    <3>2. BeginToolCall(t, tool[t].execution) => tool[t].execution \in Ids
      BY <2>2 DEF BeginToolCall
    <3>3. QED  BY <2>1, <3>1, <3>2 DEF ManagerNext, ToolCall
  <2>4. CASE SettleTool(t)
    <3>1. \/ UNCHANGED managerVars
          \/ \E status \in {"completed", "failed"} : EndToolCall(t, tool[t].execution, status)
      BY <2>4 DEF SettleTool
    <3>2. \A status \in {"completed", "failed"} :
            EndToolCall(t, tool[t].execution, status) => tool[t].execution \in Ids
      BY <2>2 DEF EndToolCall
    <3>3. QED  BY <2>1, <3>1, <3>2 DEF ManagerNext, ToolCall
  <2>5. QED  BY <1>4, <2>3, <2>4
<1>5. ASSUME NEW t \in Turns, FinishTurn(t) \/ IdleTimeout(t) \/ AskedInVain(t) \/ GraceOver(t)
      PROVE  [ManagerNext]_managerVars
  <2>1. lease[t] \in Ids
    BY <1>5, TurnFacts
    DEF FinishTurn, IdleTimeout, AskedInVain, GraceOver, Cancel, LeaseApart
  <2>2. \/ UNCHANGED managerVars
        \/ \E to \in {"COMPLETED", "FAILED"} : Finish(lease[t], to)
        \/ ConfirmCancel(lease[t]) \/ RequestCancel(lease[t])
    BY <1>5 DEF FinishTurn, IdleTimeout, AskedInVain, GraceOver, Cancel
  <2>3. QED  BY <2>1, <2>2 DEF ManagerNext, Lease
<1>6. CASE ProcessCrash  BY <1>6 DEF ProcessCrash, ManagerNext
<1>7. CASE Boot  BY <1>7 DEF Boot, ManagerNext
<1>8. CASE UNCHANGED vars  BY <1>8 DEF vars
<1>9. CASE Next
  BY <1>1, <1>2, <1>3, <1>4, <1>5, <1>6, <1>7, <1>9 DEF Next, Turn
<1>10. QED  BY <1>8, <1>9

LEMMA TurnsInit == Init => TInv
<1> SUFFICES ASSUME Init PROVE TInv  OBVIOUS
<1>1. IInv  BY InvInit DEF Init
<1>2. DiskFollows
  BY DEF Init, ManagerInit, DiskFollows
<1>3. TypeOK
  <2>1. NoTool \in [at : {"none", "recording", "executing", "returned", "done",
                          "refused", "gone"},
                    session : Sessions \cup {None}, execution : Ids \cup {None}]
    BY DEF NoTool
  <2>2. polls \in [Turns -> 0..MaxPolls]  BY TurnsAssumption DEF Init
  <2>3. QED  BY <1>1, <2>1, <2>2 DEF Init, TypeOK, IInv
<1>4. LeaseApart /\ RunsInLife /\ Registered /\ Holding
  BY DEF Init, LeaseApart, RunsInLife, Registered, Holding, Started, Alive, InTool, NoTool, AtWork, InPlace
<1>5. ToolInStream /\ LostOnlyIfLeftBehind
  BY DEF Init, ToolInStream, LostOnlyIfLeftBehind, InTool, NoTool, InPlace
<1>6. RowFirst
  BY <1>3, TurnFacts DEF Init, ManagerInit, RowFirst, NoTool, InPlace
<1>7. QED  BY <1>1, <1>2, <1>3, <1>4, <1>5, <1>6 DEF TInv, TurnInv

LEMMA TurnsNext == TInv /\ [Next]_vars => TInv'
<1> SUFFICES ASSUME TInv, [Next]_vars PROVE TInv'  OBVIOUS
<1>1. [ManagerNext]_managerVars  BY StepOfManager
<1>2. IInv'  BY <1>1, InvNext DEF TInv
<1>3. DiskFollows'  BY <1>1, DiskFollowsKeeps DEF TInv
<1>4. ASSUME NEW t \in Turns, Turn(t) PROVE TurnInv'
  BY <1>2, <1>4, BeginKeeps, BusyKeeps, SessionsKeep, DisplaceKeeps, RegisterKeeps, OpenStreamKeeps, StreamEndKeeps,
     CallToolKeeps, RecordToolKeeps, ExecuteToolKeeps, SettleToolKeeps, FinishTurnKeeps,
     CancelKeeps, GraceOverKeeps
  DEF Turn
<1>5. ASSUME NEW s \in Sessions, AbortStream(s) \/ SwitchSession(s) PROVE TurnInv'
  BY <1>2, <1>5, AbortStreamKeeps, SessionsKeep
<1>6. CASE ProcessCrash  BY <1>2, <1>3, <1>6, ProcessCrashKeeps DEF TInv
<1>7. CASE Boot  BY <1>2, <1>3, <1>7, BootKeeps DEF TInv
<1>8. CASE UNCHANGED vars
  <2> USE <1>8 DEF TInv, TurnInv, vars, turnVars, history, managerVars, memory, disk, life
  <2>1. TypeOK'  BY <1>2 DEF TypeOK, IInv
  <2>2. LeaseApart' /\ RunsInLife' /\ Registered' /\ Holding'
    BY DEF LeaseApart, RunsInLife, Registered, Holding, Started, Alive, InTool, AtWork, InPlace
  <2>3. ToolInStream' /\ RowFirst' /\ LostOnlyIfLeftBehind'
    BY DEF ToolInStream, RowFirst, LostOnlyIfLeftBehind, InTool, InPlace
  <2>4. TurnInv'  BY <2>1, <2>2, <2>3
  <2>5. QED  BY <1>2, <1>3, <2>4
<1>9. CASE Next
  BY <1>2, <1>3, <1>4, <1>5, <1>6, <1>7, <1>9 DEF Next, TInv
<1>10. QED  BY <1>8, <1>9

LEMMA TurnsInvariance == Spec => []TInv
<1>1. QED  BY TurnsInit, TurnsNext, PTL DEF Spec

-----------------------------------------------------------------------------
(* The results.                                                            *)

(* What the turns do to executions, leases and rows is what the manager    *)
(* allows: the theorems about the manager hold of the composition.         *)
THEOREM ImplementsManager == Spec => ManagerSpec
<1>1. Init => ManagerInit  BY DEF Init
<1>2. TInv /\ [Next]_vars => [ManagerNext]_managerVars  BY StepOfManager
<1>3. QED  BY <1>1, <1>2, TurnsInvariance, PTL DEF Spec, ManagerSpec

(* Every variable of the turns and the manager stays within its type.      *)
THEOREM TurnsTypeCorrect == Spec => []TypeOK
<1>1. TInv => TypeOK  BY DEF TInv, TurnInv
<1>2. QED  BY <1>1, TurnsInvariance, PTL

(* With two-phase cancellation the router never lets two streams of a      *)
(* session run side by side, for any number of messages and crashes.       *)
THEOREM OneStream == Spec => []OneStreamAtATime
<1>1. ASSUME TInv, twoPhase, NEW t \in Turns, NEW u \in Turns, t # u,
             SessionOf[t] = SessionOf[u], Alive(t), Alive(u), turn[t] # "asked"
      PROVE  turn[u] = "asked"
  <2> USE DEF TInv, TurnInv
  <2>1. SUFFICES ASSUME turn[u] # "asked" PROVE FALSE  OBVIOUS
  <2>2. /\ IsActive(records[lease[t]]) /\ IsActive(records[lease[u]])
        /\ lease[t] # None /\ lease[u] # None
    BY <1>1, <2>1 DEF Holding, LeaseApart, Alive
  <2>3. QED  BY <1>1, <2>2, OneHolds
<1>2. TInv => OneStreamAtATime  BY <1>1 DEF OneStreamAtATime
<1>3. QED  BY <1>2, TurnsInvariance, PTL

(* A tool that is called in its own session runs only after its row was    *)
(* written under the execution of its turn (executeToolWithGuards),        *)
(* unless without two-phase cancellation a stream that had waited for an   *)
(* older one was registered over that of the turn.                         *)
THEOREM RecordedFirst == Spec => []EffectIsRecorded
<1>1. TInv => EffectIsRecorded
  BY DEF TInv, TurnInv, RowFirst, EffectIsRecorded, InPlace
<1>2. QED  BY <1>1, TurnsInvariance, PTL

(* What a crash interrupts, recovery finds: a tool call that was running   *)
(* belongs to an execution that is still active on disk, unless its stream *)
(* left it behind or was registered over, another session was current, or  *)
(* a write failed.                                                         *)
THEOREM LostOnlyLeftBehind == Spec => []LostOnlyIfLeftBehind
<1>1. TInv => LostOnlyIfLeftBehind  BY DEF TInv, TurnInv
<1>2. QED  BY <1>1, TurnsInvariance, PTL

(* A session of the turns is held by one active execution at a time.       *)
THEOREM TurnsHaveOneOwner == Spec => []ActiveIsOwner
<1>1. QED  BY ImplementsManager, OneOwner, PTL

(* A lease that a crash left unconfirmed keeps its session from every turn *)
(* of the next life until it is judged or given up.                        *)
THEOREM TurnsAreBlocked == Spec => []KeptBlocks
<1>1. QED  BY ImplementsManager, BlockedByEarlierLife, PTL

(* Of the executions the turns start in a session across restarts, the     *)
(* later ones have the higher generations while the earlier are active.    *)
THEOREM TurnsAreFenced == Spec => []FencedAcrossRestarts
<1>1. QED  BY ImplementsManager, Fenced, PTL

(* No turn starts before recovery has judged what the last process left.   *)
THEOREM TurnsAreJudged == Spec => []RecoveredIsJudged
<1>1. QED  BY ImplementsManager, NothingRunsJudged, PTL

(* The verdict on an execution of a turn is never revised, neither by the  *)
(* router, a late tool or a timer, nor by the recovery of the next process. *)
THEOREM TurnsEndFinally == Spec => TerminalIsFinal
<1>1. QED  BY ImplementsManager, EndIsFinal, PTL

=============================================================================
