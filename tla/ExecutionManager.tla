--------------------------- MODULE ExecutionManager ---------------------------
(***************************************************************************)
(* Executions, their leases and their rows on disk (service/execution:     *)
(* ExecutionManager, ExecutionLease, ExecutionStore, waitForOwnership).    *)
(*                                                                         *)
(* A session has at most one active execution, its owner.  Memory is the   *)
(* authority; each change of a record is written through, and a write that *)
(* fails is only logged.  After a restart recover() reads the rows that    *)
(* were left active: a stale heartbeat makes the row STALE and its         *)
(* unsettled tool calls unknown, a fresh one blocks the session.           *)
(*                                                                         *)
(* An action is what a caller does in one synchronous block: acquire and   *)
(* isCurrent, or complete and release.  Execution ids are numbers in the   *)
(* order they were handed out.  Nobody sends heartbeats while an execution *)
(* runs, so a row is as old as its id: `cut` is the last id too old to be  *)
(* kept.  WAITING_USER is entered by nobody, and QUEUED lasts less than a  *)
(* step: isCurrent() turns a queued record STALE.                          *)
(***************************************************************************)
EXTENDS Integers, FiniteSets

CONSTANTS
  Sessions,
  Calls,       \* tool calls
  None,
  MaxIds,      \* bound: executions
  MaxFaults,   \* bound: writes that fail, recoveries that throw
  MaxCrashes   \* bound

ASSUME ManagerAssumption ==
  /\ MaxIds \in Nat /\ MaxFaults \in Nat /\ MaxCrashes \in Nat
  /\ None \notin Nat
  /\ None \notin Sessions

VARIABLES
  records,         \* memory: id -> its record
  owner,           \* memory: session -> the id that owns it, or None
  lastGeneration,  \* memory: session -> the last generation handed out
  foreignActive,   \* memory: session -> the kept execution of an earlier life, or None
  executions,      \* disk: id -> its row
  toolCalls,       \* disk: tool call -> its row
  phase,           \* whether the process is down, recovering, or up
  attached,        \* was the store attached in this life?
  recovered,       \* did recover() come to its end in this life?
  listed,          \* the rows recover() found active in this life
  todo,            \* those of them it has still to judge
  cut,             \* the last id whose heartbeat is stale
  issued,          \* the last id handed out
  born,            \* the last id handed out before this life
  judged,          \* history: ids recover() turned STALE
  faults, crashes  \* counters of the bounds

memory      == <<records, owner, lastGeneration, foreignActive>>
disk        == <<executions, toolCalls>>
life        == <<phase, attached, recovered, listed, todo, cut, born, judged, crashes>>
managerVars == <<memory, disk, life, issued, faults>>

Ids == 1..MaxIds

ActiveStatuses == {"RUNNING", "CANCEL_REQUESTED"}
Terminal       == {"CANCELLED", "COMPLETED", "FAILED", "STALE"}

CanTransition(from, to) ==
  \/ from = "RUNNING" /\ to \in {"CANCEL_REQUESTED", "COMPLETED", "FAILED", "STALE"}
  \/ from = "CANCEL_REQUESTED" /\ to \in {"CANCELLED", "STALE"}

NoRecord == [session |-> None, generation |-> 0, status |-> "none"]
NoCall   == [execution |-> None, status |-> "none"]

IsActive(rec) == rec.status \in ActiveStatuses
ActiveRows    == {id \in Ids : IsActive(executions[id])}

-----------------------------------------------------------------------------
(* Writing through.                                                         *)

\* persist(): the row takes the record, or the write fails and nobody is told.
Persist(id, rec) ==
  \/ /\ attached
     /\ executions' = [executions EXCEPT ![id] = rec]
     /\ UNCHANGED faults
  \/ /\ attached /\ faults < MaxFaults
     /\ faults' = faults + 1
     /\ UNCHANGED executions
  \/ ~attached /\ UNCHANGED <<executions, faults>>

-----------------------------------------------------------------------------
(* Leases.                                                                  *)

Occupied(s) ==
  \/ owner[s] # None /\ IsActive(records[owner[s]])
  \/ foreignActive[s] # None

\* Faulty: isCurrent() leaves a queued record as it is.
AcquiredAsQueued(s, status) ==
  [session |-> s, generation |-> lastGeneration[s] + 1,
   status |-> IF status = "RUNNING" THEN status ELSE "QUEUED"]

Acquired(s, status) ==
  [session |-> s, generation |-> lastGeneration[s] + 1, status |-> status]

Issue(s) ==
  /\ phase = "up" /\ issued < MaxIds
  /\ issued' = issued + 1
  /\ lastGeneration' = [lastGeneration EXCEPT ![s] = @ + 1]

\* acquire() of a free session.
Admit(s) ==
  /\ ~Occupied(s)
  /\ Issue(s)
  /\ records' = [records EXCEPT ![issued + 1] = Acquired(s, "RUNNING")]
  /\ owner' = [owner EXCEPT ![s] = issued + 1]
  /\ Persist(issued + 1, Acquired(s, "RUNNING"))
  /\ UNCHANGED <<foreignActive, toolCalls, life>>

\* acquire() of an occupied session, isCurrent(), release(): a row remains.
Refuse(s) ==
  /\ Occupied(s)
  /\ Issue(s)
  /\ Persist(issued + 1, Acquired(s, "STALE"))
  /\ UNCHANGED <<records, owner, foreignActive, toolCalls, life>>

RequestCancel(id) ==
  /\ phase = "up"
  /\ CanTransition(records[id].status, "CANCEL_REQUESTED")
  /\ records' = [records EXCEPT ![id].status = "CANCEL_REQUESTED"]
  /\ Persist(id, [records[id] EXCEPT !.status = "CANCEL_REQUESTED"])
  /\ UNCHANGED <<owner, lastGeneration, foreignActive, toolCalls, life, issued>>

\* Faulty: the end of an execution forgets that it owned its session.
StillOwned(id) == owner' = owner

Disown(id) ==
  owner' = [owner EXCEPT ![records[id].session] = IF @ = id THEN None ELSE @]

\* Faulty: a completion is taken whatever became of the execution.
LandsUnfenced(id, to) == to

\* The status complete(), fail() and then release() leave an execution with.
Lands(id, to) ==
  IF owner[records[id].session] = id /\ CanTransition(records[id].status, to)
  THEN to
  ELSE IF records[id].status \in Terminal THEN records[id].status ELSE "STALE"

\* complete() or fail(), its refusal swallowed, then release().
Finish(id, to) ==
  LET rec == records[id]
      end == [rec EXCEPT !.status = Lands(id, to)]
  IN  /\ phase = "up"
      /\ rec.status # "none"
      /\ Disown(id)
      /\ records' = [records EXCEPT ![id] =
                       IF end.status = "STALE" /\ rec.status # "STALE" THEN end ELSE NoRecord]
      /\ IF end = rec THEN UNCHANGED <<executions, faults>> ELSE Persist(id, end)
      /\ UNCHANGED <<lastGeneration, foreignActive, toolCalls, life, issued>>

\* confirmCancel(), then release().
ConfirmCancel(id) ==
  /\ phase = "up"
  /\ CanTransition(records[id].status, "CANCELLED")
  /\ Disown(id)
  /\ records' = [records EXCEPT ![id] = NoRecord]
  /\ Persist(id, [records[id] EXCEPT !.status = "CANCELLED"])
  /\ UNCHANGED <<lastGeneration, foreignActive, toolCalls, life, issued>>

-----------------------------------------------------------------------------
(* Tool calls of the executions of this life.                               *)

\* beginToolCall() that answers true.
BeginToolCall(c, id) ==
  /\ phase = "up" /\ id \in born + 1 .. issued
  /\ toolCalls' =
       IF attached /\ toolCalls[c] = NoCall
       THEN [toolCalls EXCEPT ![c] = [execution |-> id, status |-> "running"]]
       ELSE toolCalls
  /\ UNCHANGED <<memory, executions, life, issued, faults>>

\* beginToolCall() that answers false: the tool must not run.
BeginRefused ==
  /\ phase = "up" /\ attached
  /\ faults < MaxFaults /\ faults' = faults + 1
  /\ UNCHANGED <<memory, disk, life, issued>>

\* endToolCall(): inserts a missing row, settles a running one, hides a failure.
EndToolCall(c, id, status) ==
  /\ phase = "up" /\ id \in born + 1 .. issued
  /\ \/ /\ toolCalls' =
             IF attached /\ toolCalls[c].status \in {"none", "running"}
             THEN [toolCalls EXCEPT ![c] = [execution |-> id, status |-> status]]
             ELSE toolCalls
        /\ UNCHANGED faults
     \/ /\ attached /\ faults < MaxFaults /\ faults' = faults + 1
        /\ UNCHANGED toolCalls
  /\ UNCHANGED <<memory, executions, life, issued>>

-----------------------------------------------------------------------------
(* Crash, restart, recover().                                               *)

Forget ==
  /\ records' = [id \in Ids |-> NoRecord]
  /\ owner' = [s \in Sessions |-> None]
  /\ lastGeneration' = [s \in Sessions |-> 0]
  /\ foreignActive' = [s \in Sessions |-> None]

Crash ==
  /\ phase # "down" /\ crashes < MaxCrashes
  /\ crashes' = crashes + 1
  /\ phase' = "down" /\ recovered' = FALSE
  /\ listed' = {} /\ todo' = {}
  /\ Forget
  /\ UNCHANGED <<disk, attached, cut, born, judged, issued, faults>>

\* attachStore() and recover() up to listActive(); some time has passed.
Restart ==
  /\ phase = "down"
  /\ phase' = "recovering" /\ attached' = TRUE
  /\ listed' = ActiveRows /\ todo' = ActiveRows
  /\ cut' \in cut..issued
  /\ born' = issued
  /\ UNCHANGED <<memory, disk, recovered, judged, crashes, issued, faults>>

\* Something before it in the same start-up block throws: the store is never attached.
RestartBlind ==
  /\ phase = "down" /\ faults < MaxFaults
  /\ faults' = faults + 1
  /\ phase' = "up" /\ attached' = FALSE
  /\ born' = issued
  /\ UNCHANGED <<memory, disk, recovered, listed, todo, cut, judged, crashes, issued>>

\* Faulty: the rows come with the newest first.
NewestFirst == CHOOSE id \in todo : \A j \in todo : id >= j

\* Rows are listed by updated_at, the oldest first.
Oldest == CHOOSE id \in todo : \A j \in todo : id <= j

KeepFresh ==
  /\ phase = "recovering" /\ todo # {} /\ Oldest > cut
  /\ foreignActive' = [foreignActive EXCEPT ![executions[Oldest].session] = Oldest]
  /\ todo' = todo \ {Oldest}
  /\ UNCHANGED <<records, owner, lastGeneration, disk, phase, attached, recovered, listed,
                 cut, born, judged, crashes, issued, faults>>

\* Faulty: the tool calls are left for later.
UnknownLater(id) == toolCalls

\* markUnsettledToolCallsUnknown().
UnknownOf(id) ==
  [c \in Calls |->
     IF toolCalls[c].execution = id /\ toolCalls[c].status = "running"
     THEN [toolCalls[c] EXCEPT !.status = "unknown"]
     ELSE toolCalls[c]]

\* The tool calls and the row are written in one transaction.
ReclaimStale ==
  LET id == Oldest IN
  /\ phase = "recovering" /\ todo # {} /\ id <= cut
  /\ toolCalls' = UnknownOf(id)
  /\ executions' = [executions EXCEPT ![id].status = "STALE", ![id].generation = @ + 1]
  /\ foreignActive' = [foreignActive EXCEPT ![executions[id].session] = None]
  /\ judged' = judged \cup {id}
  /\ todo' = todo \ {id}
  /\ UNCHANGED <<records, owner, lastGeneration, phase, attached, recovered, listed,
                 cut, born, crashes, issued, faults>>

\* Faulty: the generations start again.
NotLifted(s) == lastGeneration[s]

\* lastGeneration of a session that had active rows rises to its greatest row.
Lifted(s) ==
  LET rows == {executions[id].generation : id \in {i \in Ids : executions[i].session = s}}
  IN  IF \E id \in listed : executions[id].session = s
      THEN CHOOSE g \in rows \cup {lastGeneration[s]} :
             \A h \in rows \cup {lastGeneration[s]} : h <= g
      ELSE lastGeneration[s]

RecoverDone ==
  /\ phase = "recovering" /\ todo = {}
  /\ phase' = "up" /\ recovered' = TRUE
  /\ lastGeneration' = [s \in Sessions |-> Lifted(s)]
  /\ UNCHANGED <<records, owner, foreignActive, disk, attached, listed, todo, cut, born,
                 judged, crashes, issued, faults>>

\* recover() throws; the start-up goes on without it.
RecoverFails ==
  /\ phase = "recovering" /\ faults < MaxFaults
  /\ faults' = faults + 1
  /\ phase' = "up" /\ todo' = {}
  /\ UNCHANGED <<memory, disk, attached, recovered, listed, cut, born, judged, crashes, issued>>

-----------------------------------------------------------------------------
ManagerInit ==
  /\ records = [id \in Ids |-> NoRecord]
  /\ owner = [s \in Sessions |-> None]
  /\ lastGeneration = [s \in Sessions |-> 0]
  /\ foreignActive = [s \in Sessions |-> None]
  /\ executions = [id \in Ids |-> NoRecord]
  /\ toolCalls = [c \in Calls |-> NoCall]
  /\ phase = "up" /\ attached = TRUE /\ recovered = TRUE
  /\ listed = {} /\ todo = {} /\ judged = {}
  /\ cut = 0 /\ issued = 0 /\ born = 0
  /\ faults = 0 /\ crashes = 0

Lease ==
  \/ \E s \in Sessions : Admit(s) \/ Refuse(s)
  \/ \E id \in Ids : RequestCancel(id) \/ ConfirmCancel(id)
  \/ \E id \in Ids, to \in {"COMPLETED", "FAILED"} : Finish(id, to)

ToolCall ==
  \/ BeginRefused
  \/ \E c \in Calls, id \in Ids : BeginToolCall(c, id)
  \/ \E c \in Calls, id \in Ids, status \in {"completed", "failed"} : EndToolCall(c, id, status)

Recovery ==
  \/ Restart \/ RestartBlind \/ KeepFresh \/ ReclaimStale \/ RecoverDone \/ RecoverFails

ManagerNext == Lease \/ ToolCall \/ Crash \/ Recovery

ManagerSpec == ManagerInit /\ [][ManagerNext]_managerVars

-----------------------------------------------------------------------------
Statuses == ActiveStatuses \cup Terminal \cup {"none"}

Record == [session : Sessions \cup {None}, generation : Nat, status : Statuses]

ManagerTypeOK ==
  /\ records \in [Ids -> Record] /\ executions \in [Ids -> Record]
  /\ owner \in [Sessions -> Ids \cup {None}]
  /\ foreignActive \in [Sessions -> Ids \cup {None}]
  /\ lastGeneration \in [Sessions -> Nat]
  /\ toolCalls \in [Calls -> [execution : Ids \cup {None},
                             status : {"none", "running", "completed", "failed", "unknown"}]]
  /\ phase \in {"down", "recovering", "up"}
  /\ attached \in BOOLEAN /\ recovered \in BOOLEAN
  /\ listed \subseteq Ids /\ todo \subseteq listed /\ judged \subseteq Ids
  /\ issued \in 0..MaxIds /\ cut \in 0..issued /\ born \in 0..issued
  /\ faults \in 0..MaxFaults /\ crashes \in 0..MaxCrashes

(* An execution that is active in memory owns its session, and an owner is *)
(* active: so a session never has two active executions, and never waits   *)
(* for one that has ended.                                                 *)
ActiveIsOwner ==
  /\ \A id \in Ids : IsActive(records[id]) => owner[records[id].session] = id
  /\ \A s \in Sessions :
       owner[s] # None => IsActive(records[owner[s]]) /\ records[owner[s]].session = s

(* After a complete recovery a session is blocked exactly if an execution  *)
(* of an earlier life is still active on disk, whatever order the rows of  *)
(* the session were judged in; and nothing runs in a blocked session.      *)
KeptBlocks ==
  phase = "up" /\ recovered =>
    \A s \in Sessions :
      /\ foreignActive[s] # None
           <=> \E id \in ActiveRows : id <= born /\ executions[id].session = s
      /\ foreignActive[s] # None => owner[s] = None

(* An execution has a greater generation than every earlier one of its     *)
(* session in this life, and than every row the recovery of this life      *)
(* found active: a late writer of an earlier life is told from it.         *)
FencedAcrossRestarts ==
  phase = "up" /\ recovered =>
    \A id \in Ids : records[id].status # "none" =>
      /\ \A j \in listed : executions[j].session = records[id].session
                             => executions[j].generation < records[id].generation
      /\ \A j \in Ids : records[j].session = records[id].session /\ j < id
                          => records[j].generation < records[id].generation

(* When recovery has turned an execution STALE, none of its tool calls     *)
(* says running any more, whatever crashes: it would never be looked at    *)
(* again.                                                                  *)
RecoveredIsJudged ==
  \A c \in Calls : toolCalls[c].execution \in judged => toolCalls[c].status # "running"

(* The end of an execution is final, in memory and on disk: an answer that *)
(* comes late does not turn a cancelled or stale execution into a          *)
(* completed one, nor does recovery change one that has ended.             *)
TerminalIsFinal ==
  [][\A id \in Ids :
       /\ executions[id].status \in Terminal => executions'[id] = executions[id]
       /\ records[id].status \in Terminal => records'[id] \in {records[id], NoRecord}
       /\ records[id].status = "CANCEL_REQUESTED"
            => records'[id].status \in {"CANCEL_REQUESTED", "STALE", "none"}
               /\ executions'[id].status \notin {"COMPLETED", "FAILED"}]_managerVars
=============================================================================
