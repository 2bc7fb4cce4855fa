--------------------------- MODULE YieldRegistry ---------------------------
(***************************************************************************)
(* Who is waiting for sub-agents (session/yield/YieldRegistry.ts), the     *)
(* table that survives a crash (YieldWaitingStore.ts), and the handlers    *)
(* that turn a settlement signal into at most one resumption               *)
(* (chat/yield/YieldResumer.ts, handleYieldSettlement).                    *)
(*                                                                         *)
(* A wait is one successful sessions_yield.  Entries are compared by       *)
(* reference in the code; here every registration has a number of its own  *)
(* (wait), and equal numbers stand for equal references.  That is exact    *)
(* because an entry is rebuilt from disk only by a restart, when no        *)
(* handler holds a reference to the old one.                               *)
(*                                                                         *)
(* What a handler asks of its surroundings -- the latest turn, whether     *)
(* runs are active, whether the resumed turn succeeds -- is a parameter;   *)
(* YieldRecovery supplies it.                                              *)
(***************************************************************************)
EXTENDS Integers, FiniteSets

CONSTANTS
  Sessions,
  Resumers,      \* concurrent executions of handleYieldSettlement
  None,          \* no session
  MaxWaits,      \* bound: registrations
  MaxTurn,       \* bound: turn numbers
  MaxTime,       \* bound: clock values
  StoreMayFail   \* may a write to the waiting table be lost, or its reading fail?

ASSUME RegistryAssumption ==
  /\ MaxWaits \in Nat /\ MaxTurn \in Nat /\ MaxTime \in Nat
  /\ StoreMayFail \in BOOLEAN
  /\ None \notin Sessions

VARIABLES
  entries,   \* the in-memory map: session -> entry
  waiting,   \* the table agent_yield_waiting: session -> record
  lastWait,  \* registrations so far
  resumer,   \* control state of each handler
  claims     \* history: claims granted per wait since the process started

registryVars == <<entries, waiting, lastWait, resumer, claims>>

Waits == 1..MaxWaits
Turns == 0..MaxTurn     \* 0: not filled in yet
Times == 0..MaxTime

\* The terminal statuses resumed and abandoned delete the entry at once.
Entry   == [ wait : Waits, turn : Turns, yieldedAt : Times,
             status : {"waiting", "claimed"} ]
NoEntry == [ wait |-> 0, turn |-> 0, yieldedAt |-> 0, status |-> "none" ]

\* toRecord: the entry without its status.
Record   == [ wait : Waits, turn : Turns, yieldedAt : Times ]
NoRecord == [ wait |-> 0, turn |-> 0, yieldedAt |-> 0 ]

ToRecord(e) == [ wait |-> e.wait, turn |-> e.turn, yieldedAt |-> e.yieldedAt ]

\* Faulty: the restart gives back a wait that had been claimed as claimed.
ToClaimedEntry(r) == IF r = NoRecord THEN NoEntry
                     ELSE [ wait |-> r.wait, turn |-> r.turn, yieldedAt |-> r.yieldedAt,
                            status |-> "claimed" ]

ToEntry(r) == IF r = NoRecord THEN NoEntry
               ELSE [ wait |-> r.wait, turn |-> r.turn, yieldedAt |-> r.yieldedAt,
                      status |-> "waiting" ]

Resumer == [ pc       : {"idle", "judge", "claimed", "resuming", "return"},
             session  : Sessions \cup {None},
             wait     : 0..MaxWaits,   \* the entry it read, 0: none
             endedAt  : Times,
             latest   : Turns,         \* latest turn when it started to ask
             restored : BOOLEAN,       \* a replayed signal
             ack      : BOOLEAN ]

IdleResumer == [ pc |-> "idle", session |-> None, wait |-> 0, endedAt |-> 0,
                 latest |-> 0, restored |-> FALSE, ack |-> FALSE ]

-----------------------------------------------------------------------------
(* The registry's questions.                                               *)

\* Faulty: get() returns an entry another handler has claimed.
HasEntry(s) == entries[s].status # "none"

Waiting(s) == entries[s].status = "waiting"     \* get(s) returns the entry

IsSuperseded(s, latest) ==
  Waiting(s) /\ entries[s].turn # 0 /\ latest > entries[s].turn

\* Faulty: the runs that are still active are not asked for.
ResumeAnyway(s, latest, hasActiveRuns, endedAt) ==
  /\ Waiting(s)
  /\ endedAt >= entries[s].yieldedAt
  /\ ~IsSuperseded(s, latest)

ShouldResume(s, latest, hasActiveRuns, endedAt) ==
  /\ Waiting(s)
  /\ ~hasActiveRuns
  /\ endedAt >= entries[s].yieldedAt
  /\ ~IsSuperseded(s, latest)

\* The compare-and-set of claim(): still waiting, and still the entry it read.
CanClaim(s, w) == Waiting(s) /\ entries[s].wait = w

\* A fire-and-forget write to the table: it lands, or it is lost, with a warning or
\* with the process.  The table is read by a restart alone, so a crash between a
\* change in memory and its write is a lost write followed by Restart.
Persist(table) ==
  \/ waiting' = table
  \/ StoreMayFail /\ UNCHANGED waiting

-----------------------------------------------------------------------------
(* Registration, by a turn that yields, and the turn number it gets later. *)

Register(s, now) ==
  /\ lastWait < MaxWaits
  /\ LET e == [ wait |-> lastWait + 1, turn |-> 0, yieldedAt |-> now,
                status |-> "waiting" ]
     IN  /\ entries' = [entries EXCEPT ![s] = e]
         /\ Persist([waiting EXCEPT ![s] = ToRecord(e)])
  /\ lastWait' = lastWait + 1
  /\ UNCHANGED <<resumer, claims>>

\* The end of a turn fills in the turn of whatever entry get(s) returns.
UpdateTurn(s, turn) ==
  /\ Waiting(s)
  /\ LET e == [entries[s] EXCEPT !.turn = turn]
     IN  /\ entries' = [entries EXCEPT ![s] = e]
         /\ Persist([waiting EXCEPT ![s] = ToRecord(e)])
  /\ UNCHANGED <<lastWait, resumer, claims>>

-----------------------------------------------------------------------------
(* handleYieldSettlement.                                                  *)

\* get(s), then await latestTurn(s).
Begin(c, s, endedAt, latest, restored) ==
  /\ resumer[c].pc = "idle"
  /\ resumer' = [resumer EXCEPT ![c] =
       [ pc |-> IF Waiting(s) THEN "judge" ELSE "return",
         session |-> s, wait |-> IF Waiting(s) THEN entries[s].wait ELSE 0,
         endedAt |-> endedAt, latest |-> latest, restored |-> restored,
         ack |-> FALSE ]]
  /\ UNCHANGED <<entries, waiting, lastWait, claims>>

\* From the answer to latestTurn to the claim nothing is awaited.
Refuse(c, latest, hasActiveRuns, handlerSet) ==
  LET r == resumer[c] IN
  /\ r.pc = "judge"
  /\ \/ ~ShouldResume(r.session, latest, hasActiveRuns, r.endedAt)
     \/ ~handlerSet
     \/ ~CanClaim(r.session, r.wait)
  /\ resumer' = [resumer EXCEPT ![c].pc = "return"]
  /\ UNCHANGED <<entries, waiting, lastWait, claims>>

ClaimWait(c, latest, hasActiveRuns, handlerSet) ==
  LET r == resumer[c] IN
  /\ r.pc = "judge"
  /\ ShouldResume(r.session, latest, hasActiveRuns, r.endedAt)
  /\ handlerSet
  /\ CanClaim(r.session, r.wait)
  /\ entries' = [entries EXCEPT ![r.session].status = "claimed"]
  /\ claims' = [claims EXCEPT ![entries[r.session].wait] = @ + 1]
  /\ resumer' = [resumer EXCEPT ![c].pc = "claimed"]
  /\ UNCHANGED <<waiting, lastWait>>

\* The audit record is written; the resume handler is called.
StartResume(c) ==
  /\ resumer[c].pc = "claimed"
  /\ resumer' = [resumer EXCEPT ![c].pc = "resuming"]
  /\ UNCHANGED <<entries, waiting, lastWait, claims>>

\* Faulty: resolve() and abandon() by session alone.
RecordedBySession(c) == entries[resumer[c].session] # NoEntry

\* resolve() and abandon() compare the entry with the one that was claimed.
Recorded(c) == entries[resumer[c].session].wait = resumer[c].wait

\* The handler came back: resolve() if it succeeded, abandon() if not.  Both delete
\* the entry, and only a recorded success is acknowledged.
Finish(c, ok) ==
  LET r == resumer[c] IN
  /\ r.pc = "resuming"
  /\ IF Recorded(c)
     THEN /\ entries' = [entries EXCEPT ![r.session] = NoEntry]
          /\ Persist([waiting EXCEPT ![r.session] = NoRecord])
     ELSE UNCHANGED <<entries, waiting>>
  /\ resumer' = [resumer EXCEPT ![c].pc = "return", ![c].ack = ok /\ Recorded(c)]
  /\ UNCHANGED <<lastWait, claims>>

Return(c) ==
  /\ resumer[c].pc = "return"
  /\ resumer' = [resumer EXCEPT ![c] = IdleResumer]
  /\ UNCHANGED <<entries, waiting, lastWait, claims>>

-----------------------------------------------------------------------------
(* Shutdown, and a restart of the process.                                 *)

\* The table is cleared whether or not the map has entries.
Clear ==
  /\ entries' = [s \in Sessions |-> NoEntry]
  /\ Persist([s \in Sessions |-> NoRecord])
  /\ UNCHANGED <<lastWait, resumer, claims>>

\* The process dies; rebuildYieldWaitingSet() then runs before anything else does.
\* If the table cannot be read the process goes on with no waits.
Restart ==
  /\ \/ entries' = [s \in Sessions |-> ToEntry(waiting[s])]
     \/ StoreMayFail /\ entries' = [s \in Sessions |-> NoEntry]
  /\ resumer' = [c \in Resumers |-> IdleResumer]
  /\ claims'  = [w \in Waits |-> 0]
  /\ UNCHANGED <<waiting, lastWait>>

-----------------------------------------------------------------------------
Init ==
  /\ entries  = [s \in Sessions |-> NoEntry]
  /\ waiting  = [s \in Sessions |-> NoRecord]
  /\ lastWait = 0
  /\ resumer  = [c \in Resumers |-> IdleResumer]
  /\ claims   = [w \in Waits |-> 0]

Handle(c) ==
  \/ \E latest \in Turns, active, set \in BOOLEAN :
       Refuse(c, latest, active, set) \/ ClaimWait(c, latest, active, set)
  \/ StartResume(c)
  \/ \E ok \in BOOLEAN : Finish(c, ok)
  \/ Return(c)

Next ==
  \/ \E s \in Sessions, now \in Times : Register(s, now)
  \/ \E s \in Sessions, turn \in Turns \ {0} : UpdateTurn(s, turn)
  \/ \E c \in Resumers :
       \/ \E s \in Sessions, endedAt \in Times, latest \in Turns, restored \in BOOLEAN :
            Begin(c, s, endedAt, latest, restored)
       \/ Handle(c)
  \/ Clear
  \/ Restart

Spec == Init /\ [][Next]_registryVars

-----------------------------------------------------------------------------
(* Properties.                                                             *)

TypeOK ==
  /\ entries  \in [Sessions -> Entry \cup {NoEntry}]
  /\ waiting  \in [Sessions -> Record \cup {NoRecord}]
  /\ lastWait \in 0..MaxWaits
  /\ resumer  \in [Resumers -> Resumer]
  /\ claims   \in [Waits -> Nat]

Holds(c) == resumer[c].pc \in {"claimed", "resuming"}

\* Within one life of the process a wait is handed to one handler only, however
\* many settlements are judged at once and however often its session registers,
\* finishes turns or yields again meanwhile (the compare-and-set of claim()).
ClaimedAtMostOnce == \A w \in Waits : claims[w] <= 1

\* A claimed entry is in the hands of a handler that will resolve or abandon it:
\* get() hides it from everyone else, so an orphan would block its session's next
\* settlements for ever.
ClaimedHasOwner ==
  \A s \in Sessions : entries[s].status = "claimed" =>
    \E c \in Resumers : /\ Holds(c)
                        /\ resumer[c].session = s
                        /\ resumer[c].wait = entries[s].wait

\* A handler that finishes late never takes away the wait its session registered
\* in the meantime: no step of a handler removes an entry that is still waiting.
SparesWaiting ==
  \A c \in Resumers, s \in Sessions :
    Waiting(s) /\ resumer[c].pc = "resuming" /\ resumer'[c].pc = "return"
    => entries'[s] = entries[s]

NewerWaitSurvives == [][SparesWaiting]_registryVars

\* While no write is lost the table holds exactly the entries in memory, turns
\* included, so that a restart at any moment rebuilds the waits as they were.
DiskMirrorsRegistry ==
  ~StoreMayFail => \A s \in Sessions : waiting[s] = ToRecord(entries[s])

\* The abstract view of an entry: its number, and whether it is still to be taken.
Stage(s) == CASE entries[s].status = "waiting" -> "armed"
              [] entries[s].status = "claimed" -> "taken"
              [] OTHER                         -> "none"

Current == [s \in Sessions |-> [wait |-> entries[s].wait, stage |-> Stage(s)]]

\* The wait each session's record names.
Saved == [s \in Sessions |-> waiting[s].wait]

Promise == INSTANCE YieldPromise WITH
             current <- Current, saved <- Saved, used <- lastWait, Durable <- ~StoreMayFail

\* The registry keeps the promise of YieldPromise, crashes between a change in
\* memory and its write included: a wait that was resumed, abandoned, replaced or
\* cleared returns only through a restart that finds its record still there, and
\* then as a wait of its own session that can be claimed once more.
KeepsPromise == Promise!Spec

=============================================================================
