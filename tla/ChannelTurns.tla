----------------------------- MODULE ChannelTurns -----------------------------
(***************************************************************************)
(* The turns of channel messages on top of ExecutionManager: the router    *)
(* (arrival gate, admission, end of the stream, idle timer and grace), the *)
(* stream of a turn, and the guarded tool call it makes.                   *)
(*                                                                         *)
(* A turn is a message; turns are numbered in the order they arrive.  The  *)
(* router, the stream (an async generator) and a tool run concurrently: an *)
(* aborted stream no longer waits for its tool, and a router whose timer   *)
(* fired no longer waits for its stream.  The heartbeat of a stream (45 s) *)
(* keeps the idle timer (300 s) of the router from firing once the first   *)
(* chunk has come, so the timer only fires while the stream is set up.     *)
(* A stream that finds another one registered aborts it and waits up to    *)
(* 500 ms for it to go before it registers itself.                         *)
(*                                                                         *)
(* All channels of an owner share one current session with the owner's     *)
(* client (ChatManager keeps it by principal): the creation of a session   *)
(* and the client's switchSession() set it, a turn of a known session does *)
(* not.                                                                    *)
(***************************************************************************)
EXTENDS ExecutionManager

CONSTANTS
  NTurns,     \* turns are 1..NTurns; turn t makes at most the tool call t
  SessionOf,  \* turn -> its session
  MaxPolls    \* bound: attempts of a turn to get its session

Turns == 1..NTurns

ASSUME TurnsAssumption ==
  /\ NTurns \in Nat /\ MaxPolls \in Nat \ {0}
  /\ Calls = Turns
  /\ SessionOf \in [Turns -> Sessions]
  /\ MaxIds >= NTurns * MaxPolls

VARIABLES
  twoPhase,  \* the flag EXECUTION_TWO_PHASE_CANCEL
  turn,      \* turn -> where the router is with it
  lease,     \* turn -> the execution it was admitted with, or None
  gen,       \* turn -> its stream
  aborted,   \* turn -> was the stream's controller aborted?
  stream,    \* session -> the turn whose controller and executionId are registered, or None
  tool,      \* turn -> its tool call: where it is, the session and the execution it was given
  current,   \* the current session of the owner, or None
  known,     \* the sessions that exist
  polls,     \* counter of the bound
  left,      \* history: turns whose stream ended before their tool did
  overtaken  \* history: turns whose stream was registered over while it was at work

history  == <<left, overtaken>>
turnVars == <<twoPhase, turn, lease, gen, aborted, stream, tool, current, known, polls, history>>
vars     == <<managerVars, turnVars>>

NoTool == [at |-> "none", session |-> None, execution |-> None]

Started(t)  == turn[t] \in {"waiting", "consuming", "graceIdle", "graceAsked"}
Finished(t) == turn[t] \in {"over", "asked", "lost"}
Alive(t)    == gen[t] \in {"setup", "displacing", "opening", "running"}
AtWork(t)   == gen[t] \in {"opening", "running"}   \* it has registered itself
InPlace(t)  == twoPhase \/ t \notin overtaken
InTool(t)   == tool[t].at \in {"recording", "executing", "returned"}

-----------------------------------------------------------------------------
(* Admission.                                                               *)

\* waitForEarlierArrivals()
MyTurn(t) == \A u \in 1..(t - 1) : SessionOf[u] = SessionOf[t] => Finished(u)

Trying(t) == turn[t] \in {"new", "waiting"} /\ MyTurn(t) /\ polls[t] < MaxPolls

\* The turn gets its session: chatStream() is called.
Begin(t) ==
  /\ Trying(t)
  /\ Admit(SessionOf[t])
  /\ lease' = [lease EXCEPT ![t] = issued + 1]
  /\ turn' = [turn EXCEPT ![t] = "consuming"]
  /\ gen' = [gen EXCEPT ![t] = "setup"]
  /\ UNCHANGED <<twoPhase, aborted, stream, tool, current, known, polls, history>>

\* The session is taken: the turn sleeps, or is refused as SESSION_BUSY.
Busy(t) ==
  /\ Trying(t)
  /\ Refuse(SessionOf[t])
  /\ polls' = [polls EXCEPT ![t] = @ + 1]
  /\ \/ polls[t] + 1 < MaxPolls /\ turn' = [turn EXCEPT ![t] = "waiting"]
     \/ turn' = [turn EXCEPT ![t] = "over"]
  /\ UNCHANGED <<twoPhase, lease, gen, aborted, stream, tool, current, known, history>>

-----------------------------------------------------------------------------
(* The stream.                                                              *)

\* getOrLoadSession() of a session nobody knows creates it.
CreateSession(t) ==
  /\ gen[t] = "setup" /\ SessionOf[t] \notin known
  /\ known' = known \cup {SessionOf[t]}
  /\ current' = SessionOf[t]
  /\ UNCHANGED <<managerVars, twoPhase, turn, lease, gen, aborted, stream, tool, polls, history>>

\* The owner opens a session in the client.
SwitchSession(s) ==
  /\ phase = "up" /\ s \in known
  /\ current' = s
  /\ UNCHANGED <<managerVars, twoPhase, turn, lease, gen, aborted, stream, tool, known, polls, history>>

\* ChatStreamSetup.prepare(): where a stream is registered, it is aborted first.
Displace(t) ==
  LET s == SessionOf[t] IN
  /\ gen[t] = "setup" /\ s \in known
  /\ stream[s] # None
  /\ gen' = [gen EXCEPT ![t] = "displacing"]
  /\ aborted' = [aborted EXCEPT ![stream[s]] = TRUE]
  /\ UNCHANGED <<managerVars, twoPhase, turn, lease, stream, tool, current, known, polls, history>>

\* setAbortController() and setExecutionId(), over whatever is registered by now; the
\* wait for the aborted stream may be cut short (its entry is gone) or run out.
Register(t) ==
  LET s == SessionOf[t]  u == stream[s] IN
  /\ s \in known
  /\ gen[t] = "displacing" \/ (gen[t] = "setup" /\ u = None)
  /\ gen' = [gen EXCEPT ![t] = "opening"]
  /\ stream' = [stream EXCEPT ![s] = t]
  /\ overtaken' = IF u # None /\ AtWork(u) /\ ~aborted[u]
                  THEN overtaken \cup {u} ELSE overtaken
  /\ UNCHANGED <<managerVars, twoPhase, turn, lease, aborted, tool, current, known, polls, left>>

\* The first chunk.
OpenStream(t) ==
  /\ gen[t] = "opening"
  /\ gen' = [gen EXCEPT ![t] = "running"]
  /\ UNCHANGED <<managerVars, twoPhase, turn, lease, aborted, stream, tool, current, known, polls, history>>

\* prepare() throws, before or after the registration, which then stays.
SetupFails(t) ==
  /\ Alive(t) /\ gen[t] # "running"
  /\ gen' = [gen EXCEPT ![t] = "ended"]
  /\ UNCHANGED <<managerVars, twoPhase, turn, lease, aborted, stream, tool, current, known, polls, history>>

\* Faulty: the end of a stream clears the session whoever is registered there.
ClearedAnyway(t) == [stream EXCEPT ![SessionOf[t]] = None]

\* finalize() clears the registration if it is still this stream's.
Cleared(t) == [stream EXCEPT ![SessionOf[t]] = IF @ = t THEN None ELSE @]

\* Faulty: an aborted stream waits for its tool like any other.
EndStreamAfterTool(t) ==
  /\ gen[t] = "running" /\ ~InTool(t)
  /\ gen' = [gen EXCEPT ![t] = "ended"]
  /\ stream' = Cleared(t)
  /\ UNCHANGED <<managerVars, twoPhase, turn, lease, aborted, tool, current, known, polls, history>>

\* The stream ends; an aborted one leaves its tool behind, and may skip finalize().
EndStream(t) ==
  /\ gen[t] = "running"
  /\ InTool(t) => aborted[t]
  /\ gen' = [gen EXCEPT ![t] = "ended"]
  /\ \/ stream' = Cleared(t)
     \/ aborted[t] /\ stream' = stream
  /\ left' = IF InTool(t) THEN left \cup {t} ELSE left
  /\ UNCHANGED <<managerVars, twoPhase, turn, lease, aborted, tool, current, known, polls, overtaken>>

\* abortSessionStream(): the watchdog of a stalled stream, or the user.
AbortStream(s) ==
  /\ stream[s] # None
  /\ AtWork(stream[s]) /\ ~aborted[stream[s]]
  /\ aborted' = [aborted EXCEPT ![stream[s]] = TRUE]
  /\ UNCHANGED <<managerVars, twoPhase, turn, lease, gen, stream, tool, current, known, polls, history>>

-----------------------------------------------------------------------------
(* The tool call of a turn: executeToolWithGuards().                        *)

\* The execution is that of the current session; without one nothing is recorded.
CallTool(t) ==
  LET u == IF current = None THEN None ELSE stream[current] IN
  /\ gen[t] = "running" /\ ~aborted[t] /\ tool[t] = NoTool
  /\ tool' = [tool EXCEPT ![t] =
       IF u = None THEN [at |-> "executing", session |-> current, execution |-> None]
                   ELSE [at |-> "recording", session |-> current, execution |-> lease[u]]]
  /\ UNCHANGED <<managerVars, twoPhase, turn, lease, gen, aborted, stream, current, known, polls, history>>

\* The row is written, or the tool is refused.
RecordTool(t) ==
  /\ tool[t].at = "recording"
  /\ \/ /\ BeginToolCall(t, tool[t].execution)
        /\ tool' = [tool EXCEPT ![t].at = "executing"]
     \/ /\ BeginRefused
        /\ tool' = [tool EXCEPT ![t].at = "refused"]
  /\ UNCHANGED <<twoPhase, turn, lease, gen, aborted, stream, current, known, polls, history>>

\* The side effect happens.
ExecuteTool(t) ==
  /\ tool[t].at = "executing"
  /\ tool' = [tool EXCEPT ![t].at = "returned"]
  /\ UNCHANGED <<managerVars, twoPhase, turn, lease, gen, aborted, stream, current, known, polls, history>>

\* Settled as completed or failed, whether or not anybody waits for it.
SettleTool(t) ==
  /\ tool[t].at = "returned"
  /\ IF tool[t].execution = None
     THEN UNCHANGED managerVars
     ELSE \E status \in {"completed", "failed"} : EndToolCall(t, tool[t].execution, status)
  /\ tool' = [tool EXCEPT ![t].at = "done"]
  /\ UNCHANGED <<twoPhase, turn, lease, gen, aborted, stream, current, known, polls, history>>

-----------------------------------------------------------------------------
(* The router.                                                              *)

\* Faulty: the execution is finished with the last chunk, not with the stream.
FinishTurnEarly(t) ==
  /\ turn[t] = "consuming" /\ gen[t] \in {"running", "ended"}
  /\ \E to \in {"COMPLETED", "FAILED"} : Finish(lease[t], to)
  /\ turn' = [turn EXCEPT ![t] = "over"]
  /\ UNCHANGED <<twoPhase, lease, gen, aborted, stream, tool, current, known, polls, history>>

\* The stream is at its end: finishExecution(), with or without success.
FinishTurn(t) ==
  /\ turn[t] = "consuming" /\ gen[t] = "ended"
  /\ \E to \in {"COMPLETED", "FAILED"} : Finish(lease[t], to)
  /\ turn' = [turn EXCEPT ![t] = "over"]
  /\ UNCHANGED <<twoPhase, lease, gen, aborted, stream, tool, current, known, polls, history>>

Cancel(t, why) ==
  /\ turn[t] = "consuming"
  /\ RequestCancel(lease[t])
  /\ aborted' = [aborted EXCEPT ![t] = TRUE]
  /\ turn' = [turn EXCEPT ![t] = why]
  /\ UNCHANGED <<twoPhase, lease, gen, stream, tool, current, known, polls, history>>

\* No chunk for STREAM_IDLE_TIMEOUT_MS.
IdleTimeout(t) == Alive(t) /\ gen[t] # "running" /\ Cancel(t, "graceIdle")

\* A question comes, and the channel cannot answer: asked between two tools.
AskedInVain(t) == gen[t] = "running" /\ ~InTool(t) /\ Cancel(t, "graceAsked")

\* Faulty: an unconfirmed cancellation gives the session back as well.
GraceGivesBack(t) ==
  /\ turn[t] \in {"graceIdle", "graceAsked"}
  /\ Finish(lease[t], "FAILED")
  /\ turn' = [turn EXCEPT ![t] = "over"]
  /\ UNCHANGED <<twoPhase, lease, gen, aborted, stream, tool, current, known, polls, history>>

\* The grace period is over, or the stream has ended within it.  (CANCEL_GRACE_MS is ten
\* times the wait for an aborted stream, so that wait is over too.)
GraceOver(t) ==
  /\ turn[t] \in {"graceIdle", "graceAsked"}
  /\ gen[t] # "displacing"
  /\ IF twoPhase /\ turn[t] = "graceIdle"
     THEN IF gen[t] = "ended" THEN ConfirmCancel(lease[t]) ELSE UNCHANGED managerVars
     ELSE Finish(lease[t], "FAILED")
  /\ turn' = [turn EXCEPT ![t] = IF @ = "graceAsked" THEN "asked" ELSE "over"]
  /\ UNCHANGED <<twoPhase, lease, gen, aborted, stream, tool, current, known, polls, history>>

-----------------------------------------------------------------------------
\* Everything that only lived in memory is gone.
ProcessCrash ==
  /\ Crash
  /\ turn' = [t \in Turns |-> IF Started(t) THEN "lost" ELSE turn[t]]
  /\ gen' = [t \in Turns |-> IF Alive(t) THEN "ended" ELSE gen[t]]
  /\ tool' = [t \in Turns |-> IF InTool(t) THEN [tool[t] EXCEPT !.at = "gone"] ELSE tool[t]]
  /\ stream' = [s \in Sessions |-> None]
  /\ current' = None
  /\ UNCHANGED <<twoPhase, lease, aborted, known, polls, history>>

Boot == Recovery /\ UNCHANGED turnVars

-----------------------------------------------------------------------------
Init ==
  /\ ManagerInit
  /\ twoPhase \in BOOLEAN
  /\ turn = [t \in Turns |-> "new"]
  /\ lease = [t \in Turns |-> None]
  /\ gen = [t \in Turns |-> "none"]
  /\ aborted = [t \in Turns |-> FALSE]
  /\ stream = [s \in Sessions |-> None]
  /\ tool = [t \in Turns |-> NoTool]
  /\ current = None /\ known = {}
  /\ polls = [t \in Turns |-> 0]
  /\ left = {} /\ overtaken = {}

\* What the timers, the end of a stream and an abort bring about by themselves.
Driven(t) ==
  \/ turn[t] = "waiting" /\ (Begin(t) \/ Busy(t))
  \/ gen[t] = "displacing" /\ Register(t)
  \/ aborted[t] /\ EndStream(t)
  \/ AbortStream(SessionOf[t])
  \/ FinishTurn(t) \/ IdleTimeout(t) \/ GraceOver(t)

Turn(t) ==
  \/ Begin(t) \/ Busy(t)
  \/ CreateSession(t) \/ Displace(t) \/ Register(t) \/ OpenStream(t) \/ SetupFails(t) \/ EndStream(t)
  \/ CallTool(t) \/ RecordTool(t) \/ ExecuteTool(t) \/ SettleTool(t)
  \/ FinishTurn(t) \/ IdleTimeout(t) \/ AskedInVain(t) \/ GraceOver(t)

Next ==
  \/ \E t \in Turns : Turn(t)
  \/ \E s \in Sessions : AbortStream(s) \/ SwitchSession(s)
  \/ ProcessCrash
  \/ Boot

Spec     == Init /\ [][Next]_vars
FairSpec == Spec /\ WF_vars(\E t \in Turns : Driven(t))

-----------------------------------------------------------------------------
TypeOK ==
  /\ ManagerTypeOK
  /\ twoPhase \in BOOLEAN
  /\ turn \in [Turns -> {"new", "waiting", "consuming", "graceIdle", "graceAsked",
                         "over", "asked", "lost"}]
  /\ lease \in [Turns -> Ids \cup {None}]
  /\ gen \in [Turns -> {"none", "setup", "displacing", "opening", "running", "ended"}]
  /\ aborted \in [Turns -> BOOLEAN]
  /\ stream \in [Sessions -> Turns \cup {None}]
  /\ tool \in [Turns -> [at : {"none", "recording", "executing", "returned", "done",
                               "refused", "gone"},
                         session : Sessions \cup {None}, execution : Ids \cup {None}]]
  /\ current \in known \cup {None} /\ known \subseteq Sessions
  /\ polls \in [Turns -> 0..MaxPolls]
  /\ left \subseteq Turns /\ overtaken \subseteq Turns

(* With two-phase cancellation no stream runs beside another of its        *)
(* session: the session of a stream that timed out is not given away       *)
(* before the stream is known to have ended.  Only a turn that was asked   *)
(* in vain gives it back at once (messageRouter.ts, the grace window).     *)
OneStreamAtATime ==
  twoPhase =>
    \A t, u \in Turns :
      t # u /\ SessionOf[t] = SessionOf[u] /\ Alive(t) /\ Alive(u)
        => turn[t] = "asked" \/ turn[u] = "asked"

(* A tool that is called while its session is the current one runs only    *)
(* after its row was written, under the execution of its own turn,         *)
(* although every stream of the session writes and clears the map in which *)
(* the execution is looked up.  Without two-phase cancellation a stream    *)
(* can lose its place in the map: of two that wait for an older one to go, *)
(* the one whose turn was given up may register over the other.            *)
EffectIsRecorded ==
  \A t \in Turns :
    /\ tool[t].at \in {"executing", "returned"} /\ attached
    /\ tool[t].session = SessionOf[t] /\ InPlace(t)
    => toolCalls[t].execution = lease[t]

(* A tool call whose process is gone and whose row says running is found   *)
(* by the next recovery, for its execution is still active on disk, unless *)
(* its stream was aborted and did not wait for it or was registered over,  *)
(* another session was current, or a write failed.                         *)
LostOnlyIfLeftBehind ==
  faults = 0 =>
    \A t \in Turns :
      /\ toolCalls[t].status = "running" /\ tool[t].at = "gone"
      /\ tool[t].session = SessionOf[t] /\ t \notin left /\ InPlace(t)
      => IsActive(executions[toolCalls[t].execution])

(* The tool calls of concurrent sessions do not mix                        *)
(* (specialCResilience.test.ts): a row names the execution of its turn.    *)
ToolCallsStayApart ==
  \A t \in Turns :
    toolCalls[t].execution # None => toolCalls[t].execution = lease[t]

(* Every turn that was begun comes to an end, whatever its stream, its     *)
(* model or its tool do: a setup that hangs runs into the idle timer, a    *)
(* stream that hangs into the watchdog, and nothing waits for a tool that  *)
(* was aborted.  So no message waits for ever behind an earlier one.       *)
EveryTurnEnds == <>[](\A t \in Turns : ~Started(t))
=============================================================================
