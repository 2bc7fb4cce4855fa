--------------------------- MODULE AgentRunLedger ---------------------------
(***************************************************************************)
(* The run ledger of sub-agents (tools/AgentTool/AgentRunLedger.ts).       *)
(*                                                                         *)
(* A run is in `active` until it settles, then in `recent`, a table of     *)
(* bounded size that forgets its oldest entry.  Whoever settles a run, the *)
(* engine or the tool, its terminal side effects (the row on disk and the  *)
(* notification of the session) are owed until somebody claims them.       *)
(* Every method is one synchronous block, hence one step.                  *)
(***************************************************************************)
EXTENDS Integers, Sequences, FiniteSets

CONSTANTS
  Ids,          \* agent ids
  Sessions,
  None,         \* no session, no claim
  MaxWeight,    \* bound: the largest reservation
  Limit,        \* maxConcurrentAgents of the tool
  RECENT_CAP    \* size of the table of settled runs

Terminal == {"completed", "failed"}

\* What a system that has a ledger must provide.
Parameters ==
  /\ None \notin Sessions \cup [status : Terminal, session : Sessions \cup {None}]
  /\ Limit \in Nat /\ MaxWeight \in Nat
  /\ RECENT_CAP \in Nat \ {0}

VARIABLES
  active,      \* id -> its run that has not ended, or NoRun
  recent,      \* the latest settled runs, oldest first
  owed,        \* id -> the settlement nobody has claimed, or None
  settlement   \* history: id -> how its latest registration was settled, and whether claimed

ledgerVars == <<active, recent, owed, settlement>>

NoRun == [status |-> "none", session |-> None, weight |-> 0]

Run(session, weight) == [status |-> "running", session |-> session, weight |-> weight]

Facts   == [status : Terminal, session : Sessions \cup {None}]
Settled == [id : Ids, status : Terminal, session : Sessions \cup {None}, done : BOOLEAN]

FactsOf(e) == [status |-> e.status, session |-> e.session]

Open == [status |-> "open", claimed |-> FALSE]

-----------------------------------------------------------------------------
Live(id) == active[id].status # "none"

HasLiveRuns(session) == \E id \in Ids : Live(id) /\ active[id].session = session

\* The slots in use: a live run holds as many as it weighs, a covered one none.
Slots == {s \in Ids \X (1..MaxWeight) : Live(s[1]) /\ s[2] <= active[s[1]].weight}

\* Faulty: an accepted cancellation frees its slots at once.
CountRunning == Cardinality({s \in Slots : active[s[1]].status = "running"})

LiveCount == Cardinality(Slots)

IndexOf(id) == {i \in DOMAIN recent : recent[i].id = id}

\* Faulty: the table of settled runs grows without an end.
RememberAll(e) == Append(SelectSeq(recent, LAMBDA x : x.id # e.id), e)

\* Map.set keeps the place of an id the map has already; the oldest is evicted.
Remember(e) ==
  IF IndexOf(e.id) # {}
  THEN [i \in DOMAIN recent |-> IF recent[i].id = e.id THEN e ELSE recent[i]]
  ELSE IF Len(recent) < RECENT_CAP THEN Append(recent, e) ELSE Append(Tail(recent), e)

\* Faulty: claims are answered from the table of recent runs only.
ClaimFromTables(id) ==
  IF \E i \in IndexOf(id) : ~recent[i].done
  THEN FactsOf(recent[CHOOSE i \in IndexOf(id) : TRUE])
  ELSE None

\* What claimTerminalSideEffects(id) answers for a run that is not active.
Claimable(id) ==
  IF IndexOf(id) = {}
  THEN owed[id]
  ELSE LET e == recent[CHOOSE i \in IndexOf(id) : TRUE]
       IN  IF e.done THEN None ELSE FactsOf(e)

-----------------------------------------------------------------------------
Register(id, session, weight) ==
  /\ active' = [active EXCEPT ![id] = Run(session, weight)]
  /\ settlement' = [settlement EXCEPT ![id] = Open]
  /\ UNCHANGED <<recent, owed>>

\* The verdict and the registration are one step: a reservation.
TryReserve(id, session, weight) ==
  /\ LiveCount + weight <= Limit
  /\ Register(id, session, weight)

\* A run covered by somebody's reservation, or already registered.
EnsureCovered(id, session) ==
  \/ /\ ~Live(id)
     /\ Register(id, session, 0)
  \/ /\ Live(id)
     /\ active' = [active EXCEPT ![id].session = IF @ = None THEN session ELSE @]
     /\ UNCHANGED <<recent, owed, settlement>>

\* The cancellations one stop accepts: still live, until their owner settles them.
RequestCancel(ids) ==
  /\ active' = [id \in Ids |->
       IF id \in ids /\ Live(id) THEN [active[id] EXCEPT !.status = "cancel_requested"]
                                ELSE active[id]]
  /\ UNCHANGED <<recent, owed, settlement>>

\* settle(): the first report wins, a later one changes nothing.
Settle(id, status) ==
  \/ /\ Live(id)
     /\ LET facts == [status |-> status, session |-> active[id].session] IN
          /\ active' = [active EXCEPT ![id] = NoRun]
          /\ recent' = Remember([id |-> id, status |-> status,
                                 session |-> facts.session, done |-> FALSE])
          /\ owed' = [owed EXCEPT ![id] = facts]
          /\ settlement' = [settlement EXCEPT ![id] = [status |-> status, claimed |-> FALSE]]
  \/ /\ ~Live(id)
     /\ UNCHANGED ledgerVars

\* settle() and claimTerminalSideEffects(), as settleRun() calls them in one
\* synchronous block: what the claim answers ...
ClaimAnswer(id, status) ==
  IF Live(id) THEN [status |-> status, session |-> active[id].session] ELSE Claimable(id)

\* ... and what the two leave behind.
SettleAndClaim(id, status) ==
  /\ active' = [active EXCEPT ![id] = NoRun]
  /\ recent' =
       IF Live(id)
       THEN Remember([id |-> id, status |-> status,
                      session |-> active[id].session, done |-> TRUE])
       ELSE [i \in DOMAIN recent |->
               IF recent[i].id = id THEN [recent[i] EXCEPT !.done = TRUE] ELSE recent[i]]
  /\ owed' = IF ClaimAnswer(id, status) = None THEN owed ELSE [owed EXCEPT ![id] = None]
  /\ settlement' =
       IF Live(id)
       THEN [settlement EXCEPT ![id] = [status |-> status, claimed |-> TRUE]]
       ELSE IF Claimable(id) # None
            THEN [settlement EXCEPT ![id].claimed = TRUE] ELSE settlement

-----------------------------------------------------------------------------
Init ==
  /\ active = [id \in Ids |-> NoRun]
  /\ recent = <<>>
  /\ owed = [id \in Ids |-> None]
  /\ settlement = [id \in Ids |-> Open]

Next ==
  \/ \E id \in Ids, session \in Sessions \cup {None} :
       \/ \E weight \in 1..MaxWeight : TryReserve(id, session, weight)
       \/ EnsureCovered(id, session)
  \/ \E ids \in SUBSET Ids : RequestCancel(ids)
  \/ \E id \in Ids, status \in Terminal : Settle(id, status) \/ SettleAndClaim(id, status)

Spec == Init /\ [][Next]_ledgerVars

-----------------------------------------------------------------------------
(* Properties.                                                             *)

TypeOK ==
  /\ active \in [Ids -> [status : {"none", "running", "cancel_requested"},
                         session : Sessions \cup {None}, weight : 0..MaxWeight]]
  /\ recent \in Seq(Settled)
  /\ Len(recent) <= RECENT_CAP
  /\ owed \in [Ids -> Facts \cup {None}]
  /\ settlement \in [Ids -> [status : Terminal \cup {"open"}, claimed : BOOLEAN]]

Due(id) == settlement[id].status \in Terminal /\ ~settlement[id].claimed

\* The side effects of a settled run are there for the one who asks first, with the
\* status that was settled, however many runs have settled since and pushed its
\* entry out of the table; nobody gets them a second time.
AnswersOncePerSettlement ==
  \A id \in Ids : ~Live(id) =>
    IF Due(id)
    THEN /\ Claimable(id) # None
         /\ Claimable(id).status = settlement[id].status
    ELSE Claimable(id) = None

\* What the first report said of a run is never rewritten: an engine that completed a
\* run is not contradicted by the tool that stumbles over its result, and a settled
\* run does not come back but by a new registration of its id.
FirstReportStands ==
  [][\A id \in Ids :
       settlement[id].status \in Terminal =>
         \/ settlement'[id].status = settlement[id].status /\ (Live(id)' => Live(id))
         \/ settlement'[id] = Open /\ active'[id].status = "running"]_ledgerVars

=============================================================================
