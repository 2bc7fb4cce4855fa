-------------------------- MODULE SettlementOutbox --------------------------
(***************************************************************************)
(* The settlement delivery ledger (chat/yield/SettlementOutbox.ts) and the *)
(* two kinds of process that drive it.                                     *)
(*                                                                         *)
(*   - A notifier is one run of AgentTool.notifyYieldSettlement: enqueue   *)
(*     the signal, claim the row, deliver, record the acknowledgement.     *)
(*   - A replayer is one run of replayPendingSettlements: list what is not *)
(*     settled, then claim, deliver and record row by row.                 *)
(*                                                                         *)
(* Every SQL statement is one action, because each is awaited and another  *)
(* client may run in between; only the three of prune() are taken as one,  *)
(* and so are the look-back of a refused claim() and the drop it may end   *)
(* in (attempts never decrease, so what it saw still holds).  Whether a    *)
(* delivery is acknowledged is left open here; YieldRecovery closes it     *)
(* with the real resumer.                                                  *)
(*                                                                         *)
(* A process that opens the table collapses the live rows of each key to   *)
(* the newest and makes the unique index anew; when the index cannot be    *)
(* made, it goes on without, and only the SELECT of enqueue() is left.     *)
(***************************************************************************)
EXTENDS Integers, FiniteSets

CONSTANTS
  Notifiers,             \* settlement notifications
  Replayers,             \* start-up replays
  Keys,                  \* the idempotency keys (session_id, ended_at)
  None,                  \* no key
  MaxRowId,              \* bound: rows ever inserted (AUTOINCREMENT ids)
  MAX_DELIVERY_ATTEMPTS, \* deliveries a row may be claimed for (8)
  OUTBOX_MAX_ROWS,       \* delivered rows kept (500)
  StorageMayFail,        \* may a statement of the ledger throw?
  IndexMayFail           \* may the unique index fail to be made?

ASSUME OutboxAssumption ==
  /\ MaxRowId \in Nat
  /\ MAX_DELIVERY_ATTEMPTS \in Nat \ {0}
  /\ OUTBOX_MAX_ROWS \in Nat \ {0}
  /\ StorageMayFail \in BOOLEAN /\ IndexMayFail \in BOOLEAN
  /\ Notifiers \cap Replayers = {}
  /\ None \notin Keys

VARIABLES
  outbox,  \* the table: row id -> row
  indexed, \* has this process the unique index idx_settlement_outbox_live?
  lastId,  \* highest id ever assigned
  client   \* control state of each notifier and replayer

outboxVars == <<outbox, indexed, lastId, client>>

Clients == Notifiers \cup Replayers
RowIds  == 1..MaxRowId

DeliveryState == {"pending", "attempting", "delivered", "failed", "dropped"}
Terminal      == {"delivered", "dropped"}

\* age: 0 within REPLAY_MAX_AGE (48h), 1 beyond it, 2 beyond OUTBOX_MAX_AGE (7d).
\* stale: updated_at is more than CLAIM_STALE_MS (60s) ago.
Row == [ key      : Keys,
         state    : DeliveryState,
         attempts : 0..MAX_DELIVERY_ATTEMPTS,
         age      : 0..2,
         stale    : BOOLEAN ]

Verdicts == {"ack", "nack", "abandon"}

Client == [ pc      : {"idle", "insert", "prune", "reread", "claim", "replay", "look",
                        "deliver", "mark"},
            key     : Keys \cup {None},
            id      : 0..MaxRowId,      \* 0: no row
            granted : BOOLEAN,          \* did the UPDATE of claim() take the row?
            verdict : Verdicts \cup {"none"},
            todo    : SUBSET RowIds ]   \* candidates a replay still has to visit

Idle == [ pc |-> "idle", key |-> None, id |-> 0, granted |-> FALSE,
          verdict |-> "none", todo |-> {} ]

-----------------------------------------------------------------------------
(* The rows.                                                               *)

Rows == DOMAIN outbox

Live(i) == i \in Rows /\ outbox[i].state \notin Terminal

LiveRowsOf(k) == {i \in Rows : Live(i) /\ outbox[i].key = k}

\* The row SELECT ... ORDER BY id DESC LIMIT 1 returns, 0 when there is none.
LatestLive(k) ==
  IF LiveRowsOf(k) = {} THEN 0
  ELSE CHOOSE i \in LiveRowsOf(k) : \A j \in LiveRowsOf(k) : j <= i

NewRow(k) == [ key |-> k, state |-> "pending", attempts |-> 0,
               age |-> 0, stale |-> FALSE ]

\* Faulty: claim() without the limit on the attempts.
ClaimableForEver(i) ==
  /\ i \in Rows
  /\ \/ outbox[i].state \in {"pending", "failed"}
     \/ outbox[i].state = "attempting" /\ outbox[i].stale

\* Faulty: claim() without the take-over of a stale claim.
ClaimableIfReleased(i) ==
  /\ i \in Rows
  /\ outbox[i].attempts < MAX_DELIVERY_ATTEMPTS
  /\ outbox[i].state \in {"pending", "failed"}

Claimable(i) ==
  /\ i \in Rows
  /\ outbox[i].attempts < MAX_DELIVERY_ATTEMPTS
  /\ \/ outbox[i].state \in {"pending", "failed"}
     \/ outbox[i].state = "attempting" /\ outbox[i].stale

Exhausted(i) == i \in Rows /\ outbox[i].attempts >= MAX_DELIVERY_ATTEMPTS

\* Faulty: a late mark*() rewrites a terminal row.
WriteAny(i, s) ==
  IF i \in Rows THEN [outbox EXCEPT ![i] = [@ EXCEPT !.state = s, !.stale = FALSE]]
                ELSE outbox

\* Every mark* goes through writeState: a terminal row is never rewritten.
WriteState(i, s) ==
  IF Live(i) THEN [outbox EXCEPT ![i] = [@ EXCEPT !.state = s, !.stale = FALSE]]
             ELSE outbox

\* claim(): the conditional UPDATE.
ClaimRow(i) ==
  IF Claimable(i)
  THEN [outbox EXCEPT ![i] = [outbox[i] EXCEPT !.state    = "attempting",
                                               !.attempts = @ + 1,
                                               !.stale    = FALSE]]
  ELSE outbox

\* Faulty: claim() drops every row it does not get, exhausted or not.
DropRefused(i, granted) == IF granted THEN outbox ELSE WriteState(i, "dropped")

\* claim(), after its UPDATE: a refused row is dropped if it may never be taken.
LookedBack(i, granted) ==
  IF ~granted /\ Exhausted(i) THEN WriteState(i, "dropped") ELSE outbox

Replayable == {i \in Rows : /\ Live(i)
                            /\ outbox[i].age = 0
                            /\ outbox[i].attempts < MAX_DELIVERY_ATTEMPTS}

\* Faulty: prune() applies the row limit to every row.
KeptOfAll(rows) ==
  LET newer(i) == {j \in DOMAIN rows : j > i}
  IN  {i \in DOMAIN rows : rows[i].age < 2 /\ Cardinality(newer(i)) < OUTBOX_MAX_ROWS}

\* prune(): delete what is older than 7 days and the delivered rows beyond the
\* newest OUTBOX_MAX_ROWS; turn failed rows that used up their attempts to dropped.
\* (created_at grows with the id.)
Kept(rows) ==
  LET delivered(i) == rows[i].state = "delivered" /\ rows[i].age < 2
      newer(i)     == {j \in DOMAIN rows : delivered(j) /\ j > i}
  IN  {i \in DOMAIN rows : /\ rows[i].age < 2
                           /\ delivered(i) => Cardinality(newer(i)) < OUTBOX_MAX_ROWS}

Pruned(rows) ==
  [i \in Kept(rows) |->
     IF rows[i].state = "failed" /\ rows[i].attempts >= MAX_DELIVERY_ATTEMPTS
     THEN [rows[i] EXCEPT !.state = "dropped", !.stale = FALSE]
     ELSE rows[i]]

-----------------------------------------------------------------------------
(* A notifier: enqueue, claim, deliver, mark.                              *)

\* Bound: an enqueue starts only while an id is left for its INSERT.
IdLeft == lastId + Cardinality({c \in Clients : client[c].pc = "insert"}) < MaxRowId

EnqueueCheck(c, k) ==
  /\ c \in Notifiers /\ client[c].pc = "idle"
  /\ IdLeft
  /\ client' = [client EXCEPT ![c] =
       [Idle EXCEPT !.pc  = IF LatestLive(k) = 0 THEN "insert" ELSE "claim",
                    !.key = k,
                    !.id  = LatestLive(k)]]
  /\ UNCHANGED <<outbox, indexed, lastId>>

\* Faulty: no unique index.
NeverRejects(k) == FALSE

\* The partial unique index, where there is one, rejects a second live row.
IndexRejects(k) == indexed /\ LiveRowsOf(k) # {}

\* INSERT ... RETURNING id.
EnqueueInsert(c) ==
  /\ client[c].pc = "insert"
  /\ ~IndexRejects(client[c].key)
  /\ lastId < MaxRowId
  /\ LET id == lastId + 1
     IN  /\ outbox' = [i \in Rows \cup {id} |->
                         IF i = id THEN NewRow(client[c].key) ELSE outbox[i]]
         /\ lastId' = id /\ UNCHANGED indexed
         /\ client' = [client EXCEPT ![c] = [@ EXCEPT !.pc = "prune", !.id = id]]

\* The prune() that follows an INSERT.
EnqueuePrune(c) ==
  /\ client[c].pc = "prune"
  /\ outbox' = Pruned(outbox)
  /\ client' = [client EXCEPT ![c] = [@ EXCEPT !.pc = "claim"]]
  /\ UNCHANGED <<indexed, lastId>>

EnqueueRejected(c) ==
  /\ client[c].pc = "insert"
  /\ IndexRejects(client[c].key)
  /\ client' = [client EXCEPT ![c] = [@ EXCEPT !.pc = "reread"]]
  /\ UNCHANGED <<outbox, indexed, lastId>>

EnqueueReread(c) ==
  /\ client[c].pc = "reread"
  /\ client' = [client EXCEPT ![c] = [@ EXCEPT !.pc = "claim",
                                               !.id = LatestLive(client[c].key)]]
  /\ UNCHANGED <<outbox, indexed, lastId>>

Claim(c) ==
  /\ client[c].pc = "claim"
  /\ outbox' = ClaimRow(client[c].id)
  /\ client' = [client EXCEPT ![c] = [@ EXCEPT !.pc      = "look",
                                               !.granted = Claimable(client[c].id)]]
  /\ UNCHANGED <<indexed, lastId>>

-----------------------------------------------------------------------------
(* A replayer: list, then claim, deliver and mark row by row.              *)

ReplayList(c) ==
  /\ c \in Replayers /\ client[c].pc = "idle"
  /\ Replayable # {}
  /\ client' = [client EXCEPT ![c] = [Idle EXCEPT !.pc = "replay", !.todo = Replayable]]
  /\ UNCHANGED <<outbox, indexed, lastId>>

\* claim() of the next candidate, in the order of the ids.
ReplayClaim(c) ==
  /\ client[c].pc = "replay"
  /\ \E i \in client[c].todo :
       /\ \A j \in client[c].todo : i <= j
       /\ outbox' = ClaimRow(i)
       /\ client' = [client EXCEPT ![c] =
            [Idle EXCEPT !.pc      = "look",
                         !.key     = IF Claimable(i) THEN outbox[i].key ELSE None,
                         !.id      = i,
                         !.granted = Claimable(i),
                         !.todo    = client[c].todo \ {i}]]
  /\ UNCHANGED <<indexed, lastId>>

ReplayEnd(c) ==
  /\ client[c].pc = "replay"
  /\ client[c].todo = {}
  /\ client' = [client EXCEPT ![c] = Idle]
  /\ UNCHANGED <<outbox, indexed, lastId>>

-----------------------------------------------------------------------------
(* The end of a claim, delivery and its outcome, common to both.           *)

\* The client is through with its row: a notifier ends, a replay visits its next.
RowDone(c) ==
  IF c \in Replayers
  THEN [Idle EXCEPT !.pc = "replay", !.todo = client[c].todo]
  ELSE Idle

\* claim() reads the row again and returns it, or null.  A replay skips the row when
\* it gets null; notifyYieldSettlement delivers whatever claim() returned.
LookBack(c) ==
  LET i == client[c].id  granted == client[c].granted IN
  /\ client[c].pc = "look"
  /\ outbox' = LookedBack(i, granted)
  /\ client' = [client EXCEPT ![c] =
       IF c \in Replayers /\ ~(granted /\ i \in Rows)
       THEN RowDone(c) ELSE [@ EXCEPT !.pc = "deliver"]]
  /\ UNCHANGED <<indexed, lastId>>

\* Only a replay abandons a row (no wait is registered for its session).
Deliver(c, v) ==
  /\ client[c].pc = "deliver"
  /\ v = "abandon" => c \in Replayers
  /\ client' = [client EXCEPT ![c] = [@ EXCEPT !.pc = "mark", !.verdict = v]]
  /\ UNCHANGED <<outbox, indexed, lastId>>

StateOf(v) == CASE v = "ack"     -> "delivered"
                [] v = "nack"    -> "failed"
                [] v = "abandon" -> "dropped"

Mark(c) ==
  /\ client[c].pc = "mark"
  /\ outbox' = WriteState(client[c].id, StateOf(client[c].verdict))
  /\ client' = [client EXCEPT ![c] = RowDone(c)]
  /\ UNCHANGED <<indexed, lastId>>

\* A statement throws.  A notifier delivers without a row when enqueue failed, with
\* the row when only claim failed, and ignores a failed state write; an error
\* ends a replay.
StorageFails(c) ==
  /\ StorageMayFail
  /\ client[c].pc \in {"insert", "prune", "reread", "claim", "replay", "look", "mark"}
  /\ client' = [client EXCEPT ![c] =
       IF c \in Notifiers /\ client[c].pc # "mark"
       THEN [@ EXCEPT !.pc = "deliver",
                      !.id = IF client[c].pc \in {"claim", "look"} THEN client[c].id ELSE 0]
       ELSE Idle]
  /\ UNCHANGED <<outbox, indexed, lastId>>

-----------------------------------------------------------------------------
(* The environment: time passes, the process dies.                         *)

ClaimGoesStale(i) ==
  /\ i \in Rows
  /\ outbox[i].state = "attempting" /\ ~outbox[i].stale
  /\ outbox' = [outbox EXCEPT ![i] = [@ EXCEPT !.stale = TRUE]]
  /\ UNCHANGED <<indexed, lastId, client>>

RowAges(i) ==
  /\ i \in Rows
  /\ outbox[i].age < 2
  /\ \A j \in Rows : j < i => outbox[j].age > outbox[i].age
  /\ outbox' = [outbox EXCEPT ![i].age = @ + 1]
  /\ UNCHANGED <<indexed, lastId, client>>

\* _collapseDuplicateLiveRows(): of the live rows of a key only the newest stays live.
Collapsed ==
  [i \in Rows |-> IF Live(i) /\ LatestLive(outbox[i].key) # i
                  THEN [outbox[i] EXCEPT !.state = "dropped", !.stale = FALSE]
                  ELSE outbox[i]]

\* doInit(): DROP INDEX and CREATE UNIQUE INDEX; a failure is logged and no more.
IndexMade == IF IndexMayFail THEN BOOLEAN ELSE {TRUE}

\* Every client lives in the process that dies; the next one opens the table.  When
\* a statement of doInit() throws, init() is not run again (the handle is open), and
\* the table stays as the last process left it.
Crash ==
  /\ client' = [c \in Clients |-> Idle]
  /\ \/ outbox' = Collapsed /\ indexed' \in IndexMade
     \/ StorageMayFail /\ UNCHANGED <<outbox, indexed>>
  /\ UNCHANGED lastId

-----------------------------------------------------------------------------
Init ==
  /\ outbox = [i \in {} |-> NewRow(None)]
  /\ indexed \in IndexMade
  /\ lastId = 0
  /\ client = [c \in Clients |-> Idle]

ClientStep(c) ==
  \/ EnqueueInsert(c)
  \/ EnqueuePrune(c)
  \/ EnqueueRejected(c)
  \/ EnqueueReread(c)
  \/ Claim(c)
  \/ ReplayClaim(c)
  \/ ReplayEnd(c)
  \/ LookBack(c)
  \/ \E v \in Verdicts : Deliver(c, v)
  \/ Mark(c)

Next ==
  \/ \E c \in Clients :
       \/ \E k \in Keys : EnqueueCheck(c, k)
       \/ ReplayList(c)
       \/ ClientStep(c)
       \/ StorageFails(c)
  \/ \E i \in RowIds : ClaimGoesStale(i) \/ RowAges(i)
  \/ Crash

Spec == Init /\ [][Next]_outboxVars

\* Clients run on the event loop and time passes, so each of their steps is
\* eventually taken; start-ups recur, so a replay is started again and again; and
\* neither crashes nor storage errors go on for ever (what looks like one and is an
\* ordinary step too, such as the end of a replay, may).
FairSpec ==
  /\ Spec
  /\ \A c \in Clients   : WF_outboxVars(ClientStep(c))
  /\ \A c \in Replayers : SF_outboxVars(ReplayList(c))
  /\ \A i \in RowIds    : WF_outboxVars(ClaimGoesStale(i))
  /\ <>[][Crash \/ (\E c \in Clients : StorageFails(c))
          => \E c \in Clients : ClientStep(c)]_outboxVars

-----------------------------------------------------------------------------
(* Properties.                                                             *)

TypeOK ==
  /\ DOMAIN outbox \subseteq RowIds
  /\ outbox \in [DOMAIN outbox -> Row]
  /\ indexed \in BOOLEAN
  /\ lastId \in 0..MaxRowId
  /\ client \in [Clients -> Client]

\* In a process that has the unique index at most one row of an idempotency key is
\* live, however the check, the insert and the reread of concurrent enqueue() calls
\* interleave with claims and marks, and whatever duplicates a process without the
\* index has left behind (doInit).  A process without it may make two.
LiveRowUnique ==
  indexed => \A i, j \in Rows : Live(i) /\ Live(j) /\ outbox[i].key = outbox[j].key => i = j

\* A delivered or dropped row keeps its state and its attempts until prune()
\* deletes it, whoever still holds its id: late acknowledgements, late failures
\* and claims by a second deliverer change nothing (the guard of writeState).
KeepsTerminal ==
  \A i \in Rows : ~Live(i) /\ i \in DOMAIN outbox' =>
    /\ outbox'[i].state = outbox[i].state
    /\ outbox'[i].attempts = outbox[i].attempts

TerminalIsFinal == [][KeepsTerminal]_outboxVars

\* An unsettled row is deleted only when it is 7 days old: prune()'s row limit
\* counts delivered rows alone, so a flood of settlements never pushes out one
\* that was not delivered yet.
KeepsUnsettled ==
  \A i \in Rows : Live(i) /\ outbox[i].age < 2 => i \in DOMAIN outbox'

UnsettledIsKept == [][KeepsUnsettled]_outboxVars

\* A settlement is given up only after MAX_DELIVERY_ATTEMPTS claims or by a replay
\* that found nobody waiting: neither claim() nor prune() drops a row that could
\* still be delivered, and a start drops only one that has a newer live row beside it.
DropsOnlyDue ==
  \A i \in Rows :
    /\ Live(i)
    /\ i \in DOMAIN outbox'
    /\ outbox'[i].state = "dropped"
    => \/ outbox[i].attempts = MAX_DELIVERY_ATTEMPTS
       \/ \E c \in Replayers : client[c].id = i /\ client[c].verdict = "abandon"
       \/ \E j \in Rows : j > i /\ Live(j) /\ outbox[j].key = outbox[i].key

GivesUpOnlyWhenDue == [][DropsOnlyDue]_outboxVars

\* No settlement is forgotten: a row young enough to replay does not stay
\* replayable for ever, whatever crashed between its claim and its mark.
NoForgottenSettlement ==
  \A i \in RowIds : (i \in Replayable) ~> (i \notin Replayable)

=============================================================================
