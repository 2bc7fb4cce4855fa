----------------------------- MODULE EffectQueue -----------------------------
(***************************************************************************)
(* The unified effects queue (tasks/effects/EffectQueue.ts) and the        *)
(* dispatcher of its reply effects (tasks/effects/replyEffectRuntime.ts).  *)
(*                                                                         *)
(* Every process that opens the database runs one dispatcher, one tick at  *)
(* a time.  Statements of one process are serialised; those of two         *)
(* processes are not, and claimOne() and settle() are a SELECT followed by *)
(* a conditional UPDATE, so each of the two is an action.                  *)
(***************************************************************************)
EXTENDS Integers

CONSTANTS
  Keys,           \* (kind, key) of the queue
  Dispatchers,    \* processes with a dispatcher
  Outcomes,       \* what a consumer may answer: done, failed, later
  None,           \* no key
  MaxGeneration,  \* bound: enqueues per key
  MaxAttempts     \* EFFECT_KIND_MAX_ATTEMPTS, or EFFECT_FAILURES_BEFORE_ERROR

ASSUME EffectAssumption ==
  /\ MaxGeneration \in Nat \ {0}
  /\ MaxAttempts \in Nat \ {0}
  /\ Outcomes \subseteq {"done", "failed", "later"}
  /\ None \notin Keys

VARIABLES
  queue,   \* the table: key -> row
  tick,    \* control state of each dispatcher
  sent,    \* history: key -> generations whose delivery succeeded
  failed   \* history: key -> generation -> failed deliveries, capped

effectVars == <<queue, tick, sent, failed>>

Generations == 1..MaxGeneration
EffectStatus == {"pending", "attempting", "settled", "failed"}

\* due: due_at has come.  stale: claimed_at is EFFECT_CLAIM_STALE_MS ago.  The
\* column restored, which no consumer reads, is left out.
Row == [ gen      : Generations,
         status   : EffectStatus,
         attempts : 0..MaxAttempts,
         due      : BOOLEAN,
         stale    : BOOLEAN ]

NoRow == [ gen |-> 0, status |-> "none", attempts |-> 0, due |-> FALSE, stale |-> FALSE ]

\* What a SELECT leaves in the hands of a claim or a settlement.
Seen   == [ gen : Generations, status : EffectStatus, attempts : 0..MaxAttempts ]
NoSeen == [ gen |-> 0, status |-> "none", attempts |-> 0 ]

SeenOf(row) == [ gen |-> row.gen, status |-> row.status, attempts |-> row.attempts ]

\* A tick works with the time it began at: what became due or stale since then
\* (late) may be due or stale now and not yet at that time.
Tick == [ pc      : {"idle", "next", "take", "relay", "check", "settle"},
          todo    : SUBSET Keys,
          late    : SUBSET Keys,
          key     : Keys \cup {None},
          seen    : Seen \cup {NoSeen},
          outcome : Outcomes \cup {"none"} ]

IdleTick == [ pc |-> "idle", todo |-> {}, late |-> {}, key |-> None,
              seen |-> NoSeen, outcome |-> "none" ]

-----------------------------------------------------------------------------
(* Rows.                                                                   *)

Due(row)   == row.status = "pending" /\ row.due

\* Faulty: a claim is never taken over.
NeverStale(row) == FALSE

Stale(row) == row.status = "attempting" /\ row.stale

\* Faulty: the generation is left out of the WHERE clause.
SameStatus(k, seen, status) == queue[k].status = status

\* The WHERE clause of every UPDATE: still this generation, still this status.
Unchanged(k, seen, status) == queue[k].gen = seen.gen /\ queue[k].status = status

\* Faulty: the failures of the old payload are kept.
EnqueuedOver(row, due) ==
  [ gen |-> row.gen + 1, status |-> "pending", attempts |-> row.attempts,
    due |-> row.due \/ due, stale |-> FALSE ]

Enqueued(row, due) ==
  [ gen |-> row.gen + 1, status |-> "pending", attempts |-> 0, due |-> row.due \/ due,
    stale |-> FALSE ]

Taken(row) == [row EXCEPT !.status = "attempting", !.stale = FALSE]

\* Faulty: one failure too many.
GivesUpLate(n) == n > MaxAttempts

GivesUp(n) == n >= MaxAttempts

\* settle(): seen is the row read before the UPDATE, which supplies the attempts.
Settled(row, seen, outcome) ==
  LET n == seen.attempts + 1
      ended(status) == [row EXCEPT !.status = status, !.stale = FALSE]
  IN  CASE outcome = "done"   -> ended("settled")
        [] outcome = "later"  -> [ended("pending") EXCEPT !.due = FALSE]
        [] outcome = "failed" ->
             IF GivesUp(n) THEN [ended("failed") EXCEPT !.attempts = n]
             ELSE [ended("pending") EXCEPT !.attempts = n, !.due = FALSE]

-----------------------------------------------------------------------------
(* The producer.                                                           *)

\* k changes after the running ticks began: none is sure to see that.
LateFor(k) ==
  [d \in Dispatchers |-> IF k \in tick[d].todo
                         THEN [tick[d] EXCEPT !.late = @ \cup {k}] ELSE tick[d]]

Enqueue(k, due) ==
  /\ queue[k].gen < MaxGeneration
  /\ queue' = [queue EXCEPT ![k] = Enqueued(@, due)]
  /\ tick' = IF due /\ ~queue[k].due THEN LateFor(k) ELSE tick
  /\ UNCHANGED <<sent, failed>>

-----------------------------------------------------------------------------
(* A tick: list the candidates, then claim, deliver and settle one by one. *)

Candidates == {k \in Keys : Due(queue[k]) \/ Stale(queue[k])}

ListDue(d) ==
  /\ tick[d].pc = "idle"
  /\ Candidates # {}
  /\ tick' = [tick EXCEPT ![d] = [IdleTick EXCEPT !.pc = "next", !.todo = Candidates]]
  /\ UNCHANGED <<queue, sent, failed>>

EndTick(d) ==
  /\ tick[d].pc = "next" /\ tick[d].todo = {}
  /\ tick' = [tick EXCEPT ![d] = IdleTick]
  /\ UNCHANGED <<queue, sent, failed>>

\* The candidate k is done with, whatever became of it.
Visited(d, k) ==
  [IdleTick EXCEPT !.pc = "next", !.todo = tick[d].todo \ {k}, !.late = tick[d].late \ {k}]

\* claimOne(): the SELECT finds the row free ...
ClaimRead(d, k) ==
  /\ tick[d].pc = "next" /\ k \in tick[d].todo
  /\ Due(queue[k]) \/ Stale(queue[k])
  /\ tick' = [tick EXCEPT ![d] =
       [Visited(d, k) EXCEPT !.pc = "take", !.key = k, !.seen = SeenOf(queue[k])]]
  /\ UNCHANGED <<queue, sent, failed>>

\* ... or not free any more, and the candidate is skipped.
ClaimRefused(d, k) ==
  /\ tick[d].pc = "next" /\ k \in tick[d].todo
  /\ Due(queue[k]) \/ Stale(queue[k]) => k \in tick[d].late
  /\ tick' = [tick EXCEPT ![d] = Visited(d, k)]
  /\ UNCHANGED <<queue, sent, failed>>

\* claimOne(): the conditional UPDATE.
Wins(d) == Unchanged(tick[d].key, tick[d].seen, tick[d].seen.status)

Take(d) ==
  LET k == tick[d].key IN
  /\ tick[d].pc = "take"
  /\ queue' = IF Wins(d) THEN [queue EXCEPT ![k] = Taken(@)] ELSE queue
  /\ tick' = [tick EXCEPT ![d] = IF Wins(d) THEN [tick[d] EXCEPT !.pc = "relay"]
                                            ELSE Visited(d, k)]
  /\ UNCHANGED <<sent, failed>>

\* deliverOne() up to its outcome; a bad payload and a missing item are failures.
Relay(d, outcome) ==
  LET k == tick[d].key  g == tick[d].seen.gen IN
  /\ tick[d].pc = "relay"
  /\ tick' = [tick EXCEPT ![d] = [tick[d] EXCEPT !.pc = "check", !.outcome = outcome]]
  /\ sent' = IF outcome = "done" THEN [sent EXCEPT ![k] = @ \cup {g}] ELSE sent
  /\ failed' = IF outcome = "failed" /\ failed[k][g] < MaxAttempts
               THEN [failed EXCEPT ![k][g] = @ + 1] ELSE failed
  /\ UNCHANGED queue

\* settle(): the SELECT; another generation, or a row nobody attempts, is left alone.
Applies(d) == Unchanged(tick[d].key, tick[d].seen, "attempting")

SettleRead(d) ==
  LET k == tick[d].key IN
  /\ tick[d].pc = "check"
  /\ tick' = [tick EXCEPT ![d] =
       IF Applies(d) THEN [tick[d] EXCEPT !.pc = "settle", !.seen = SeenOf(queue[k])]
                     ELSE Visited(d, k)]
  /\ UNCHANGED <<queue, sent, failed>>

\* settle(): the conditional UPDATE.
Settle(d) ==
  LET t == tick[d] IN
  /\ t.pc = "settle"
  /\ queue' = IF Applies(d)
              THEN [queue EXCEPT ![t.key] = Settled(@, t.seen, t.outcome)] ELSE queue
  /\ tick' = [tick EXCEPT ![d] = Visited(d, t.key)]
  /\ UNCHANGED <<sent, failed>>

-----------------------------------------------------------------------------
(* A statement throws, which ends the tick, or the process dies; the row   *)
(* keeps what was written.  Time passes.                                   *)

Abort(d) ==
  /\ tick[d].pc # "idle"
  /\ tick' = [tick EXCEPT ![d] = IdleTick]
  /\ UNCHANGED <<queue, sent, failed>>

BecomesDue(k) ==
  /\ queue[k].status = "pending" /\ ~queue[k].due
  /\ queue' = [queue EXCEPT ![k].due = TRUE]
  /\ tick' = LateFor(k)
  /\ UNCHANGED <<sent, failed>>

ClaimGoesStale(k) ==
  /\ queue[k].status = "attempting" /\ ~queue[k].stale
  /\ queue' = [queue EXCEPT ![k].stale = TRUE]
  /\ tick' = LateFor(k)
  /\ UNCHANGED <<sent, failed>>

-----------------------------------------------------------------------------
Init ==
  /\ queue = [k \in Keys |-> NoRow]
  /\ tick = [d \in Dispatchers |-> IdleTick]
  /\ sent = [k \in Keys |-> {}]
  /\ failed = [k \in Keys |-> [g \in Generations |-> 0]]

Step(d) ==
  \/ EndTick(d)
  \/ \E k \in Keys : ClaimRead(d, k) \/ ClaimRefused(d, k)
  \/ Take(d)
  \/ \E outcome \in Outcomes : Relay(d, outcome)
  \/ SettleRead(d)
  \/ Settle(d)

Next ==
  \/ \E k \in Keys, due \in BOOLEAN : Enqueue(k, due)
  \/ \E d \in Dispatchers : ListDue(d) \/ Step(d) \/ Abort(d)
  \/ \E k \in Keys : BecomesDue(k) \/ ClaimGoesStale(k)

Spec == Init /\ [][Next]_effectVars

\* The dispatcher polls for ever, what it began is executed, and time passes; errors
\* and crashes end (a step that is also an ordinary one does not count), and so do
\* postponements (the reply runtime never postpones).
FairSpec ==
  /\ Spec
  /\ \A d \in Dispatchers : WF_effectVars(Step(d)) /\ SF_effectVars(ListDue(d))
  /\ \A k \in Keys : WF_effectVars(BecomesDue(k)) /\ WF_effectVars(ClaimGoesStale(k))
  /\ <>[][\A d \in Dispatchers :
            /\ Abort(d) => Step(d)
            /\ ~Relay(d, "later")]_effectVars

-----------------------------------------------------------------------------
(* Properties.                                                             *)

TypeOK ==
  /\ queue \in [Keys -> Row \cup {NoRow}]
  /\ tick \in [Dispatchers -> Tick]
  /\ sent \in [Keys -> SUBSET Generations]
  /\ failed \in [Keys -> [Generations -> 0..MaxAttempts]]

\* An effect is settled only when the payload it holds now was delivered: an attempt
\* with an older payload that ends after a new enqueue() never closes the new work,
\* whichever processes claimed, took over or settled in between.
SettledWasSent ==
  \A k \in Keys : queue[k].status = "settled" => queue[k].gen \in sent[k]

\* An effect is given up only after MaxAttempts failed deliveries of its present
\* payload: postponements, take-overs and failures of an older payload do not count.
GivesUpOnlyAfterFailures ==
  \A k \in Keys : queue[k].status = "failed" => failed[k][queue[k].gen] >= MaxAttempts

\* An effect that is queued is settled or given up at last, whatever tick died between
\* its claim and its settlement (the take-over of stale claims).
EventuallySettled ==
  \A k \in Keys :
    (queue[k].status \in {"pending", "attempting"}) ~> (queue[k].status \in {"settled", "failed"})

=============================================================================
