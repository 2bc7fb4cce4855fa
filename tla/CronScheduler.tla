----------------------------- MODULE CronScheduler -----------------------------
(***************************************************************************)
(* Scheduled jobs: the table of CronJobStore, the CronScheduler of a       *)
(* process, and what users, tools and the calendar do to the table.        *)
(*                                                                         *)
(* The database is synchronous: an action is what happens between two      *)
(* awaits that leave the microtasks, and those are few.  A run is one call *)
(* of runJob(); it waits for its executor, for onJobEnd and for the        *)
(* delivery, and only during the first the job counts as in flight.  The   *)
(* wait has a time-out; the executor has none, and goes on adrift.         *)
(*                                                                         *)
(* Of next_run_at only its relation to the clock is kept.  Jobs recur      *)
(* (cron, interval) or are reminders of the calendar, which run once and   *)
(* whose ids are used again when their event moves.  Runs are numbered; a  *)
(* number is free again when its run is over.                              *)
(***************************************************************************)
EXTENDS Integers, FiniteSets

CONSTANTS
  Jobs,
  Reminders,    \* the jobs that run once (repeat.times = 1)
  MaxParallel,  \* maxParallelJobs
  CatchUp,      \* DEFAULT_MAX_MISSED_JOBS_PER_RESTART
  MaxErrors,    \* maxConsecutiveErrors
  MaxRuns,      \* bound: runs at a time, executing or in their tail
  MaxFaults,    \* bound: steps in which a write fails, a lock is not granted
                \* or an executor outlives its time-out
  MaxCrashes,   \* bound
  MaxCommands   \* bound: what users, tools and the calendar ask for

ASSUME CronAssumption ==
  /\ Reminders \subseteq Jobs /\ IsFiniteSet(Jobs)
  /\ MaxParallel \in Nat \ {0} /\ CatchUp \in Nat \ {0} /\ MaxErrors \in Nat \ {0}
  /\ MaxRuns \in Nat /\ MaxFaults \in Nat /\ MaxCrashes \in Nat /\ MaxCommands \in Nat

VARIABLES
  rows,        \* disk: job -> its row
  up,          \* is the scheduler of this life started?
  inFlight,    \* memory: the jobs being executed
  activeJobs,  \* memory: how many of the slots are taken
  runs,        \* number -> its run: which job, and where it is
  adrift,      \* jobs of which an executor works that no run waits for
  faults, crashes, commands  \* counters of the bounds

memory == <<inFlight, activeJobs>>
vars   == <<rows, up, memory, runs, adrift, faults, crashes, commands>>

Numbers == 1..MaxRuns

Due   == {"blank", "now"}  \* blank: '' is before every time
Times == Due \cup {"later", "none"}

Fresh == [state |-> "scheduled", enabled |-> TRUE, due |-> "later", errors |-> 0]
Gone  == [state |-> "gone", enabled |-> FALSE, due |-> "none", errors |-> 0]

CanTransition(from, to) ==
  CASE from = "scheduled" -> to \in {"running", "paused", "completed", "failed"}
    [] from = "running"   -> to \in {"completed", "failed", "paused"}
    [] from = "paused"    -> to \in {"scheduled", "completed", "failed"}
    [] from = "failed"    -> to \in {"scheduled", "paused", "completed"}
    [] OTHER              -> FALSE

NoRun     == [job |-> "none", at |-> "idle"]
Begun(j)  == [job |-> j, at |-> "running"]
Free      == {k \in Numbers : runs[k] = NoRun}
Stranded  == {j \in inFlight : \A k \in Numbers : runs[k] # Begun(j)}

\* Faulty: the time stays, as older versions left it.
CompletedWithTime(row) ==
  IF CanTransition(row.state, "completed") THEN [row EXCEPT !.state = "completed"] ELSE row

\* completeJob(): updateJobState() to a terminal state clears the time.
Completed(row) ==
  IF CanTransition(row.state, "completed")
  THEN [row EXCEPT !.state = "completed", !.due = "none"] ELSE row

-----------------------------------------------------------------------------
(* Users, tools and the calendar.                                           *)

Command == commands < MaxCommands /\ commands' = commands + 1

\* pauseJob()
Pause(j) ==
  /\ Command
  /\ CanTransition(rows[j].state, "paused")
  /\ rows' = [rows EXCEPT ![j].state = "paused"]
  /\ UNCHANGED <<up, memory, runs, adrift, faults, crashes>>

\* resumeJob(); the tool has no time for a reminder and stores ''.
Resume(j) ==
  /\ Command
  /\ CanTransition(rows[j].state, "scheduled")
  /\ \E due \in {"later"} \cup IF j \in Reminders THEN {"blank"} ELSE {} :
       rows' = [rows EXCEPT ![j].state = "scheduled", ![j].due = due]
  /\ UNCHANGED <<up, memory, runs, adrift, faults, crashes>>

\* deleteJob()
Delete(j) ==
  /\ Command
  /\ rows[j] # Gone
  /\ rows' = [rows EXCEPT ![j] = Gone]
  /\ UNCHANGED <<up, memory, runs, adrift, faults, crashes>>

\* handleRunCron(): whatever the state was, it is scheduled and due.
RunNow(j) ==
  /\ Command
  /\ rows[j] # Gone
  /\ rows' = [rows EXCEPT ![j].state = "scheduled", ![j].due = "now"]
  /\ UNCHANGED <<up, memory, runs, adrift, faults, crashes>>

\* handleUpdateCron()
Enable(j) ==
  /\ Command
  /\ rows[j] # Gone
  /\ rows' = [rows EXCEPT ![j].enabled = ~@]
  /\ UNCHANGED <<up, memory, runs, adrift, faults, crashes>>

\* onCalendarUpdated(): the reminder is deleted and made again, with its id.
Reschedule(j) ==
  /\ Command
  /\ j \in Reminders
  /\ rows' = [rows EXCEPT ![j] = Fresh]
  /\ UNCHANGED <<up, memory, runs, adrift, faults, crashes>>

User == \E j \in Jobs :
  Pause(j) \/ Resume(j) \/ Delete(j) \/ RunNow(j) \/ Enable(j) \/ Reschedule(j)

\* Time passes.
Age(j) ==
  /\ rows[j].due = "later"
  /\ rows' = [rows EXCEPT ![j].due = "now"]
  /\ UNCHANGED <<up, memory, runs, adrift, faults, crashes, commands>>

-----------------------------------------------------------------------------
(* A run.                                                                   *)

Number == CHOOSE k \in Free : TRUE

\* Faulty: nobody looks at the jobs in flight.
StartAgain(j) ==
  LET row == rows[j] IN
  /\ up /\ activeJobs < MaxParallel
  /\ row.enabled /\ row.state = "scheduled" /\ row.due \in Due
  /\ Free # {}
  /\ inFlight' = inFlight \cup {j} /\ activeJobs' = activeJobs + 1
  /\ runs' = [runs EXCEPT ![Number] = Begun(j)]
  /\ UNCHANGED <<up, rows, adrift, faults, crashes, commands>>

\* tick() and the beginning of runJob(): the row becomes running, and the
\* upsert of the row as it was read makes it scheduled again, or fails.  When
\* the first write fails, runJob() ends there: the slot and the id stay taken.
Start(j) ==
  LET row == rows[j] IN
  /\ up /\ activeJobs < MaxParallel
  /\ row.enabled /\ row.state = "scheduled" /\ row.due \in Due
  /\ j \notin inFlight
  /\ Free # {}
  /\ inFlight' = inFlight \cup {j} /\ activeJobs' = activeJobs + 1
  /\ \/ /\ runs' = [runs EXCEPT ![Number] = Begun(j)]
        /\ UNCHANGED <<rows, faults>>
     \/ /\ runs' = [runs EXCEPT ![Number] = Begun(j)]
        /\ faults < MaxFaults /\ faults' = faults + 1
        /\ rows' = [rows EXCEPT ![j].state = "running"]
     \/ /\ faults < MaxFaults /\ faults' = faults + 1
        /\ UNCHANGED <<rows, runs>>
  /\ UNCHANGED <<up, adrift, crashes, commands>>

\* The finally block of runJob().
Land(k, run) ==
  /\ up /\ runs[k].at = "running"
  /\ inFlight' = inFlight \ {runs[k].job} /\ activeJobs' = activeJobs - 1
  /\ runs' = [runs EXCEPT ![k] = run]
  /\ UNCHANGED <<up, crashes, commands>>

\* The executor answers or throws.
Execute(k) ==
  /\ \E at \in {"succeeded", "failed"} : Land(k, [runs[k] EXCEPT !.at = at])
  /\ UNCHANGED <<rows, adrift, faults>>

\* jobTimeoutMs is over: the run has failed as by a throw, and nobody stops its
\* executor.
TimeOut(k) ==
  /\ Land(k, [runs[k] EXCEPT !.at = "failed"])
  /\ faults < MaxFaults /\ faults' = faults + 1
  /\ adrift' = adrift \cup {runs[k].job}
  /\ UNCHANGED rows

\* The last executor of the job that nobody waits for ends, unheard.
DriftEnds(j) ==
  /\ j \in adrift
  /\ adrift' = adrift \ {j}
  /\ UNCHANGED <<rows, up, memory, runs, faults, crashes, commands>>

\* The scan blocks the prompt: the job fails for good, or the error counts.
Block(k) ==
  LET j == runs[k].job IN
  /\ runs[k].at = "running"
  /\ IF rows[j].state \in {"completed", "gone"}
     THEN Land(k, [runs[k] EXCEPT !.at = "failed"]) /\ UNCHANGED rows
     ELSE Land(k, NoRun) /\ rows' = [rows EXCEPT ![j].state = "failed"]
  /\ UNCHANGED <<adrift, faults>>

\* The lock of the job is not granted.
TurnAway(k) ==
  /\ Land(k, NoRun)
  /\ faults < MaxFaults /\ faults' = faults + 1
  /\ UNCHANGED <<rows, adrift>>

\* Faulty: from the row as the run began with it.
CountedFromStart(row, ok) == [row EXCEPT !.errors = IF ok THEN 0 ELSE 1]

\* updateConsecutiveErrors(), from the row as it is now.
Counted(row, ok) ==
  [row EXCEPT !.errors = IF ok THEN 0 ELSE IF @ < MaxErrors THEN @ + 1 ELSE @]

\* Faulty: the time is moved whatever came out.
AdvancedAlways(j, row, ok) ==
  [row EXCEPT !.due = IF j \in Reminders THEN @ ELSE "later",
              !.enabled = @ /\ row.errors < MaxErrors]

\* Faulty: the job is put back to scheduled after its run.
AdvancedAndScheduled(j, row, ok) ==
  [row EXCEPT !.due = IF ok /\ j \notin Reminders THEN "later" ELSE @,
              !.enabled = @ /\ (ok \/ row.errors < MaxErrors), !.state = "scheduled"]

\* updateNextRun() after a success, disableJob() after too many failures.
Advanced(j, row, ok) ==
  IF ok
  THEN [row EXCEPT !.due = IF j \in Reminders THEN @ ELSE "later"]
  ELSE [row EXCEPT !.enabled = @ /\ row.errors < MaxErrors]

Recorded(j, ok) ==
  IF rows[j] = Gone THEN Gone ELSE Advanced(j, Counted(rows[j], ok), ok)

\* onJobEnd has returned: the result is written, the delivery begins.
Record(k) ==
  LET j  == runs[k].job
      ok == runs[k].at = "succeeded"
  IN  /\ up /\ runs[k].at \in {"succeeded", "failed"}
      /\ rows' = [rows EXCEPT ![j] = Recorded(j, ok)]
      /\ runs' = [runs EXCEPT ![k].at = "delivering"]
      /\ UNCHANGED <<up, memory, adrift, faults, crashes, commands>>

\* One of these writes fails: the rest is given up, and so is the delivery.
RecordFails(k) ==
  LET j  == runs[k].job
      ok == runs[k].at = "succeeded"
  IN  /\ up /\ runs[k].at \in {"succeeded", "failed"}
      /\ faults < MaxFaults /\ faults' = faults + 1
      /\ \E row \in {rows[j], Recorded(j, ok)} \cup
                    (IF rows[j] = Gone THEN {} ELSE {Counted(rows[j], ok)}) :
           rows' = [rows EXCEPT ![j] = row]
      /\ runs' = [runs EXCEPT ![k] = NoRun]
      /\ UNCHANGED <<up, memory, adrift, crashes, commands>>

\* The delivery has succeeded or was queued; a reminder is complete.
Deliver(k) ==
  LET j == runs[k].job IN
  /\ up /\ runs[k].at = "delivering"
  /\ rows' = [rows EXCEPT ![j] = IF j \in Reminders THEN Completed(@) ELSE @]
  /\ runs' = [runs EXCEPT ![k] = NoRun]
  /\ UNCHANGED <<up, memory, adrift, faults, crashes, commands>>

-----------------------------------------------------------------------------
(* Crash and start().                                                       *)

Crash ==
  /\ up /\ crashes < MaxCrashes
  /\ crashes' = crashes + 1
  /\ up' = FALSE
  /\ inFlight' = {} /\ activeJobs' = 0
  /\ runs' = [k \in Numbers |-> NoRun] /\ adrift' = {}
  /\ UNCHANGED <<rows, faults, commands>>

\* recoverInterruptedJobs(): two writes.
Restored(row) == IF row.state = "running" THEN [row EXCEPT !.state = "scheduled"] ELSE row

Recovered(j, row) ==
  IF row.state = "running" /\ j \notin Reminders
  THEN [Restored(row) EXCEPT !.due = "later"] ELSE Restored(row)

\* catchUpMissedJobs(): what is due for 60 s or more is missed; a reminder
\* that is due for 120 s is complete without a run.
Late(restored) ==
  {j \in Jobs : /\ restored[j].enabled /\ restored[j].state # "completed"
                /\ restored[j].due = "now"}

Expired(j, row, tooLate) ==
  IF row.enabled /\ (row.state = "completed" \/ j \in tooLate)
  THEN [row EXCEPT !.state = "completed", !.due = "none"]
  ELSE row

\* Each job of the set has one run, and that begins.
Started(js) ==
  {begun \in [Numbers -> {NoRun} \cup {Begun(j) : j \in js}] :
     /\ \A j \in js : \E k \in Numbers : begun[k] = Begun(j)
     /\ \A i, k \in Numbers : begun[i] = begun[k] /\ begun[k] # NoRun => i = k}

\* start(), with the rows after the recovery, the reminders that are too late,
\* the jobs that runJob() is called for, those of them whose run begins and, of
\* these, the ones whose upsert fails.
Begin(restored, tooLate, chosen, begun, left) ==
  /\ ~up /\ up' = TRUE
  /\ rows' = [j \in Jobs |-> IF j \in left THEN [restored[j] EXCEPT !.state = "running"]
                             ELSE Expired(j, restored[j], tooLate)]
  /\ inFlight' = chosen /\ activeJobs' = Cardinality(chosen)
  /\ runs' \in Started(begun)
  /\ UNCHANGED <<adrift, crashes, commands>>

Scheduled(restored, js) == {j \in js : restored[j].state = "scheduled"}

\* runJob() of a job that is not scheduled throws after taking its slot.
Boot ==
  LET restored == [j \in Jobs |-> Recovered(j, rows[j])] IN
  /\ \E missed \in SUBSET Late(restored) : \E tooLate \in SUBSET (missed \cap Reminders) :
       \E chosen \in SUBSET (missed \ tooLate) :
         /\ Cardinality(chosen) <= CatchUp
         /\ chosen # missed \ tooLate => Cardinality(chosen) = CatchUp
         /\ Begin(restored, tooLate, chosen, Scheduled(restored, chosen), {})
  /\ UNCHANGED faults

\* Reads or writes fail: rows are not recovered, or by half; reminders that are
\* too late are kept, and then nothing is caught up; runs end before they begin.
BootFails ==
  /\ faults < MaxFaults /\ faults' = faults + 1
  /\ \E done \in [Jobs -> {"nothing", "half", "all"}] :
       LET restored == [j \in Jobs |-> CASE done[j] = "nothing" -> rows[j]
                                         [] done[j] = "half"    -> Restored(rows[j])
                                         [] OTHER               -> Recovered(j, rows[j])]
       IN  \E tooLate \in SUBSET (Late(restored) \cap Reminders) :
             \E chosen \in SUBSET (Late(restored) \ tooLate) :
               /\ Cardinality(chosen) <= CatchUp
               /\ \E begun \in SUBSET Scheduled(restored, chosen) : \E left \in SUBSET begun :
                    Begin(restored, tooLate, chosen, begun, left)

-----------------------------------------------------------------------------
Init ==
  /\ rows = [j \in Jobs |-> Fresh]
  /\ up = TRUE
  /\ inFlight = {} /\ activeJobs = 0
  /\ runs = [k \in Numbers |-> NoRun] /\ adrift = {}
  /\ faults = 0 /\ crashes = 0 /\ commands = 0

Proceed(k) == Execute(k) \/ TimeOut(k) \/ Record(k) \/ Deliver(k)
Run(k)     == Proceed(k) \/ Block(k) \/ TurnAway(k) \/ RecordFails(k)

Scheduler ==
  \/ \E j \in Jobs : Start(j) \/ DriftEnds(j)
  \/ \E k \in Numbers : Run(k)
  \/ Crash
  \/ Boot
  \/ BootFails

Next == User \/ (\E j \in Jobs : Age(j)) \/ Scheduler

Spec == Init /\ [][Next]_vars

\* A run waits for its executor until its time-out; a job that stays due comes to the
\* front of the list that tick() reads in the order of the times.
FairSpec ==
  /\ Spec
  /\ WF_vars(Boot)
  /\ \A j \in Jobs : SF_vars(Start(j))
  /\ \A k \in Numbers : WF_vars(Proceed(k))
-----------------------------------------------------------------------------
(* Properties.                                                              *)

Row == [state : {"scheduled", "running", "paused", "completed", "failed", "gone"},
        enabled : BOOLEAN, due : Times, errors : 0..MaxErrors]

\* Types, the bounds, and: a completed job has no time, and a deleted one nothing.
TypeOK ==
  /\ rows \in [Jobs -> Row]
  /\ up \in BOOLEAN
  /\ inFlight \subseteq Jobs /\ adrift \subseteq Jobs /\ activeJobs \in 0..Cardinality(Jobs)
  /\ runs \in [Numbers -> {NoRun} \cup
              [job : Jobs, at : {"running", "succeeded", "failed", "delivering"}]]
  /\ faults \in 0..MaxFaults /\ crashes \in 0..MaxCrashes /\ commands \in 0..MaxCommands
  /\ \A j \in Jobs : /\ rows[j].state = "completed" => rows[j].due = "none"
                     /\ rows[j].state = "gone" => rows[j] = Gone

\* One run of a job at a time waits for an executor, whatever catches up, ticks,
\* triggers it again or makes it anew, and it holds one slot (the check at the
\* beginning of runJob(), inFlightJobs and activeJobs).  So if two executors of a
\* job work at once, all but one have outlived the time-out of their run.
AwaitedOnce ==
  /\ activeJobs = Cardinality(inFlight)
  /\ \A k \in Numbers : runs[k].at = "running" => runs[k].job \in inFlight
  /\ \A i, k \in Numbers : runs[i].at = "running" /\ runs[k] = runs[i] => i = k

Asked == commands' # commands

\* What a user has stopped stays so until a user says otherwise: the end of a
\* run that was under way, the restart and the catch-up neither bring a
\* deleted job back nor resume a paused, blocked, completed or disabled one.
StopKept(j) ==
  /\ rows[j] = Gone => rows'[j] = Gone
  /\ rows[j].state = "paused" => rows'[j].state \in {"paused", "failed", "completed"}
  /\ rows[j].state = "failed" => rows'[j].state \in {"failed", "completed"}
  /\ rows[j].state = "completed" => rows'[j].state = "completed"
  /\ ~rows[j].enabled => ~rows'[j].enabled

StopIsKept == [][Asked \/ \A j \in Jobs : StopKept(j)]_vars

\* An occurrence is not lost: a job that is due ceases to be so by the end of
\* a run of its own (a success; any for a reminder), or by a restart that finds
\* the reminder too late or the row left running.
Ended(j, k) ==
  /\ runs[k].job = j /\ runs'[k] # runs[k]
  /\ runs[k].at = IF j \in Reminders THEN "delivering" ELSE "succeeded"

Overdue(j) == rows[j].state = "running" \/ j \in Reminders

OccurrenceKept(j) ==
  rows[j].due \in Due /\ rows'[j].due \notin Due =>
    (\E k \in Numbers : Ended(j, k)) \/ (~up /\ Overdue(j))

OccurrenceIsRun == [][Asked \/ \A j \in Jobs : OccurrenceKept(j)]_vars

\* A job that is due is run until it succeeds, fails for good or is stopped,
\* unless a catch-up, or a first write that failed, has left it, or all the
\* slots, in flight without a run.
Waiting(j) == rows[j].enabled /\ rows[j].state = "scheduled" /\ rows[j].due \in Due

DueJobSettles ==
  \A j \in Jobs :
    Waiting(j) ~> (~Waiting(j) \/ j \in Stranded \/ Cardinality(Stranded) >= MaxParallel)

\* inFlightJobs: "the ids of the jobs being executed".
InFlightIsExecuting == Stranded = {}
=============================================================================
