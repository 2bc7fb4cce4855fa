-------------------------- MODULE CronScheduler_proofs -------------------------
(***************************************************************************)
(* The safety properties of CronScheduler, for every set of jobs and every *)
(* limit.  The types need one fact more, that only reminders are ever      *)
(* completed: the end of a run gives a recurring job its next time without *)
(* a look at its state.  AwaitedOnce is inductive: that a job has one run    *)
(* executing follows from the set of jobs in flight, and that a slot is    *)
(* not freed under a run from AwaitedOnce itself.                            *)
(***************************************************************************)
EXTENDS CronScheduler, FiniteSetTheorems, TLAPS

\* What a row of job j may be.
Sound(j, row) ==
  /\ row \in Row
  /\ row.state = "completed" => row.due = "none" /\ j \in Reminders
  /\ row.state = "gone" => row = Gone

RowsSound == rows \in [Jobs -> Row] /\ \A j \in Jobs : Sound(j, rows[j])

RunsSound ==
  /\ up \in BOOLEAN
  /\ inFlight \subseteq Jobs /\ adrift \subseteq Jobs
  /\ runs \in [Numbers -> {NoRun} \cup
              [job : Jobs, at : {"running", "succeeded", "failed", "delivering"}]]

Bounded ==
  /\ faults \in 0..MaxFaults /\ crashes \in 0..MaxCrashes /\ commands \in 0..MaxCommands

IInv == RowsSound /\ RunsSound /\ AwaitedOnce /\ Bounded

-----------------------------------------------------------------------------
\* The inductive invariant implies the type invariant.
LEMMA InvTypes ==
  ASSUME CronAssumption, IInv
  PROVE  TypeOK
<1>1. Cardinality(inFlight) \in 0..Cardinality(Jobs)
  BY FS_Subset, FS_CardinalityType DEF IInv, RunsSound, CronAssumption
<1> QED BY <1>1 DEF TypeOK, IInv, RowsSound, RunsSound, AwaitedOnce, Bounded, Sound

\* One row is replaced by a sound one.
LEMMA RowWritten ==
  ASSUME RowsSound, NEW j \in Jobs, NEW row, Sound(j, row), rows' = [rows EXCEPT ![j] = row]
  PROVE  RowsSound'
BY DEF RowsSound, Sound, Row, Gone

\* The rows that the end of a run and a restart write are sound.
LEMMA RowsMade ==
  ASSUME CronAssumption, NEW j \in Jobs, NEW row, Sound(j, row), NEW ok \in BOOLEAN
  PROVE  /\ Sound(j, Fresh) /\ Sound(j, Gone)
         /\ row # Gone => Sound(j, Counted(row, ok))
         /\ row # Gone => Sound(j, Advanced(j, row, ok))
         /\ j \in Reminders => Sound(j, Completed(row))
         /\ Sound(j, Recovered(j, row)) /\ Sound(j, Restored(row))
<1>1. Sound(j, Fresh) /\ Sound(j, Gone)
  BY DEF Fresh, Gone, Sound, Row, Times, Due, CronAssumption
<1>2. row # Gone => Sound(j, Counted(row, ok))
  BY DEF Counted, Sound, Row, CronAssumption
<1>3. row # Gone => Sound(j, Advanced(j, row, ok))
  BY DEF Advanced, Sound, Row, Times
<1>4. j \in Reminders => Sound(j, Completed(row))
  BY DEF Completed, CanTransition, Sound, Row, Times
<1>5. Sound(j, Recovered(j, row)) /\ Sound(j, Restored(row))
  BY DEF Recovered, Restored, Sound, Row, Times
<1> QED BY <1>1, <1>2, <1>3, <1>4, <1>5

\* What a restart makes of a row is sound.
LEMMA ExpiredSound ==
  ASSUME CronAssumption, NEW j \in Jobs, NEW row, Sound(j, row),
         NEW tooLate, tooLate \subseteq Reminders
  PROVE  Sound(j, Expired(j, row, tooLate))
BY DEF Expired, Sound, Row, Times, Gone

\* The end of a run writes a sound row, all of it or a part.
LEMMA RecordedSound ==
  ASSUME CronAssumption, RowsSound, NEW j \in Jobs, NEW ok \in BOOLEAN
  PROVE  /\ Sound(j, Recorded(j, ok))
         /\ rows[j] # Gone => Sound(j, Counted(rows[j], ok))
<1>1. Sound(j, rows[j])
  BY DEF RowsSound
<1>2. CASE rows[j] = Gone
  BY <1>2, <1>1, RowsMade DEF Recorded
<1>3. CASE rows[j] # Gone
  <2>1. Sound(j, Counted(rows[j], ok)) /\ Counted(rows[j], ok) # Gone
    BY <1>1, <1>3, RowsMade DEF Counted, Sound, Gone, Row
  <2>2. Sound(j, Advanced(j, Counted(rows[j], ok), ok))
    BY <2>1, RowsMade
  <2> QED BY <1>3, <2>1, <2>2 DEF Recorded
<1> QED BY <1>2, <1>3

-----------------------------------------------------------------------------
(* The rows.                                                                *)

\* The job of a run that goes on is a job.
LEMMA JobOfRun ==
  ASSUME RunsSound, NEW k \in Numbers, runs[k].at # "idle"
  PROVE  /\ runs[k].job \in Jobs
         /\ runs[k] \in [job : Jobs, at : {"running", "succeeded", "failed", "delivering"}]
BY DEF RunsSound, NoRun

\* What users ask for leaves sound rows.
LEMMA UserRows ==
  ASSUME CronAssumption, RowsSound, User
  PROVE  RowsSound'
<1> PICK j \in Jobs :
      Pause(j) \/ Resume(j) \/ Delete(j) \/ RunNow(j) \/ Enable(j) \/ Reschedule(j)
  BY DEF User
<1>1. Sound(j, rows[j]) /\ Sound(j, Fresh) /\ Sound(j, Gone)
  BY RowsMade DEF RowsSound
<1>2. CASE Pause(j)
  <2>1. Sound(j, [rows[j] EXCEPT !.state = "paused"])
    BY <1>1, <1>2 DEF Pause, CanTransition, Sound, Row, Gone
  <2> QED BY <2>1, <1>2, RowWritten DEF Pause
<1>3. CASE Resume(j)
  <2>1. PICK due \in {"later", "blank"} :
          rows' = [rows EXCEPT ![j].state = "scheduled", ![j].due = due]
    BY <1>3 DEF Resume
  <2> DEFINE row == [[rows[j] EXCEPT !.state = "scheduled"] EXCEPT !.due = due]
  <2>2. Sound(j, row)
    BY <1>1 DEF Sound, Row, Times, Due
  <2>3. rows' = [rows EXCEPT ![j] = row]
    BY <2>1 DEF RowsSound
  <2> QED BY <2>2, <2>3, RowWritten
<1>4. CASE Delete(j)
  BY <1>1, <1>4, RowWritten DEF Delete
<1>5. CASE RunNow(j)
  <2> DEFINE row == [[rows[j] EXCEPT !.state = "scheduled"] EXCEPT !.due = "now"]
  <2>1. Sound(j, row)
    BY <1>1 DEF Sound, Row, Times, Due
  <2>2. rows' = [rows EXCEPT ![j] = row]
    BY <1>5 DEF RunNow, RowsSound
  <2> QED BY <2>1, <2>2, RowWritten
<1>6. CASE Enable(j)
  <2>1. Sound(j, [rows[j] EXCEPT !.enabled = ~@])
    BY <1>1, <1>6 DEF Enable, Sound, Row
  <2> QED BY <2>1, <1>6, RowWritten DEF Enable
<1>7. CASE Reschedule(j)
  BY <1>1, <1>7, RowWritten DEF Reschedule
<1> QED BY <1>2, <1>3, <1>4, <1>5, <1>6, <1>7

\* What a recovery makes of a row, all or a part of it.
Recoveries(j) == {rows[j], Restored(rows[j]), Recovered(j, rows[j])}

\* A restart begins with recovered rows, and with one run of each job at most.
LEMMA Restarts ==
  ASSUME Boot \/ BootFails
  PROVE  \E restored, tooLate, chosen, begun, left :
           /\ restored = [j \in Jobs |-> restored[j]]
           /\ \A j \in Jobs : restored[j] \in Recoveries(j)
           /\ tooLate \subseteq Reminders /\ chosen \subseteq Jobs
           /\ begun \subseteq Scheduled(restored, chosen) /\ left \subseteq begun
           /\ Cardinality(chosen) <= CatchUp
           /\ Begin(restored, tooLate, chosen, begun, left)
<1>1. CASE Boot
  <2> DEFINE restored == [j \in Jobs |-> Recovered(j, rows[j])]
  <2>1. PICK tooLate, chosen :
          /\ tooLate \subseteq Reminders /\ chosen \subseteq Jobs
          /\ Cardinality(chosen) <= CatchUp
          /\ Begin(restored, tooLate, chosen, Scheduled(restored, chosen), {})
    BY <1>1 DEF Boot, Late
  <2>2. \A j \in Jobs : restored[j] \in Recoveries(j)
    BY DEF Recoveries
  <2>3. restored = [j \in Jobs |-> restored[j]]
    OBVIOUS
  <2> HIDE DEF restored
  <2> QED BY <2>1, <2>2, <2>3
<1>2. CASE BootFails
  <2>1. PICK done \in [Jobs -> {"nothing", "half", "all"}] :
          LET restored == [j \in Jobs |-> CASE done[j] = "nothing" -> rows[j]
                                            [] done[j] = "half"    -> Restored(rows[j])
                                            [] OTHER               -> Recovered(j, rows[j])]
          IN  \E tooLate \in SUBSET (Late(restored) \cap Reminders) :
                \E chosen \in SUBSET (Late(restored) \ tooLate) :
                  /\ Cardinality(chosen) <= CatchUp
                  /\ \E begun \in SUBSET Scheduled(restored, chosen) : \E left \in SUBSET begun :
                       Begin(restored, tooLate, chosen, begun, left)
    BY <1>2 DEF BootFails
  <2> DEFINE restored == [j \in Jobs |-> CASE done[j] = "nothing" -> rows[j]
                                           [] done[j] = "half"    -> Restored(rows[j])
                                           [] OTHER               -> Recovered(j, rows[j])]
  <2>2. \A j \in Jobs : restored[j] \in Recoveries(j)
    BY DEF Recoveries
  <2>3. restored = [j \in Jobs |-> restored[j]]
    OBVIOUS
  <2>4. Late(restored) \subseteq Jobs
    BY DEF Late
  <2> HIDE DEF restored
  <2>5. \E tooLate \in SUBSET (Late(restored) \cap Reminders) :
          \E chosen \in SUBSET (Late(restored) \ tooLate) :
            /\ Cardinality(chosen) <= CatchUp
            /\ \E begun \in SUBSET Scheduled(restored, chosen) : \E left \in SUBSET begun :
                 Begin(restored, tooLate, chosen, begun, left)
    BY <2>1 DEF restored
  <2> QED BY <2>2, <2>3, <2>4, <2>5
<1> QED BY <1>1, <1>2

\* A restart leaves sound rows.
LEMMA BootRows ==
  ASSUME CronAssumption, RowsSound, Boot \/ BootFails
  PROVE  RowsSound'
<1>1. PICK restored, tooLate, chosen, begun, left :
        /\ \A j \in Jobs : restored[j] \in Recoveries(j)
        /\ tooLate \subseteq Reminders
        /\ Begin(restored, tooLate, chosen, begun, left)
  BY Restarts
<1>2. \A j \in Jobs : Sound(j, restored[j])
  BY <1>1, RowsMade DEF Recoveries, RowsSound
<1>3. \A j \in Jobs : Sound(j, Expired(j, restored[j], tooLate))
  BY <1>1, <1>2, ExpiredSound
<1>4. \A j \in Jobs : j \in left => Sound(j, [restored[j] EXCEPT !.state = "running"])
  BY <1>2 DEF Sound, Row
<1>5. rows' = [j \in Jobs |-> IF j \in left THEN [restored[j] EXCEPT !.state = "running"]
                              ELSE Expired(j, restored[j], tooLate)]
  BY <1>1 DEF Begin
<1>6. \A j \in Jobs : Sound(j, rows'[j])
  BY <1>3, <1>4, <1>5
<1> QED BY <1>5, <1>6 DEF RowsSound, Sound

\* Every step leaves sound rows.
LEMMA RowsStep ==
  ASSUME CronAssumption, RowsSound, RunsSound, [Next]_vars
  PROVE  RowsSound'
<1>1. CASE User
  BY <1>1, UserRows
<1>2. ASSUME NEW j \in Jobs, Age(j) PROVE RowsSound'
  <2>1. Sound(j, [rows[j] EXCEPT !.due = "now"])
    BY <1>2 DEF Age, RowsSound, Sound, Row, Times, Due, Gone
  <2> QED BY <1>2, <2>1, RowWritten DEF Age
<1>3. ASSUME NEW j \in Jobs, Start(j) PROVE RowsSound'
  <2>1. Sound(j, [rows[j] EXCEPT !.state = "running"])
    BY DEF RowsSound, Sound, Row
  <2>2. CASE rows' = [rows EXCEPT ![j].state = "running"]
    BY <1>3, <2>1, <2>2, RowWritten
  <2>3. CASE UNCHANGED rows
    BY <2>3 DEF RowsSound
  <2> QED BY <1>3, <2>2, <2>3 DEF Start
<1>4. ASSUME NEW k \in Numbers, Execute(k) \/ TimeOut(k) \/ TurnAway(k) PROVE RowsSound'
  BY <1>4 DEF Execute, TimeOut, TurnAway, RowsSound
<1>5. ASSUME NEW k \in Numbers, Block(k) PROVE RowsSound'
  <2> DEFINE j == runs[k].job
  <2>1. j \in Jobs
    BY <1>5, JobOfRun DEF Block
  <2>2. CASE UNCHANGED rows
    BY <2>2 DEF RowsSound
  <2>3. CASE /\ rows[j].state \notin {"completed", "gone"}
             /\ rows' = [rows EXCEPT ![j].state = "failed"]
    <3>1. Sound(j, [rows[j] EXCEPT !.state = "failed"])
      BY <2>1, <2>3 DEF RowsSound, Sound, Row
    <3> QED BY <2>1, <2>3, <3>1, RowWritten
  <2> QED BY <1>5, <2>2, <2>3 DEF Block
<1>6. ASSUME NEW k \in Numbers, Record(k) PROVE RowsSound'
  <2> DEFINE j  == runs[k].job
             ok == runs[k].at = "succeeded"
  <2>1. j \in Jobs
    BY <1>6, JobOfRun DEF Record
  <2>2. Sound(j, Recorded(j, ok))
    BY <2>1, RecordedSound
  <2> QED BY <1>6, <2>1, <2>2, RowWritten DEF Record
<1>7. ASSUME NEW k \in Numbers, RecordFails(k) PROVE RowsSound'
  <2> DEFINE j  == runs[k].job
             ok == runs[k].at = "succeeded"
  <2>1. j \in Jobs
    BY <1>7, JobOfRun DEF RecordFails
  <2>2. /\ Sound(j, rows[j]) /\ Sound(j, Recorded(j, ok))
        /\ rows[j] # Gone => Sound(j, Counted(rows[j], ok))
    BY <2>1, RecordedSound DEF RowsSound
  <2>3. PICK row : Sound(j, row) /\ rows' = [rows EXCEPT ![j] = row]
    BY <1>7, <2>2 DEF RecordFails
  <2> QED BY <2>1, <2>3, RowWritten
<1>8. ASSUME NEW k \in Numbers, Deliver(k) PROVE RowsSound'
  <2> DEFINE j == runs[k].job
  <2>1. j \in Jobs /\ Sound(j, rows[j])
    BY <1>8, JobOfRun DEF Deliver, RowsSound
  <2>2. Sound(j, IF j \in Reminders THEN Completed(rows[j]) ELSE rows[j])
    BY <2>1, RowsMade
  <2> QED BY <1>8, <2>1, <2>2, RowWritten DEF Deliver
<1>9. CASE Crash
  BY <1>9 DEF Crash, RowsSound
<1>10. CASE Boot \/ BootFails
  BY <1>10, BootRows
<1>11. CASE UNCHANGED vars
  BY <1>11 DEF vars, RowsSound
<1>12. CASE \E j \in Jobs : DriftEnds(j)
  BY <1>12 DEF DriftEnds, RowsSound
<1> QED
  BY <1>1, <1>2, <1>3, <1>4, <1>5, <1>6, <1>7, <1>8, <1>9, <1>10, <1>11, <1>12
  DEF Next, Scheduler, Run, Proceed


-----------------------------------------------------------------------------
(* The runs and the slots.                                                  *)

\* A run that ends its execution frees the slot of its job, which has no other.
LEMMA LandKeeps ==
  ASSUME CronAssumption, RunsSound, AwaitedOnce, NEW k \in Numbers, NEW run, Land(k, run),
         \/ run = NoRun
         \/ \E at \in {"succeeded", "failed"} : run = [runs[k] EXCEPT !.at = at],
         adrift' = adrift \/ adrift' = adrift \cup {runs[k].job}
  PROVE  RunsSound' /\ AwaitedOnce'
<1> DEFINE j == runs[k].job
<1>1. /\ runs[k].at = "running" /\ j \in Jobs /\ j \in inFlight
      /\ inFlight' = inFlight \ {j} /\ activeJobs' = activeJobs - 1
      /\ runs' = [runs EXCEPT ![k] = run] /\ up' = up
      /\ runs[k] \in [job : Jobs, at : {"running", "succeeded", "failed", "delivering"}]
  BY JobOfRun DEF Land, AwaitedOnce
<1>2. /\ run.at # "running"
      /\ run \in {NoRun} \cup
           [job : Jobs, at : {"running", "succeeded", "failed", "delivering"}]
  BY <1>1 DEF NoRun
<1>3. RunsSound'
  BY <1>1, <1>2 DEF RunsSound
<1>4. activeJobs' = Cardinality(inFlight')
  <2>1. IsFiniteSet(inFlight)
    BY FS_Subset DEF RunsSound, CronAssumption
  <2> QED BY <1>1, <2>1, FS_RemoveElement, FS_CardinalityType DEF AwaitedOnce
<1>5. \A i \in Numbers : runs'[i].at = "running" => i # k /\ runs'[i] = runs[i]
  BY <1>1, <1>2 DEF RunsSound
<1>6. \A i \in Numbers : runs[i].at = "running" /\ runs[i].job = j => i = k
  <2> SUFFICES ASSUME NEW i \in Numbers, runs[i].at = "running", runs[i].job = j
               PROVE  i = k
    OBVIOUS
  <2>1. runs[i] \in [job : Jobs, at : {"running", "succeeded", "failed", "delivering"}]
    BY JobOfRun
  <2>2. runs[i] = runs[k]
    BY <1>1, <2>1
  <2> QED BY <1>1, <2>2 DEF AwaitedOnce
<1>7. \A i \in Numbers : runs'[i].at = "running" => runs'[i].job \in inFlight'
  BY <1>1, <1>5, <1>6 DEF AwaitedOnce
<1>8. \A h, i \in Numbers : runs'[h].at = "running" /\ runs'[i] = runs'[h] => h = i
  BY <1>5 DEF AwaitedOnce
<1> QED BY <1>3, <1>4, <1>7, <1>8 DEF AwaitedOnce

\* A run that is over its execution moves on, or gives its number back.
LEMMA TailKeeps ==
  ASSUME RunsSound, AwaitedOnce, NEW k \in Numbers, UNCHANGED <<up, memory, adrift>>,
         runs[k].at \notin {"idle", "running"},
         \/ runs' = [runs EXCEPT ![k] = NoRun]
         \/ runs' = [runs EXCEPT ![k].at = "delivering"]
  PROVE  RunsSound' /\ AwaitedOnce'
<1>1. runs[k] \in [job : Jobs, at : {"running", "succeeded", "failed", "delivering"}]
  BY JobOfRun
<1>2. PICK run : /\ runs' = [runs EXCEPT ![k] = run]
                 /\ run.at # "running"
                 /\ run \in {NoRun} \cup
                      [job : Jobs, at : {"running", "succeeded", "failed", "delivering"}]
  BY <1>1 DEF NoRun
<1>3. RunsSound'
  BY <1>2 DEF RunsSound, memory
<1>4. \A i \in Numbers : runs'[i].at = "running" => runs'[i] = runs[i]
  BY <1>2 DEF RunsSound
<1>5. inFlight' = inFlight /\ activeJobs' = activeJobs
  BY DEF memory
<1>6. \A i \in Numbers : runs'[i].at = "running" => runs'[i].job \in inFlight'
  BY <1>4, <1>5 DEF AwaitedOnce
<1>7. \A h, i \in Numbers : runs'[h].at = "running" /\ runs'[i] = runs'[h] => h = i
  BY <1>4 DEF AwaitedOnce
<1> QED BY <1>3, <1>5, <1>6, <1>7 DEF AwaitedOnce

\* A tick starts a job that is not in flight, or takes its slot for nothing.
LEMMA StartKeeps ==
  ASSUME CronAssumption, RunsSound, AwaitedOnce, NEW j \in Jobs, Start(j)
  PROVE  RunsSound' /\ AwaitedOnce'
<1> DEFINE k == Number
<1>1. k \in Numbers /\ runs[k] = NoRun
  BY DEF Number, Free, Start
<1>2. /\ j \notin inFlight /\ inFlight' = inFlight \cup {j} /\ activeJobs' = activeJobs + 1
      /\ runs' = [runs EXCEPT ![k] = Begun(j)] \/ runs' = runs
      /\ up' = up /\ adrift' = adrift
  BY DEF Start
<1> HIDE DEF k
<1>3. Begun(j) \in [job : Jobs, at : {"running", "succeeded", "failed", "delivering"}]
  BY DEF Begun
<1>4. RunsSound'
  BY <1>1, <1>2, <1>3 DEF RunsSound
<1>5. activeJobs' = Cardinality(inFlight')
  <2>1. IsFiniteSet(inFlight)
    BY FS_Subset DEF RunsSound, CronAssumption
  <2> QED BY <1>2, <2>1, FS_AddElement, FS_CardinalityType DEF AwaitedOnce
<1>6. \A i \in Numbers : runs'[i].at = "running" =>
        \/ i = k /\ runs'[i] = Begun(j)
        \/ runs'[i] = runs[i] /\ runs[i].job # j
  BY <1>1, <1>2 DEF RunsSound, AwaitedOnce
<1>7. \A i \in Numbers : runs'[i].at = "running" => runs'[i].job \in inFlight'
  BY <1>2, <1>6 DEF AwaitedOnce, Begun
<1>8. \A h, i \in Numbers : runs'[h].at = "running" /\ runs'[i] = runs'[h] => h = i
  BY <1>6 DEF AwaitedOnce, Begun
<1> QED BY <1>4, <1>5, <1>7, <1>8 DEF AwaitedOnce

\* A restart begins with the runs of its catch-up.
LEMMA BootKeeps ==
  ASSUME CronAssumption, RunsSound, Boot \/ BootFails
  PROVE  RunsSound' /\ AwaitedOnce'
<1>1. PICK restored, tooLate, chosen, begun, left :
        /\ chosen \subseteq Jobs /\ begun \subseteq Scheduled(restored, chosen)
        /\ Begin(restored, tooLate, chosen, begun, left)
  BY Restarts
<1>2. /\ inFlight' = chosen /\ activeJobs' = Cardinality(chosen) /\ up' = TRUE
      /\ runs' \in Started(begun) /\ adrift' = adrift
      /\ begun \subseteq chosen /\ begun \subseteq Jobs
  BY <1>1 DEF Begin, Scheduled
<1>3. /\ runs' \in [Numbers -> {NoRun} \cup {Begun(j) : j \in begun}]
      /\ \A i, k \in Numbers : runs'[i] = runs'[k] /\ runs'[k] # NoRun => i = k
  BY <1>2 DEF Started
<1>4. RunsSound'
  BY <1>1, <1>2, <1>3 DEF RunsSound, Begun
<1>5. \A i \in Numbers : runs'[i].at = "running" => runs'[i].job \in inFlight'
  BY <1>2, <1>3 DEF Begun, NoRun
<1>6. \A h, i \in Numbers : runs'[h].at = "running" /\ runs'[i] = runs'[h] => h = i
  BY <1>3 DEF NoRun
<1> QED BY <1>2, <1>4, <1>5, <1>6 DEF AwaitedOnce

\* Every step keeps one run executing per job, and one slot per job in flight.
LEMMA RunsStep ==
  ASSUME CronAssumption, RunsSound, AwaitedOnce, [Next]_vars
  PROVE  RunsSound' /\ AwaitedOnce'
<1>1. CASE UNCHANGED <<up, memory, runs>> /\ adrift' \subseteq adrift
  BY <1>1 DEF RunsSound, AwaitedOnce, memory
<1>2. ASSUME NEW j \in Jobs, Start(j) PROVE RunsSound' /\ AwaitedOnce'
  BY <1>2, StartKeeps
<1>3. ASSUME NEW k \in Numbers, Execute(k) \/ TimeOut(k) \/ Block(k) \/ TurnAway(k)
      PROVE  RunsSound' /\ AwaitedOnce'
  <2>1. CASE Execute(k)  BY <2>1, LandKeeps DEF Execute
  <2>2. CASE TimeOut(k)  BY <2>2, LandKeeps DEF TimeOut
  <2>3. CASE Block(k)    BY <2>3, LandKeeps DEF Block
  <2>4. CASE TurnAway(k) BY <2>4, LandKeeps DEF TurnAway
  <2> QED BY <1>3, <2>1, <2>2, <2>3, <2>4
<1>4. ASSUME NEW k \in Numbers, Record(k) \/ RecordFails(k) \/ Deliver(k)
      PROVE  RunsSound' /\ AwaitedOnce'
  BY <1>4, TailKeeps DEF Record, RecordFails, Deliver
<1>5. CASE Crash
  <2>1. RunsSound'
    BY <1>5 DEF Crash, RunsSound
  <2>2. AwaitedOnce'
    BY <1>5, FS_EmptySet DEF Crash, AwaitedOnce, NoRun
  <2> QED BY <2>1, <2>2
<1>6. CASE Boot \/ BootFails
  BY <1>6, BootKeeps
<1>7. CASE UNCHANGED vars
  BY <1>1, <1>7 DEF vars
<1>8. CASE User
  BY <1>1, <1>8 DEF User, Pause, Resume, Delete, RunNow, Enable, Reschedule
<1>9. ASSUME NEW j \in Jobs, Age(j) \/ DriftEnds(j) PROVE RunsSound' /\ AwaitedOnce'
  BY <1>1, <1>9 DEF Age, DriftEnds
<1> QED
  BY <1>2, <1>3, <1>4, <1>5, <1>6, <1>7, <1>8, <1>9 DEF Next, Scheduler, Run, Proceed

\* The bounds are kept.
LEMMA BoundsStep ==
  ASSUME CronAssumption, Bounded, [Next]_vars
  PROVE  Bounded'
<1>1. CASE User
  BY <1>1 DEF User, Pause, Resume, Delete, RunNow, Enable, Reschedule, Command, Bounded,
     CronAssumption
<1>2. ASSUME NEW j \in Jobs, Age(j) \/ Start(j) \/ DriftEnds(j) PROVE Bounded'
  BY <1>2 DEF Age, Start, DriftEnds, Bounded, CronAssumption
<1>3. ASSUME NEW k \in Numbers, Run(k) PROVE Bounded'
  BY <1>3 DEF Run, Proceed, Execute, TimeOut, Block, TurnAway, Land, Record, RecordFails, Deliver,
     Bounded, CronAssumption
<1>4. CASE Crash
  BY <1>4 DEF Crash, Bounded, CronAssumption
<1>5. CASE Boot \/ BootFails
  <2>1. UNCHANGED <<crashes, commands>>
    BY <1>5, Restarts DEF Begin
  <2> QED BY <1>5, <2>1 DEF Boot, BootFails, Bounded, CronAssumption
<1>6. CASE UNCHANGED vars
  BY <1>6 DEF vars, Bounded
<1> QED BY <1>1, <1>2, <1>3, <1>4, <1>5, <1>6 DEF Next, Scheduler

-----------------------------------------------------------------------------
(* The theorems.                                                            *)

\* The inductive invariant holds at the start.
LEMMA InvInit ==
  ASSUME CronAssumption, Init
  PROVE  IInv
<1>1. RowsSound
  BY DEF Init, RowsSound, Sound, Fresh, Row, Times, Due, CronAssumption
<1>2. RunsSound /\ AwaitedOnce
  BY FS_EmptySet DEF Init, RunsSound, AwaitedOnce, NoRun
<1>3. Bounded
  BY DEF Init, Bounded, CronAssumption
<1> QED BY <1>1, <1>2, <1>3 DEF IInv

\* The inductive invariant is inductive.
LEMMA InvStep ==
  ASSUME CronAssumption, IInv, [Next]_vars
  PROVE  IInv'
BY RowsStep, RunsStep, BoundsStep DEF IInv

\* Every reachable state satisfies the inductive invariant.
LEMMA Invariant ==
  ASSUME CronAssumption
  PROVE  Spec => []IInv
<1>1. Init => IInv
  BY InvInit
<1>2. IInv /\ [Next]_vars => IInv'
  BY InvStep
<1> QED BY <1>1, <1>2, PTL DEF Spec

\* Every reachable state of the scheduler is well typed, and a completed job has
\* no time (CronJobStore.updateJobState).
THEOREM TypeCorrect ==
  ASSUME CronAssumption
  PROVE  Spec => []TypeOK
<1>1. IInv => TypeOK
  BY InvTypes
<1> QED BY <1>1, Invariant, PTL

\* One run of a job at a time waits for an executor, and it holds one slot, for
\* any number of jobs, slots, runs, time-outs, failing writes, crashes and
\* commands.  It bounds what is waited for: an executor that outlived its
\* time-out may work beside it (CronScheduler.runJob, executeWithTimeout).
THEOREM OneAwaitedRun ==
  ASSUME CronAssumption
  PROVE  Spec => []AwaitedOnce
<1>1. IInv => AwaitedOnce
  BY DEF IInv
<1> QED BY <1>1, Invariant, PTL


\* Users ask for one thing at a time.
LEMMA UserAsks ==
  ASSUME Bounded, User
  PROVE  Asked
BY DEF User, Pause, Resume, Delete, RunNow, Enable, Reschedule, Command, Asked, Bounded

\* A step that leaves the row of a job alone stops nothing and loses nothing.
LEMMA RowAlone ==
  ASSUME NEW j \in Jobs, RowsSound, rows'[j] = rows[j]
  PROVE  StopKept(j) /\ OccurrenceKept(j)
BY DEF StopKept, OccurrenceKept

\* What the end of a run writes keeps what a user has stopped.
LEMMA RecordedKeeps ==
  ASSUME RowsSound, NEW j \in Jobs, NEW ok \in BOOLEAN, rows[j] # Gone,
         NEW row \in {Recorded(j, ok), Counted(rows[j], ok)}
  PROVE  /\ row.state = rows[j].state
         /\ ~rows[j].enabled => ~row.enabled
         /\ row.due = rows[j].due \/ (ok /\ j \notin Reminders)
<1>1. rows[j] \in Row
  BY DEF RowsSound
<1>2. /\ Counted(rows[j], ok).state = rows[j].state
      /\ Counted(rows[j], ok).enabled = rows[j].enabled
      /\ Counted(rows[j], ok).due = rows[j].due
      /\ DOMAIN Counted(rows[j], ok) = DOMAIN rows[j]
  BY <1>1 DEF Counted, Row
<1>3. Recorded(j, ok) = Advanced(j, Counted(rows[j], ok), ok)
  BY DEF Recorded
<1> DEFINE counted == Counted(rows[j], ok)
<1>4. /\ Advanced(j, counted, ok).state = counted.state
      /\ ~counted.enabled => ~Advanced(j, counted, ok).enabled
      /\ Advanced(j, counted, ok).due = counted.due \/ (ok /\ j \notin Reminders)
  <2>1. DOMAIN counted = {"state", "enabled", "due", "errors"}
    BY <1>1, <1>2 DEF Row
  <2> HIDE DEF counted
  <2> QED BY <2>1 DEF Advanced
<1> QED BY <1>2, <1>3, <1>4


\* A step of a run touches the row of its job only.
LEMMA RunKeeps ==
  ASSUME CronAssumption, RowsSound, RunsSound, NEW k \in Numbers, Run(k), NEW j \in Jobs
  PROVE  StopKept(j) /\ OccurrenceKept(j)
<1> DEFINE i  == runs[k].job
           ok == runs[k].at = "succeeded"
<1>0. rows[j] \in Row /\ Sound(j, rows[j])
  BY DEF RowsSound
<1>1. CASE Execute(k) \/ TimeOut(k) \/ TurnAway(k)
  BY <1>1, RowAlone DEF Execute, TimeOut, TurnAway
<1>2. CASE Block(k)
  <2>1. CASE UNCHANGED rows
    BY <2>1, RowAlone
  <2>2. CASE /\ rows[i].state \notin {"completed", "gone"}
             /\ rows' = [rows EXCEPT ![i].state = "failed"]
    <3>1. CASE i # j
      BY <2>2, <3>1, RowAlone DEF RowsSound
    <3>2. CASE i = j
      <4>1. rows'[j] = [rows[j] EXCEPT !.state = "failed"]
        BY <2>2, <3>2 DEF RowsSound
      <4>2. rows'[j].state = "failed" /\ rows'[j].enabled = rows[j].enabled
              /\ rows'[j].due = rows[j].due
        BY <4>1, <1>0 DEF Row
      <4> QED BY <4>2, <2>2, <3>2 DEF StopKept, OccurrenceKept, Gone
    <3> QED BY <3>1, <3>2
  <2> QED BY <1>2, <2>1, <2>2 DEF Block
<1>3. CASE Record(k) \/ RecordFails(k)
  <2>1. /\ runs[k].at \in {"succeeded", "failed"} /\ runs'[k] # runs[k]
        /\ i \in Jobs
    BY <1>3, JobOfRun DEF Record, RecordFails, RunsSound, NoRun
  <2>2. PICK row \in {rows[i], Recorded(i, ok)} \cup
                     (IF rows[i] = Gone THEN {} ELSE {Counted(rows[i], ok)}) :
          rows' = [rows EXCEPT ![i] = row]
    BY <1>3 DEF Record, RecordFails
  <2>3. CASE i # j \/ row = rows[i] \/ rows[i] = Gone
    <3>1. rows'[j] = rows[j]
      BY <2>2, <2>3 DEF RowsSound, Recorded
    <3> QED BY <3>1, RowAlone
  <2>4. CASE i = j /\ rows[i] # Gone /\ row \in {Recorded(i, ok), Counted(rows[i], ok)}
    <3>1. /\ rows'[j].state = rows[j].state
          /\ ~rows[j].enabled => ~rows'[j].enabled
          /\ rows'[j].due = rows[j].due \/ (ok /\ j \notin Reminders)
      BY <2>2, <2>4, RecordedKeeps DEF RowsSound
    <3>2. StopKept(j)
      BY <2>4, <3>1 DEF StopKept
    <3>3. ok /\ j \notin Reminders => Ended(j, k)
      BY <2>1, <2>4 DEF Ended
    <3> QED BY <3>1, <3>2, <3>3 DEF OccurrenceKept
  <2> QED BY <2>2, <2>3, <2>4
<1>4. CASE Deliver(k)
  <2>1. /\ runs[k].at = "delivering" /\ runs'[k] # runs[k] /\ i \in Jobs
        /\ rows' = [rows EXCEPT ![i] = IF i \in Reminders THEN Completed(@) ELSE @]
    BY <1>4, JobOfRun DEF Deliver, RunsSound, NoRun
  <2>2. CASE i # j \/ i \notin Reminders
    BY <2>1, <2>2, RowAlone DEF RowsSound
  <2>3. CASE i = j /\ i \in Reminders
    <3>1. rows'[j] = Completed(rows[j])
      BY <2>1, <2>3 DEF RowsSound
    <3>2. StopKept(j)
      BY <1>0, <3>1 DEF StopKept, Completed, CanTransition, Gone, Row
    <3>3. Ended(j, k)
      BY <2>1, <2>3 DEF Ended
    <3> QED BY <3>2, <3>3 DEF OccurrenceKept
  <2> QED BY <2>2, <2>3
<1> QED BY <1>1, <1>2, <1>3, <1>4 DEF Run, Proceed

\* A restart revives nothing, and what it completes or moves was overdue.
LEMMA BootKeepsRows ==
  ASSUME CronAssumption, RowsSound, Boot \/ BootFails, NEW j \in Jobs
  PROVE  StopKept(j) /\ OccurrenceKept(j)
<1>1. PICK restored, tooLate, chosen, begun, left :
        /\ restored[j] \in Recoveries(j)
        /\ tooLate \subseteq Reminders
        /\ begun \subseteq Scheduled(restored, chosen) /\ left \subseteq begun
        /\ Begin(restored, tooLate, chosen, begun, left)
  BY Restarts
<1>2. rows[j] \in Row /\ Sound(j, rows[j]) /\ ~up
  BY <1>1 DEF RowsSound, Begin
<1> DEFINE row == restored[j]
<1>3. /\ row \in Row
      /\ rows[j].state # "running" => row = rows[j]
      /\ rows[j].state = "running" => row.state \in {"running", "scheduled"}
      /\ row.enabled = rows[j].enabled
      /\ row.state = "completed" => rows[j].state = "completed"
  BY <1>1, <1>2 DEF Recoveries, Recovered, Restored, Row, Times
<1>4. rows'[j] = IF j \in left THEN [row EXCEPT !.state = "running"]
                 ELSE Expired(j, row, tooLate)
  BY <1>1 DEF Begin
<1>5. j \in left => row.state = "scheduled"
  BY <1>1 DEF Scheduled
<1> HIDE DEF row
<1>6. CASE j \in left
  <2>1. /\ rows'[j].state = "running" /\ rows'[j].enabled = row.enabled
        /\ rows'[j].due = row.due
    BY <1>3, <1>4, <1>6 DEF Row
  <2> QED BY <1>2, <1>3, <1>5, <1>6, <2>1 DEF StopKept, OccurrenceKept, Overdue, Gone
<1>7. CASE j \notin left
  <2>1. /\ rows'[j] = row \/ rows'[j].state = "completed"
        /\ rows'[j].enabled = row.enabled
        /\ ~row.enabled => rows'[j] = row
        /\ rows'[j] = row \/ row.state = "completed" \/ j \in Reminders
    BY <1>1, <1>3, <1>4, <1>7 DEF Expired, Row
  <2>2. StopKept(j)
    BY <1>2, <1>3, <2>1 DEF StopKept, Gone
  <2>3. OccurrenceKept(j)
    BY <1>2, <1>3, <2>1 DEF OccurrenceKept, Overdue, Sound, Due
  <2> QED BY <2>2, <2>3
<1> QED BY <1>6, <1>7

\* Every step is asked for by a user, or keeps what was stopped and what is due.
LEMMA StepKeeps ==
  ASSUME CronAssumption, IInv, [Next]_vars, ~Asked, NEW j \in Jobs
  PROVE  StopKept(j) /\ OccurrenceKept(j)
<1> USE DEF IInv
<1>1. CASE User
  BY <1>1, UserAsks
<1>2. ASSUME NEW i \in Jobs, Age(i) PROVE StopKept(j) /\ OccurrenceKept(j)
  <2>1. rows[i] \in Row /\ rows[j] \in Row /\ rows[i].due = "later" /\ rows[i] # Gone
    BY <1>2 DEF Age, RowsSound, Gone
  <2>2. CASE i # j
    BY <1>2, <2>2, RowAlone DEF Age, RowsSound
  <2>3. CASE i = j
    <3>1. rows'[j] = [rows[j] EXCEPT !.due = "now"]
      BY <1>2, <2>3 DEF Age, RowsSound
    <3> QED BY <2>1, <2>3, <3>1 DEF StopKept, OccurrenceKept, Row, Due
  <2> QED BY <2>2, <2>3
<1>3. ASSUME NEW i \in Jobs, Start(i) PROVE StopKept(j) /\ OccurrenceKept(j)
  <2>1. rows[i] \in Row /\ rows[j] \in Row /\ rows[i].state = "scheduled" /\ rows[i] # Gone
    BY <1>3 DEF Start, RowsSound, Gone
  <2>2. CASE rows'[j] = rows[j]
    BY <2>2, RowAlone
  <2>3. CASE i = j /\ rows'[j] = [rows[j] EXCEPT !.state = "running"]
    BY <2>1, <2>3 DEF StopKept, OccurrenceKept, Row
  <2> QED BY <1>3, <2>1, <2>2, <2>3 DEF Start, RowsSound
<1>4. ASSUME NEW k \in Numbers, Run(k) PROVE StopKept(j) /\ OccurrenceKept(j)
  BY <1>4, RunKeeps
<1>5. CASE Crash
  BY <1>5, RowAlone DEF Crash
<1>6. CASE Boot \/ BootFails
  BY <1>6, BootKeepsRows
<1>7. CASE UNCHANGED vars
  BY <1>7, RowAlone DEF vars
<1>8. CASE \E i \in Jobs : DriftEnds(i)
  BY <1>8, RowAlone DEF DriftEnds
<1> QED BY <1>1, <1>2, <1>3, <1>4, <1>5, <1>6, <1>7, <1>8 DEF Next, Scheduler

\* What a user has paused, deleted or disabled, and what was blocked or
\* completed, stays so until a user says otherwise, whatever runs go on and
\* whatever crashes (CronScheduler.runJob, recoverInterruptedJobs,
\* catchUpMissedJobs).
THEOREM StoppedStays ==
  ASSUME CronAssumption
  PROVE  Spec => StopIsKept
<1>1. IInv /\ [Next]_vars => [Asked \/ \A j \in Jobs : StopKept(j)]_vars
  BY StepKeeps
<1> QED BY <1>1, Invariant, PTL DEF Spec, StopIsKept

\* A due job ceases to be due only by the end of a run of its own or by a
\* restart that finds it too late or left running (CronScheduler.runJob,
\* catchUpMissedJobs).
THEOREM OccurrencesAreRun ==
  ASSUME CronAssumption
  PROVE  Spec => OccurrenceIsRun
<1>1. IInv /\ [Next]_vars => [Asked \/ \A j \in Jobs : OccurrenceKept(j)]_vars
  BY StepKeeps
<1> QED BY <1>1, Invariant, PTL DEF Spec, OccurrenceIsRun


-----------------------------------------------------------------------------
(* How many executors are waited for.                                       *)

AwaitedRuns == {k \in Numbers : runs[k].at = "running"}

\* A tick stops at maxParallelJobs; the catch-up of a restart has a limit of its own.
SlotsBounded == activeJobs <= MaxParallel \/ activeJobs <= CatchUp

\* Each run that waits has a job in flight of its own.
LEMMA AwaitedInSlots ==
  ASSUME CronAssumption, IInv
  PROVE  Cardinality(AwaitedRuns) <= activeJobs
<1> USE DEF IInv
<1>1. IsFiniteSet(inFlight)
  BY FS_Subset DEF RunsSound, CronAssumption
<1> DEFINE f == [k \in AwaitedRuns |-> runs[k].job]
<1>2. f \in [AwaitedRuns -> inFlight]
  BY DEF AwaitedRuns, AwaitedOnce
<1>3. ASSUME NEW i \in AwaitedRuns, NEW k \in AwaitedRuns, f[i] = f[k]
      PROVE  i = k
  <2>1. i \in Numbers /\ k \in Numbers /\ runs[i].at = "running" /\ runs[k].at = "running"
    BY DEF AwaitedRuns
  <2>2. /\ runs[i] \in [job : Jobs, at : {"running", "succeeded", "failed", "delivering"}]
        /\ runs[k] \in [job : Jobs, at : {"running", "succeeded", "failed", "delivering"}]
    BY <2>1, JobOfRun
  <2>3. runs[k] = runs[i]
    BY <1>3, <2>1, <2>2
  <2> QED BY <2>1, <2>3 DEF AwaitedOnce
<1>4. f \in Injection(AwaitedRuns, inFlight)
  <2>1. IsInjective(f)
    BY <1>3, Zenon DEF IsInjective
  <2> QED BY <1>2, <2>1 DEF Injection
<1>5. Cardinality(AwaitedRuns) <= Cardinality(inFlight)
  <2> HIDE DEF f
  <2> QED BY <1>1, <1>4, FS_Injection
<1> QED BY <1>5 DEF AwaitedOnce

LEMMA SlotsStep ==
  ASSUME CronAssumption, IInv, SlotsBounded, [Next]_vars
  PROVE  SlotsBounded'
<1> USE DEF SlotsBounded, CronAssumption
<1>1. IsFiniteSet(inFlight) /\ activeJobs \in Nat
  BY InvTypes, FS_Subset, FS_CardinalityType DEF IInv, RunsSound, TypeOK
<1>2. CASE UNCHANGED activeJobs  BY <1>2
<1>3. ASSUME NEW j \in Jobs, Start(j) PROVE SlotsBounded'
  BY <1>1, <1>3 DEF Start
<1>4. ASSUME NEW k \in Numbers, Run(k), ~UNCHANGED activeJobs PROVE SlotsBounded'
  <2>1. activeJobs' = activeJobs - 1
    BY <1>4 DEF Run, Proceed, Execute, TimeOut, Block, TurnAway, Record, RecordFails, Deliver,
       Land, memory
  <2>2. QED  BY <1>1, <2>1
<1>5. CASE Crash  BY <1>5 DEF Crash
<1>6. CASE Boot \/ BootFails  BY <1>6, Restarts DEF Begin
<1>7. CASE User \/ \E j \in Jobs : Age(j) \/ DriftEnds(j)
  BY <1>2, <1>7 DEF User, Pause, Resume, Delete, RunNow, Enable, Reschedule, Age, DriftEnds, memory
<1> QED BY <1>2, <1>3, <1>4, <1>5, <1>6, <1>7 DEF Next, Scheduler, vars, memory

\* Never more runs wait for an executor at once than maxParallelJobs, or after a
\* restart than the limit of the catch-up, and no run waits without a slot,
\* whatever is due, fails, is turned away or crashes.  The executors that outlived
\* their time-out are not among them (CronScheduler.tick, catchUpMissedJobs).
THEOREM FewAwaited ==
  ASSUME CronAssumption
  PROVE  Spec => [](SlotsBounded /\ Cardinality(AwaitedRuns) <= activeJobs)
<1>1. Init => SlotsBounded
  BY DEF Init, SlotsBounded, CronAssumption
<1>2. IInv /\ SlotsBounded /\ [Next]_vars => SlotsBounded'
  BY SlotsStep
<1>3. IInv => Cardinality(AwaitedRuns) <= activeJobs
  BY AwaitedInSlots
<1> QED BY <1>1, <1>2, <1>3, Invariant, PTL DEF Spec

=============================================================================
