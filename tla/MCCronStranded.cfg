CONSTANTS
  job = job
  reminder = reminder
  Jobs = {job, reminder}
  Reminders = {reminder}
  MaxParallel = 2
  CatchUp = 2
  MaxErrors = 2
  MaxRuns = 2
  MaxFaults = 0
  MaxCrashes = 1
  MaxCommands = 1
SPECIFICATION Spec
INVARIANTS
  InFlightIsExecuting
CHECK_DEADLOCK FALSE
