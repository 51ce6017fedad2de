\* Pairs of calls of schedule(), dates with two sub steps, tasks that edit jobs.
CONSTANTS
  ja = ja
  jb = jb
  Sub = 2
  Dates = {1, 2}
  Periods = {1, 2}
  Job = {ja, jb}
  Task = {t, u, v}
  FirstTasks = {t, u}
  JobLists <- MCJobLists
  Starts = {1}
  Ends = {5}
  MaxCalls = 2
  MaxEdits = 1
  MaxRuns = 2
SPECIFICATION Spec
INVARIANTS TypeOK EpochIsSchedule ExecutionOrder RunComplete
PROPERTIES TasksAllRun RunEnds
CHECK_DEADLOCK FALSE
