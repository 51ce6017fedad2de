----------------------------- MODULE Scheduling -----------------------------
(***************************************************************************)
(* Scheduler, Epoch and Job (scheduler/scheduler.cpp) and the Runtime that *)
(* executes them (runtime/runtime.cpp).  Tasks of a running job may        *)
(* schedule jobs, edit jobs and set the date of the runtime.               *)
(*                                                                         *)
(* A Date is a float: it is modelled in units of 1/Sub step, and sums of   *)
(* dates are rounded to the 24 bits of a float significand.                *)
(***************************************************************************)
EXTENDS Integers, Sequences, SequencesExt, FiniteSets

CONSTANTS Sub,        \* resolution: units per time step
          Dates,      \* dates given to schedule(), as start and as end
          Periods,    \* periods given to schedule()
          Job, Task,
          FirstTasks, \* tasks of each job before the first run
          JobLists,   \* lists of jobs given to schedule()
          Starts,     \* dates given to run() as start and to setCurrentDate()
          Ends,       \* dates given to run() as end
          MaxCalls,   \* bound: calls of schedule()
          MaxEdits,   \* bound: calls of Job::add() and Job::remove()
          MaxRuns     \* bound: calls of run() and setCurrentDate()

ASSUME SchedulingAssumption ==
  /\ Sub \in Nat \ {0}
  /\ Dates \subseteq Nat /\ Starts \subseteq Nat /\ Ends \subseteq Nat
  /\ Periods \subseteq Nat \ {0}
  /\ \A l \in JobLists : l \in Seq(Job)
  /\ FirstTasks \subseteq Task
  /\ MaxCalls \in Nat /\ MaxEdits \in Nat /\ MaxRuns \in Nat

VARIABLES
  unique, recurring, limited,  \* what is scheduled, in the order of the calls
  tasks,     \* Job::tasks() of each job; they are shuffled before they run
  stage,     \* where Runtime::run() is
  date,      \* Runtime::date
  time, end, \* variables of the loop of run()
  epoch,     \* jobs of the current step with their sub steps
  pos,       \* index in epoch of the next job, or of the job being executed
  pending,   \* tasks of that job that have not run yet
  \* history
  calls, edits, runs,  \* numbers of calls
  start,     \* start of the last run
  before,    \* numbers of the calls of schedule() known when it started
  known,     \* numbers of the calls known when the epoch was built
  log,       \* jobs executed by the last run
  stayed, ran  \* tasks in the job since it began; tasks of it that have run

scheduler == <<unique, recurring, limited>>
runtime == <<stage, date, time, end, epoch, pos, pending>>
history == <<calls, edits, runs, start, before, known, log, stayed, ran>>
vars == <<scheduler, tasks, runtime, history>>

TimeStep(d) == d \div Sub
SubTimeStep(d) == d % Sub

\* Dates of less than 2^24 units are exact.
Exact == 16777216

\* A sum of dates as a float: above, the nearest multiple of the unit in the last
\* place, and the even one of two.
Round(d) ==
  LET ulp == IF d < Exact THEN 1 ELSE IF d < 2 * Exact THEN 2 ELSE 4
      q == d \div ulp
      r == d % ulp
  IN  IF 2 * r < ulp \/ (2 * r = ulp /\ q % 2 = 0) THEN q * ulp ELSE (q + 1) * ulp

Scheduled == Range(unique) \cup Range(recurring) \cup Range(limited)

NoEnd == -1

\* What schedule() is called for; the period of what occurs once is 0.
Item == [id : 1 .. MaxCalls, start : Dates, period : Periods \cup {0},
         end : Dates \cup {NoEnd}, jobs : JobLists]

Entry == [id : 1 .. MaxCalls, sub : 0 .. Sub-1, job : Job]

TypeOK ==
  /\ unique \in Seq(Item) /\ recurring \in Seq(Item) /\ limited \in Seq(Item)
  /\ calls \in 0 .. MaxCalls /\ \A i \in Scheduled : i.id <= calls
  /\ tasks \in [Job -> SUBSET Task]
  /\ stage \in {"idle", "step", "jobs", "tasks"}
  /\ date \in Nat /\ time \in Nat /\ end \in Nat
  /\ epoch \in Seq(Entry)
  /\ pos \in 1 .. Len(epoch) + 1
  /\ pending \subseteq Task
  /\ stage = "tasks" => pos <= Len(epoch)

Init ==
  /\ unique = <<>> /\ recurring = <<>> /\ limited = <<>>
  /\ tasks = [i \in Job |-> FirstTasks]
  /\ stage = "idle" /\ date = 0 /\ time = 0 /\ end = 0
  /\ epoch = <<>> /\ pos = 1 /\ pending = {}
  /\ calls = 0 /\ edits = 0 /\ runs = 0
  /\ start = 0 /\ before = {} /\ known = {} /\ log = <<>>
  /\ stayed = {} /\ ran = {}

-----------------------------------------------------------------------------
(* Scheduler *)

\* The user calls between runs, and tasks call during them.
Callable == stage \in {"idle", "tasks"}

\* The six schedule() functions: a job is a list of one job.
Schedule ==
  /\ Callable
  /\ calls < MaxCalls
  /\ calls' = calls + 1
  /\ \E s \in Dates, l \in JobLists :
       LET New(period, e) ==
             [id |-> calls + 1, start |-> s, period |-> period, end |-> e, jobs |-> l]
       IN  \/ /\ unique' = Append(unique, New(0, NoEnd))
              /\ UNCHANGED <<recurring, limited>>
           \/ \E p \in Periods :
                /\ recurring' = Append(recurring, New(p, NoEnd))
                /\ UNCHANGED <<unique, limited>>
           \/ \E p \in Periods, e \in Dates :
                /\ limited' = Append(limited, New(p, e))
                /\ UNCHANGED <<unique, recurring>>
  /\ UNCHANGED <<tasks, runtime, edits, runs, start, before, known, log, stayed, ran>>

Entries(item) ==
  [k \in 1 .. Len(item.jobs) |->
     [id |-> item.id, sub |-> SubTimeStep(item.start), job |-> item.jobs[k]]]

\* Mutant of Submit: a list is inserted before the jobs of its sub step.
SubmitBefore(jobs, item) ==
  LET later == SelectInSeq(jobs, LAMBDA j : SubTimeStep(item.start) <= j.sub)
      k == IF later = 0 THEN Len(jobs) ELSE later - 1
  IN  SubSeq(jobs, 1, k) \o Entries(item) \o SubSeq(jobs, k+1, Len(jobs))

\* Epoch::submit(): a list is inserted before the first job of a later sub step.
Submit(jobs, item) ==
  LET later == SelectInSeq(jobs, LAMBDA j : SubTimeStep(item.start) < j.sub)
      k == IF later = 0 THEN Len(jobs) ELSE later - 1
  IN  SubSeq(jobs, 1, k) \o Entries(item) \o SubSeq(jobs, k+1, Len(jobs))

\* The items of S are submitted, in the order they were scheduled in.
SubmitAll(jobs, items, S) ==
  LET after[n \in 0 .. Len(items)] ==
        IF n = 0 THEN jobs
        ELSE IF items[n] \in S THEN Submit(after[n-1], items[n]) ELSE after[n-1]
  IN  after[Len(items)]

\* They are submitted in the order of their keys in a std::map, their start steps;
\* -1 is before the first one.
SubmitByStart(jobs, items, S) ==
  LET at == {-1} \cup {TimeStep(i.start) : i \in S}
      after[k \in at] ==
        IF k = -1 THEN jobs
        ELSE SubmitAll(after[Max({m \in at : m < k})], items, {i \in S : TimeStep(i.start) = k})
  IN  after[Max(at)]

\* Mutant of Recurs: the first occurrence is missed.
RecursLater(item, step) ==
  step > TimeStep(item.start) /\ (step - TimeStep(item.start)) % item.period = 0

Recurs(item, step) == (step - TimeStep(item.start)) % item.period = 0

\* Scheduler::build()
Build(step) ==
  LET once == {i \in Range(unique) : TimeStep(i.start) = step}
      started(items) == {i \in Range(items) : TimeStep(i.start) <= step /\ Recurs(i, step)}
      until == {i \in started(limited) : Round(step * Sub + SubTimeStep(i.start)) < i.end}
  IN  SubmitByStart(
        SubmitByStart(SubmitAll(<<>>, unique, once), recurring, started(recurring)),
        limited, until)

-----------------------------------------------------------------------------
(* Job *)

\* Job::add(), of a task that is not in the job.
AddTask ==
  /\ Callable /\ edits < MaxEdits
  /\ \E j \in Job : \E t \in Task \ tasks[j] :
       tasks' = [tasks EXCEPT ![j] = @ \cup {t}]
  /\ edits' = edits + 1
  /\ UNCHANGED <<scheduler, runtime, calls, runs, start, before, known, log, stayed, ran>>

\* Job::remove()
RemoveTask ==
  /\ Callable /\ edits < MaxEdits
  /\ \E j \in Job : \E t \in Task :
       /\ tasks' = [tasks EXCEPT ![j] = @ \ {t}]
       /\ stayed' = IF stage = "tasks" /\ epoch[pos].job = j THEN stayed \ {t} ELSE stayed
  /\ edits' = edits + 1
  /\ UNCHANGED <<scheduler, runtime, calls, runs, start, before, known, log, ran>>

-----------------------------------------------------------------------------
(* Runtime *)

CallOfRuntime ==
  /\ runs < MaxRuns
  /\ runs' = runs + 1
  /\ UNCHANGED <<scheduler, tasks, calls, edits, known, stayed, ran>>

\* run(start, end), and run(end), which starts at the current date.
Run ==
  /\ stage = "idle"
  /\ CallOfRuntime
  /\ \E s \in Starts \cup {date}, e \in Ends :
       time' = s /\ start' = s /\ end' = e
  /\ stage' = "step"
  /\ before' = {i.id : i \in Scheduled}
  /\ log' = <<>>
  /\ UNCHANGED <<date, epoch, pos, pending>>

SetCurrentDate ==
  /\ Callable
  /\ CallOfRuntime
  /\ \E d \in Starts : date' = d
  /\ UNCHANGED <<stage, time, end, epoch, pos, pending, start, before, log>>

\* Mutant of BuildEpoch: the loop over the jobs goes on where it ended.
BuildEpochOnly ==
  /\ stage = "step" /\ time < end
  /\ date' = time
  /\ epoch' = Build(TimeStep(time))
  /\ stage' = "jobs"
  /\ known' = {i.id : i \in Scheduled}
  /\ UNCHANGED <<scheduler, tasks, time, end, pos, pending, calls, edits, runs, start,
                 before, log, stayed, ran>>

\* A new step of the loop of run().
BuildEpoch ==
  /\ stage = "step" /\ time < end
  /\ date' = time
  /\ epoch' = Build(TimeStep(time))
  /\ pos' = 1
  /\ stage' = "jobs"
  /\ known' = {i.id : i \in Scheduled}
  /\ UNCHANGED <<scheduler, tasks, time, end, pending, calls, edits, runs, start,
                 before, log, stayed, ran>>

\* The loop of run() ends.
EndRun ==
  /\ stage = "step" /\ time >= end
  /\ stage' = "idle"
  /\ UNCHANGED <<scheduler, tasks, date, time, end, epoch, pos, pending, history>>

\* execute(): the begin task has run, the tasks are copied and shuffled.
BeginJob ==
  /\ stage = "jobs" /\ pos <= Len(epoch)
  /\ pending' = tasks[epoch[pos].job]
  /\ stayed' = pending' /\ ran' = {}
  /\ stage' = "tasks"
  /\ UNCHANGED <<scheduler, tasks, date, time, end, epoch, pos, calls, edits, runs,
                 start, before, known, log>>

\* execute(): a task runs.
RunTask ==
  /\ stage = "tasks"
  /\ \E t \in pending : pending' = pending \ {t} /\ ran' = ran \cup {t}
  /\ UNCHANGED <<scheduler, tasks, stage, date, time, end, epoch, pos, calls, edits,
                 runs, start, before, known, log, stayed>>

Executed(entry, step) == [step |-> step, entry |-> entry]

\* Mutant of EndJob: the loop runs over the tasks the job has now.
EndJobEarly ==
  /\ stage = "tasks" /\ Cardinality(ran) >= Cardinality(tasks[epoch[pos].job])
  /\ pending' = {}
  /\ log' = Append(log, Executed(epoch[pos], TimeStep(time)))
  /\ pos' = pos + 1
  /\ stage' = "jobs"
  /\ UNCHANGED <<scheduler, tasks, date, time, end, epoch, calls, edits, runs, start,
                 before, known, stayed, ran>>

\* execute(): the end task has run.
EndJob ==
  /\ stage = "tasks" /\ pending = {}
  /\ log' = Append(log, Executed(epoch[pos], TimeStep(time)))
  /\ pos' = pos + 1
  /\ stage' = "jobs"
  /\ UNCHANGED <<scheduler, tasks, date, time, end, epoch, pending, calls, edits, runs,
                 start, before, known, stayed, ran>>

\* Mutant of EndStep: the step is not incremented after a step without jobs.
EndStepIdle ==
  /\ stage = "jobs" /\ pos > Len(epoch)
  /\ time' = IF epoch = <<>> THEN time ELSE Round(time + Sub)
  /\ stage' = "step"
  /\ UNCHANGED <<scheduler, tasks, date, end, epoch, pos, pending, history>>

\* time++
EndStep ==
  /\ stage = "jobs" /\ pos > Len(epoch)
  /\ time' = Round(time + Sub)
  /\ stage' = "step"
  /\ UNCHANGED <<scheduler, tasks, date, end, epoch, pos, pending, history>>

RunStep == BuildEpoch \/ EndRun \/ BeginJob \/ RunTask \/ EndJob \/ EndStep

Next == Schedule \/ AddTask \/ RemoveTask \/ Run \/ SetCurrentDate \/ RunStep

\* run() is a sequential program: it goes on as long as its tasks end.
Spec == Init /\ [][Next]_vars /\ WF_vars(RunStep)

-----------------------------------------------------------------------------
(* Properties *)

\* What the documentation of schedule() says: the item has an occurrence in step.
Due(item, step) ==
  \E n \in 0 .. step :
    LET d == item.start + n * item.period * Sub
    IN  /\ item.period = 0 => n = 0
        /\ TimeStep(d) = step
        /\ item.end # NoEnd => d < item.end

\* The elements of S that are in seq are list, in one piece.
Block(seq, list, S) ==
  \E m \in 0 .. Len(seq) - Len(list) : \A n \in 1 .. Len(seq) :
    IF n \in m + 1 .. m + Len(list) THEN seq[n] = list[n - m] ELSE seq[n] \notin S

Of(id) == {j \in Range(epoch) : j.id = id}

(* The epoch of a step is what is scheduled for it: each list that has an    *)
(* occurrence in the step is in the epoch once, in one piece, in the order   *)
(* of the sub steps (Scheduler::build, Epoch::submit).                       *)
EpochIsSchedule ==
  stage \in {"jobs", "tasks"} =>
    /\ \A i \in Scheduled :
         LET due == i.id \in known /\ Due(i, TimeStep(time))
         IN  Block(epoch, IF due THEN Entries(i) ELSE <<>>, Of(i.id))
    /\ \A m, n \in 1 .. Len(epoch) : m < n => epoch[m].sub <= epoch[n].sub

(* Jobs are executed in the order of their dates over all the steps of a    *)
(* run, whatever its tasks schedule meanwhile, and lists of an epoch with    *)
(* the same date, kind and start step in the order they were scheduled in.   *)
ExecutionOrder ==
  /\ \A m, n \in 1 .. Len(log) : m < n =>
       log[m].step * Sub + log[m].entry.sub <= log[n].step * Sub + log[n].entry.sub
  /\ \A items \in {unique, recurring, limited} : \A a, b \in Range(items) :
       a.id < b.id /\ a.start = b.start =>
         \A m, n \in 1 .. Len(epoch) : epoch[m].id = a.id /\ epoch[n].id = b.id => m < n

\* The jobs of item i executed in step k.
Executions(i, k) == [n \in 1 .. Len(i.jobs) |-> Executed(Entries(i)[n], k)]

(* A run misses and repeats nothing: each list scheduled before it started   *)
(* has been executed once for each of its occurrences in the steps run.      *)
RunComplete ==
  stage \in {"step", "idle"} /\ runs > 0 =>
    \A i \in Scheduled : i.id \in before =>
      \A k \in TimeStep(start) .. TimeStep(time) :
        LET due == k < TimeStep(time) /\ Due(i, k)
        IN  Block(log, IF due THEN Executions(i, k) ELSE <<>>,
                  {j \in Range(log) : j.step = k /\ j.entry.id = i.id})

(* Each task that stays in a job while the job is executed runs, whatever    *)
(* the tasks add to or remove from it (Runtime::execute copies the list).    *)
TasksAllRun ==
  [][stage = "tasks" /\ stage' = "jobs" => stayed \subseteq ran]_vars

(* run() ends.                                                               *)
RunEnds == stage = "step" ~> stage = "idle"
=============================================================================
