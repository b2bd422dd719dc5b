----------------------------- MODULE Scheduler ------------------------------
(***************************************************************************)
(* The cron scheduler: rows of scheduled_jobs, the timers the daemon keeps *)
(* for them, and the commands that edit the rows.  A timer is a task that  *)
(* sleeps until a fire time of its job, reads the row, runs the job's      *)
(* action and sleeps again; running_jobs holds the handles to abort them.  *)
(* start, run once by the daemon as it boots, first executes what was      *)
(* missed while no daemon ran and then spawns the timers.  The schedule_   *)
(* task tool calls the scheduler inside the daemon; the CLI opens the same *)
(* database in a process of its own, where running_jobs is empty.          *)
(*                                                                         *)
(* Time is abstracted to its passing: of a fire time only matters whether  *)
(* it has gone by, for the row (next_run_at < now) and for a sleep.        *)
(***************************************************************************)
EXTENDS Naturals

CONSTANTS
  Jobs,        \* the cron jobs that may ever be registered (ids are fresh)
  SkipJobs,    \* those whose missed_policy is "skip"
  Finite,      \* those whose cron expression names years: its fire times end
  MaxCrashes,  \* bound: how often the daemon dies
  DbMayFail    \* may a statement or the connection pool return an error?

ASSUME JobsAssumption == SkipJobs \subseteq Jobs /\ Finite \subseteq Jobs
ASSUME BoundAssumption == MaxCrashes \in Nat
ASSUME DbAssumption == DbMayFail \in BOOLEAN

VARIABLES
  row,          \* row[j]: the status column, "unborn" or "deleted" without a row
  due,          \* due[j]: the row's next_run_at has gone by
  over,         \* the jobs whose cron expression has no fire time left
  phase,        \* where the daemon's call of start is
  missed,       \* start: the jobs it has found due and not handled yet
  unscheduled,  \* start: the jobs it has found active and not given a timer yet
  spawned,      \* start: the job whose handle it waits to put into running_jobs
  timer,        \* timer[j]: the task of job j, "none" when there is none
  exec,         \* exec[a][j]: how far executor a is with execute_action for j
  handles,      \* the jobs with an entry in running_jobs
  aborts,       \* the abort tasks that delete has spawned
  owed,         \* history: jobs whose run a crash cut short, not begun again
  crashes       \* history: how often the daemon has died

rows == <<row, due, over>>
boot == <<phase, missed, unscheduled, spawned>>
tasks == <<timer, exec, handles, aborts>>
history == <<owed, crashes>>
vars == <<rows, boot, tasks, history>>

Executors == {"start", "timer"}
HasRow(j) == row[j] \in {"active", "paused"}
Executing(j) == \E a \in Executors : exec[a][j] # "idle"
StartBusy == \E j \in Jobs : exec["start"][j] # "idle"

Init ==
  /\ row = [j \in Jobs |-> "unborn"]
  /\ due = [j \in Jobs |-> FALSE]
  /\ over \in SUBSET Finite
  /\ phase = "down"
  /\ missed = {} /\ unscheduled = {} /\ spawned = {}
  /\ timer = [j \in Jobs |-> "none"]
  /\ exec = [a \in Executors |-> [j \in Jobs |-> "idle"]]
  /\ handles = {} /\ aborts = {} /\ owed = {}
  /\ crashes = 0

-----------------------------------------------------------------------------
(* register, from the CLI or the schedule_task tool: it inserts the row and *)
(* starts no timer.                                                         *)
Register(j) ==
  /\ row[j] = "unborn"
  /\ row' = [row EXCEPT ![j] = "active"]
  /\ UNCHANGED <<due, over, boot, tasks, history>>

(* pause and resume, which only the CLI calls: its running_jobs is empty. *)
Pause(j) ==
  /\ HasRow(j)
  /\ row' = [row EXCEPT ![j] = "paused"]
  /\ UNCHANGED <<due, over, boot, tasks, history>>

Resume(j) ==
  /\ HasRow(j)
  /\ row' = [row EXCEPT ![j] = "active"]
  /\ UNCHANGED <<due, over, boot, tasks, history>>

(* delete; in the daemon it also spawns a task that aborts the timer. *)
Delete(j) ==
  /\ HasRow(j)
  /\ row' = [row EXCEPT ![j] = "deleted"]
  /\ due' = [due EXCEPT ![j] = FALSE]
  /\ \/ UNCHANGED aborts
     \/ phase # "down" /\ aborts' = aborts \cup {j}
  /\ UNCHANGED <<over, boot, timer, exec, handles, history>>

(* The task that delete spawned.  An abort lands at an await: not between  *)
(* the two statements of record_run.                                       *)
Abort(j) ==
  /\ j \in aborts
  /\ aborts' = aborts \ {j}
  /\ IF j \in handles
       THEN /\ exec["timer"][j] # "counted"
            /\ handles' = handles \ {j}
            /\ timer' = [timer EXCEPT ![j] = "none"]
            /\ exec' = [exec EXCEPT !["timer"][j] = "idle"]
       ELSE UNCHANGED <<handles, timer, exec>>
  /\ UNCHANGED <<rows, boot, history>>

-----------------------------------------------------------------------------
(* A fire time of j goes by, the last one perhaps. *)
Elapse(j) ==
  /\ j \notin over
  /\ over' \in {over, over \cup ({j} \cap Finite)}
  /\ due' = [due EXCEPT ![j] = due[j] \/ HasRow(j)]
  /\ timer' = [timer EXCEPT ![j] = IF timer[j] = "sleeping" THEN "rung" ELSE timer[j]]
  /\ UNCHANGED <<row, boot, exec, handles, aborts, history>>

(* execute_action begins: the handler is called and awaited. *)
Execute(a, j) ==
  /\ exec' = [exec EXCEPT ![a][j] = "running"]
  /\ owed' = owed \ {j}

(* Slip: a row that is gone or not active is waited for. *)
WakeRetries(j) ==
  /\ timer[j] = "rung"
  /\ timer' = [timer EXCEPT ![j] = IF row[j] = "active" THEN "running" ELSE "sleeping"]
  /\ IF row[j] = "active" THEN Execute("timer", j) ELSE UNCHANGED <<exec, owed>>
  /\ UNCHANGED <<rows, boot, handles, aborts, crashes>>

(* Slip: the row is written before the run. *)
WakeAdvances(j) ==
  /\ timer[j] = "rung" /\ row[j] = "active"
  /\ timer' = [timer EXCEPT ![j] = "running"]
  /\ due' = [due EXCEPT ![j] = FALSE]
  /\ Execute("timer", j)
  /\ UNCHANGED <<row, over, boot, handles, aborts, crashes>>

(* The timer's sleep is over: it reads the row, and leaves its loop when   *)
(* there is none, when it is not active, or when the read fails.  The      *)
(* entry in running_jobs stays.                                            *)
Wake(j) ==
  /\ timer[j] = "rung"
  /\ \/ /\ row[j] = "active"
        /\ timer' = [timer EXCEPT ![j] = "running"]
        /\ Execute("timer", j)
     \/ /\ row[j] # "active" \/ DbMayFail
        /\ timer' = [timer EXCEPT ![j] = "none"]
        /\ UNCHANGED <<exec, owed>>
  /\ UNCHANGED <<rows, boot, handles, aborts, crashes>>

(* execute_action returns, with or without error: a timer sleeps until the *)
(* next fire time, and ends when there is none.                            *)
Finish(a, j) ==
  /\ exec' = [exec EXCEPT ![a][j] = "idle"]
  /\ timer' = IF a = "start" THEN timer
              ELSE [timer EXCEPT ![j] = IF j \in over THEN "none" ELSE "sleeping"]

(* The handler returns and record_run counts the run (or the error), its   *)
(* first UPDATE.  It may fail, and then record_run is over.                *)
Count(a, j) ==
  /\ exec[a][j] = "running"
  /\ \/ exec' = [exec EXCEPT ![a][j] = "counted"] /\ UNCHANGED timer
     \/ DbMayFail /\ Finish(a, j)
  /\ UNCHANGED <<rows, boot, handles, aborts, history>>

(* record_run reads the row again, through a second connection of the      *)
(* pool, and advances next_run_at; nothing happens when the row is gone or *)
(* there is no next fire time: then the row stays due.                     *)
Advance(a, j) ==
  /\ exec[a][j] = "counted"
  /\ \/ j \notin over /\ due' = [due EXCEPT ![j] = FALSE]
     \/ (DbMayFail \/ j \in over) /\ UNCHANGED due
  /\ Finish(a, j)
  /\ UNCHANGED <<row, over, boot, handles, aborts, history>>

-----------------------------------------------------------------------------
(* start returns an error: the daemon logs it and goes on. *)
StartFails ==
  /\ phase' = "failed"
  /\ missed' = {} /\ unscheduled' = {} /\ spawned' = {}

(* start lists the jobs; all it does later is decided on this list. *)
LoadJobs ==
  /\ phase = "down"
  /\ \/ /\ phase' = "starting"
        /\ unscheduled' = {j \in Jobs : row[j] = "active"}
        /\ missed' = {j \in unscheduled' : due[j]}
        /\ UNCHANGED spawned
     \/ DbMayFail /\ StartFails
  /\ UNCHANGED <<rows, tasks, history>>

(* handle_missed_triggers, one job after the other: run once ... *)
RunMissed(j) ==
  /\ j \in missed \ SkipJobs /\ ~StartBusy
  /\ missed' = missed \ {j}
  /\ Execute("start", j)
  /\ UNCHANGED <<rows, phase, unscheduled, spawned, timer, handles, aborts, crashes>>

(* ... or skip to the next fire time, if there is one.  A failing UPDATE   *)
(* is ignored, a pool that gives no connection ends start.                 *)
SkipMissed(j) ==
  /\ j \in missed \cap SkipJobs /\ ~StartBusy
  /\ \/ /\ missed' = missed \ {j}
        /\ \/ j \notin over /\ due' = [due EXCEPT ![j] = FALSE]
           \/ (DbMayFail \/ j \in over) /\ UNCHANGED due
        /\ UNCHANGED <<phase, unscheduled, spawned>>
     \/ DbMayFail /\ j \notin over /\ StartFails /\ UNCHANGED due
  /\ UNCHANGED <<row, over, tasks, history>>

(* Slip: the timers do not wait for the missed runs. *)
ScheduleAtOnce(j) ==
  /\ phase = "starting"
  /\ spawned = {} /\ j \in unscheduled
  /\ timer' = [timer EXCEPT ![j] = "sleeping"]
  /\ spawned' = {j}
  /\ UNCHANGED <<rows, phase, missed, unscheduled, exec, handles, aborts, history>>

(* schedule_cron_job for the next job of the list, when nothing is left to *)
(* catch up with: it spawns the timer, then waits for running_jobs.  A job *)
(* without a next fire time ends start, and the jobs after it get no timer. *)
Schedule(j) ==
  /\ phase = "starting" /\ missed = {} /\ ~StartBusy
  /\ spawned = {} /\ j \in unscheduled
  /\ IF j \in over
       THEN StartFails /\ UNCHANGED timer
       ELSE /\ timer' = [timer EXCEPT ![j] = "sleeping"]
            /\ spawned' = {j}
            /\ UNCHANGED <<phase, missed, unscheduled>>
  /\ UNCHANGED <<rows, exec, handles, aborts, history>>

KeepHandle(j) ==
  /\ j \in spawned
  /\ handles' = handles \cup {j}
  /\ unscheduled' = unscheduled \ {j}
  /\ spawned' = {}
  /\ UNCHANGED <<rows, phase, missed, timer, exec, aborts, history>>

StartReturns ==
  /\ phase = "starting" /\ unscheduled = {} /\ ~StartBusy
  /\ phase' = "up"
  /\ UNCHANGED <<rows, missed, unscheduled, spawned, tasks, history>>

(* The daemon dies.  The rows stay. *)
Crash ==
  /\ phase # "down" /\ crashes < MaxCrashes
  /\ crashes' = crashes + 1
  /\ owed' = owed \cup {j \in Jobs : \E a \in Executors : exec[a][j] = "running"}
  /\ phase' = "down"
  /\ missed' = {} /\ unscheduled' = {} /\ spawned' = {}
  /\ timer' = [j \in Jobs |-> "none"]
  /\ exec' = [a \in Executors |-> [j \in Jobs |-> "idle"]]
  /\ handles' = {} /\ aborts' = {}
  /\ UNCHANGED rows

Command(j) == Register(j) \/ Pause(j) \/ Resume(j) \/ Delete(j)

(* The tasks of the daemon: start, and one timer per job. *)
StartTask ==
  \/ LoadJobs \/ StartReturns
  \/ \E j \in Jobs : \/ RunMissed(j) \/ SkipMissed(j) \/ Schedule(j) \/ KeepHandle(j)
                     \/ Count("start", j) \/ Advance("start", j)
TimerTask(j) == Wake(j) \/ Count("timer", j) \/ Advance("timer", j)

Next ==
  \/ StartTask
  \/ \E j \in Jobs : TimerTask(j) \/ Command(j) \/ Abort(j) \/ Elapse(j)
  \/ Crash

Spec == Init /\ [][Next]_vars

(* Time passes, the runtime polls every task that is ready, the handler    *)
(* returns (agent runs are bounded) and a daemon that died is restarted.   *)
(* Commands and crashes are not forced.                                    *)
FairSpec ==
  /\ Spec
  /\ WF_vars(StartTask)
  /\ \A j \in Jobs : WF_vars(TimerTask(j)) /\ WF_vars(Abort(j)) /\ WF_vars(Elapse(j))

-----------------------------------------------------------------------------
(* The types; and start does one thing at a time, on what it found active. *)
TypeOK ==
  /\ row \in [Jobs -> {"unborn", "active", "paused", "deleted"}]
  /\ due \in [Jobs -> BOOLEAN] /\ over \subseteq Finite
  /\ phase \in {"down", "starting", "up", "failed"}
  /\ missed \subseteq unscheduled /\ spawned \subseteq unscheduled
  /\ unscheduled \subseteq Jobs
  /\ timer \in [Jobs -> {"none", "sleeping", "rung", "running"}]
  /\ exec \in [Executors -> [Jobs -> {"idle", "running", "counted"}]]
  /\ handles \subseteq Jobs /\ aborts \subseteq Jobs /\ owed \subseteq Jobs
  /\ crashes \in 0 .. MaxCrashes
  /\ \A i, j \in Jobs : exec["start"][i] # "idle" /\ exec["start"][j] # "idle" => i = j

(* A job is not executed twice at once, by start catching up and by the    *)
(* job's timer: start awaits every missed run before it spawns a timer.    *)
NoOverlap ==
  \A j \in Jobs : ~(exec["start"][j] # "idle" /\ exec["timer"][j] # "idle")

(* While a job runs its row still says that it is due, so that a daemon    *)
(* that dies in the middle of the run finds it missed when it starts.      *)
UnfinishedIsDue ==
  \A j \in Jobs : Executing(j) /\ HasRow(j) => due[j]

(* A run that a crash cut short is begun again before the job returns to   *)
(* its schedule (unless its policy is to skip), whatever was paused,       *)
(* resumed or failed in between.                                           *)
InterruptedRunsFirst ==
  \A j \in Jobs \ SkipJobs : j \in owed => timer[j] = "none"

(* When start is over a timer that lives can be aborted: delete finds it   *)
(* in running_jobs.                                                        *)
TimersAbortable ==
  phase \in {"up", "failed"} => {j \in Jobs : timer[j] # "none"} \subseteq handles

(* When start is over nothing but an active job begins to run. *)
OnlyActiveJobsFire ==
  [][\A j \in Jobs :
       phase \in {"up", "failed"} /\ ~Executing(j) /\ Executing(j)' => row[j] = "active"]_vars

(* A deleted job is gone for good: a run that ends later does not bring    *)
(* its row back.                                                           *)
DeletedForGood == [][\A j \in Jobs : row[j] = "deleted" => row'[j] = "deleted"]_vars

(* The timer of a deleted job ends, also when the CLI deleted the job and  *)
(* nobody aborted the timer.                                               *)
DeletedTimerEnds == \A j \in Jobs : row[j] = "deleted" ~> timer[j] = "none"

(* "Resume a paused job." (core/scheduler/src/lib.rs:384): a job that was  *)
(* paused and is active from some time on, while the daemon stays up, runs *)
(* again.                                                                  *)
ResumedJobRuns ==
  \A j \in Jobs \ Finite :
    [](row[j] = "paused" /\ <>[](row[j] = "active" /\ phase = "up") => <>Executing(j))
=============================================================================
