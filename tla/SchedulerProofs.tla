-------------------------- MODULE SchedulerProofs ---------------------------
(***************************************************************************)
(* Theorems about Scheduler, for any jobs, policies, commands, failures    *)
(* and number of crashes.                                                  *)
(***************************************************************************)
EXTENDS Scheduler, TLAPS

(* Where start is, and what that says of the tasks: timers exist only when *)
(* nothing is left to catch up with.                                       *)
BootInv ==
  /\ phase # "starting" => /\ missed = {} /\ unscheduled = {} /\ spawned = {}
                           /\ ~StartBusy
  /\ spawned # {} => missed = {} /\ ~StartBusy
  /\ \A i, j \in spawned : i = j
  /\ missed # {} \/ StartBusy \/ phase = "down" => \A j \in Jobs : timer[j] = "none"

(* One job: its tasks, ... *)
TaskInv(j) ==
  /\ timer[j] = "running" <=> exec["timer"][j] # "idle"
  /\ timer[j] # "none" => j \in handles \cup spawned
  /\ j \in unscheduled \ spawned => timer[j] = "none"
  /\ row[j] = "unborn" => /\ j \notin unscheduled \cup owed
                          /\ timer[j] = "none" /\ exec["start"][j] = "idle"

(* ... the reasons for which its row has to be due still ... *)
DueInv(j) ==
  /\ HasRow(j) /\ (Executing(j) \/ timer[j] = "rung" \/ j \in missed) => due[j]
  /\ exec["start"][j] # "idle" => j \notin missed

(* ... and what is known of a run that is owed. *)
OwedInv(j) ==
  /\ j \in owed => ~Executing(j)
  /\ j \in owed \ SkipJobs => /\ timer[j] = "none"
                              /\ HasRow(j) => due[j]
                              /\ j \in unscheduled => j \in missed

IInv == TypeOK /\ BootInv /\ \A j \in Jobs : TaskInv(j) /\ DueInv(j) /\ OwedInv(j)

(* Every step names the variables it leaves alone by these groups. *)
USE DEF rows, boot, tasks, history

(* What setting one entry of exec does. *)
LEMMA ExecSet ==
  ASSUME TypeOK, NEW a \in Executors, NEW j \in Jobs,
         NEW v \in {"idle", "running", "counted"},
         exec' = [exec EXCEPT ![a][j] = v]
  PROVE  /\ exec' \in [Executors -> [Jobs -> {"idle", "running", "counted"}]]
         /\ exec'[a][j] = v
         /\ \A b \in Executors, i \in Jobs :
              b # a \/ i # j => exec'[b][i] = exec[b][i]
  <1>1. exec[a] \in [Jobs -> {"idle", "running", "counted"}]
    BY DEF TypeOK
  <1>2. exec' = [exec EXCEPT ![a] = [exec[a] EXCEPT ![j] = v]]
    OBVIOUS
  <1>3. exec'[a] = [exec[a] EXCEPT ![j] = v]
    BY <1>2 DEF TypeOK
  <1>4. \A b \in Executors : b # a => exec'[b] = exec[b]
    BY <1>2 DEF TypeOK
  <1> QED BY <1>1, <1>2, <1>3, <1>4 DEF TypeOK

(* Initially nothing runs and nothing is owed. *)
LEMMA InitInductive == Init => IInv
  <1> SUFFICES ASSUME Init PROVE IInv
    OBVIOUS
  <1>1. \A a \in Executors, j \in Jobs : exec[a][j] = "idle"
    BY DEF Init
  <1>2. TypeOK
    BY <1>1, BoundAssumption DEF Init, TypeOK, Executors
  <1>3. BootInv
    BY <1>1 DEF Init, BootInv, StartBusy, Executors
  <1>4. \A j \in Jobs : TaskInv(j) /\ DueInv(j) /\ OwedInv(j)
    BY <1>1 DEF Init, TaskInv, DueInv, OwedInv, HasRow, Executing, Executors
  <1> QED BY <1>2, <1>3, <1>4 DEF IInv

(* What the CLI and the schedule_task tool do to the rows. *)
LEMMA CommandKeeps ==
  ASSUME IInv, NEW j \in Jobs, Command(j)
  PROVE  IInv'
  <1>1. TypeOK'
    <2>1. CASE Register(j) \/ Pause(j) \/ Resume(j)
      BY <2>1 DEF IInv, TypeOK, Register, Pause, Resume
    <2>2. CASE Delete(j)
      BY <2>2 DEF IInv, TypeOK, Delete
    <2> QED BY <2>1, <2>2 DEF Command
  <1>2. BootInv'
    BY DEF IInv, TypeOK, BootInv, TaskInv, HasRow, StartBusy, Command, Register,
           Pause, Resume, Delete
  <1>3. ASSUME NEW i \in Jobs PROVE TaskInv(i)'
    BY <1>3 DEF IInv, TypeOK, BootInv, TaskInv, HasRow, StartBusy, Command,
                Register, Pause, Resume, Delete
  <1>4. ASSUME NEW i \in Jobs PROVE DueInv(i)'
    BY <1>4 DEF IInv, TypeOK, BootInv, TaskInv, DueInv, HasRow, StartBusy,
                Executing, Executors, Command, Register, Pause, Resume, Delete
  <1>5. ASSUME NEW i \in Jobs PROVE OwedInv(i)'
    BY <1>5 DEF IInv, TypeOK, BootInv, TaskInv, DueInv, OwedInv, HasRow, StartBusy,
                Executing, Executors, Command, Register, Pause, Resume, Delete
  <1> QED BY <1>1, <1>2, <1>3, <1>4, <1>5 DEF IInv

(* A fire time goes by. *)
LEMMA ElapseKeeps ==
  ASSUME IInv, NEW j \in Jobs, Elapse(j)
  PROVE  IInv'
  <1>1. TypeOK'
    BY DEF IInv, TypeOK, BootInv, HasRow, StartBusy, Elapse
  <1>2. BootInv'
    BY DEF IInv, TypeOK, BootInv, TaskInv, HasRow, StartBusy, Elapse
  <1>3. ASSUME NEW i \in Jobs PROVE TaskInv(i)'
    BY <1>3 DEF IInv, TypeOK, BootInv, TaskInv, HasRow, StartBusy, Elapse
  <1>4. ASSUME NEW i \in Jobs PROVE DueInv(i)'
    BY <1>4 DEF IInv, TypeOK, BootInv, TaskInv, DueInv, HasRow, StartBusy,
                Executing, Executors, Elapse
  <1>5. ASSUME NEW i \in Jobs PROVE OwedInv(i)'
    BY <1>5 DEF IInv, TypeOK, BootInv, TaskInv, DueInv, OwedInv, HasRow, StartBusy,
                Executing, Executors, Elapse
  <1> QED BY <1>1, <1>2, <1>3, <1>4, <1>5 DEF IInv

(* start takes up what the rows say. *)
LEMMA LoadJobsKeeps ==
  ASSUME IInv, LoadJobs
  PROVE  IInv'
  <1>1. TypeOK'
    BY DEF IInv, TypeOK, BootInv, HasRow, StartBusy, LoadJobs, StartFails
  <1>2. BootInv'
    BY DEF IInv, TypeOK, BootInv, TaskInv, HasRow, StartBusy, LoadJobs, StartFails
  <1>3. ASSUME NEW i \in Jobs PROVE TaskInv(i)'
    BY <1>3 DEF IInv, TypeOK, BootInv, TaskInv, HasRow, StartBusy, LoadJobs, StartFails
  <1>4. ASSUME NEW i \in Jobs PROVE DueInv(i)'
    BY <1>4 DEF IInv, TypeOK, BootInv, TaskInv, DueInv, HasRow, StartBusy,
                Executing, Executors, LoadJobs, StartFails
  <1>5. ASSUME NEW i \in Jobs PROVE OwedInv(i)'
    BY <1>5 DEF IInv, TypeOK, BootInv, TaskInv, DueInv, OwedInv, HasRow, StartBusy,
                Executing, Executors, LoadJobs, StartFails
  <1> QED BY <1>1, <1>2, <1>3, <1>4, <1>5 DEF IInv

(* A missed fire time is skipped. *)
LEMMA SkipMissedKeeps ==
  ASSUME IInv, NEW j \in Jobs, SkipMissed(j)
  PROVE  IInv'
  <1>1. TypeOK'
    BY DEF IInv, TypeOK, BootInv, HasRow, StartBusy, SkipMissed, StartFails
  <1>2. BootInv'
    BY DEF IInv, TypeOK, BootInv, TaskInv, HasRow, StartBusy, SkipMissed, StartFails
  <1>3. ASSUME NEW i \in Jobs PROVE TaskInv(i)'
    BY <1>3 DEF IInv, TypeOK, BootInv, TaskInv, HasRow, StartBusy, SkipMissed,
                StartFails
  <1>4. ASSUME NEW i \in Jobs PROVE DueInv(i)'
    BY <1>4 DEF IInv, TypeOK, BootInv, TaskInv, DueInv, HasRow, StartBusy,
                Executing, Executors, SkipMissed, StartFails
  <1>5. ASSUME NEW i \in Jobs PROVE OwedInv(i)'
    BY <1>5 DEF IInv, TypeOK, BootInv, TaskInv, DueInv, OwedInv, HasRow, StartBusy,
                Executing, Executors, SkipMissed, StartFails
  <1> QED BY <1>1, <1>2, <1>3, <1>4, <1>5 DEF IInv

(* A timer is spawned for a job that has none and owes nothing. *)
LEMMA ScheduleKeeps ==
  ASSUME IInv, NEW j \in Jobs, Schedule(j)
  PROVE  IInv'
  <1>1. TypeOK'
    BY DEF IInv, TypeOK, BootInv, HasRow, StartBusy, Schedule, StartFails
  <1>2. BootInv'
    BY DEF IInv, TypeOK, BootInv, TaskInv, HasRow, StartBusy, Schedule, StartFails
  <1>3. ASSUME NEW i \in Jobs PROVE TaskInv(i)'
    BY <1>3 DEF IInv, TypeOK, BootInv, TaskInv, HasRow, StartBusy, Schedule, StartFails
  <1>4. ASSUME NEW i \in Jobs PROVE DueInv(i)'
    BY <1>4 DEF IInv, TypeOK, BootInv, TaskInv, DueInv, HasRow, StartBusy,
                Executing, Executors, Schedule, StartFails
  <1>5. ASSUME NEW i \in Jobs PROVE OwedInv(i)'
    BY <1>5 DEF IInv, TypeOK, BootInv, TaskInv, DueInv, OwedInv, HasRow, StartBusy,
                Executing, Executors, Schedule, StartFails
  <1> QED BY <1>1, <1>2, <1>3, <1>4, <1>5 DEF IInv

(* The handle of the spawned timer is kept. *)
LEMMA KeepHandleKeeps ==
  ASSUME IInv, NEW j \in Jobs, KeepHandle(j)
  PROVE  IInv'
  <1>1. TypeOK'
    BY DEF IInv, TypeOK, BootInv, HasRow, StartBusy, KeepHandle
  <1>2. BootInv'
    BY DEF IInv, TypeOK, BootInv, TaskInv, HasRow, StartBusy, KeepHandle
  <1>3. ASSUME NEW i \in Jobs PROVE TaskInv(i)'
    BY <1>3 DEF IInv, TypeOK, BootInv, TaskInv, HasRow, StartBusy, KeepHandle
  <1>4. ASSUME NEW i \in Jobs PROVE DueInv(i)'
    BY <1>4 DEF IInv, TypeOK, BootInv, TaskInv, DueInv, HasRow, StartBusy,
                Executing, Executors, KeepHandle
  <1>5. ASSUME NEW i \in Jobs PROVE OwedInv(i)'
    BY <1>5 DEF IInv, TypeOK, BootInv, TaskInv, DueInv, OwedInv, HasRow, StartBusy,
                Executing, Executors, KeepHandle
  <1> QED BY <1>1, <1>2, <1>3, <1>4, <1>5 DEF IInv

(* start is over. *)
LEMMA StartReturnsKeeps ==
  ASSUME IInv, StartReturns
  PROVE  IInv'
  <1>1. TypeOK'
    BY DEF IInv, TypeOK, BootInv, HasRow, StartBusy, StartReturns
  <1>2. BootInv'
    BY DEF IInv, TypeOK, BootInv, TaskInv, HasRow, StartBusy, StartReturns
  <1>3. ASSUME NEW i \in Jobs PROVE TaskInv(i)'
    BY <1>3 DEF IInv, TypeOK, BootInv, TaskInv, HasRow, StartBusy, StartReturns
  <1>4. ASSUME NEW i \in Jobs PROVE DueInv(i)'
    BY <1>4 DEF IInv, TypeOK, BootInv, TaskInv, DueInv, HasRow, StartBusy,
                Executing, Executors, StartReturns
  <1>5. ASSUME NEW i \in Jobs PROVE OwedInv(i)'
    BY <1>5 DEF IInv, TypeOK, BootInv, TaskInv, DueInv, OwedInv, HasRow, StartBusy,
                Executing, Executors, StartReturns
  <1> QED BY <1>1, <1>2, <1>3, <1>4, <1>5 DEF IInv

(* A timer is aborted, in its sleep or in a run. *)
LEMMA AbortKeeps ==
  ASSUME IInv, NEW j \in Jobs, Abort(j)
  PROVE  IInv'
  <1>1. CASE j \notin handles
    <2>1. TypeOK'
      BY <1>1 DEF IInv, TypeOK, BootInv, StartBusy, Executors, Abort
    <2>2. BootInv'
      BY <1>1 DEF IInv, TypeOK, BootInv, TaskInv, StartBusy, Executors, Abort
    <2>3. ASSUME NEW i \in Jobs PROVE TaskInv(i)'
      BY <2>3, <1>1 DEF IInv, TypeOK, BootInv, TaskInv, StartBusy, Executors, Abort
    <2>4. ASSUME NEW i \in Jobs PROVE DueInv(i)'
      BY <2>4, <1>1 DEF IInv, TypeOK, BootInv, TaskInv, DueInv, OwedInv, HasRow,
                        StartBusy, Executing, Executors, Abort
    <2>5. ASSUME NEW i \in Jobs PROVE OwedInv(i)'
      BY <2>5, <1>1 DEF IInv, TypeOK, BootInv, TaskInv, DueInv, OwedInv, HasRow,
                        StartBusy, Executing, Executors, Abort
    <2> QED BY <2>1, <2>2, <2>3, <2>4, <2>5 DEF IInv
  <1>2. CASE j \in handles
    <2>1. exec' = [exec EXCEPT !["timer"][j] = "idle"]
      BY <1>2 DEF Abort
    <2>2. /\ exec' \in [Executors -> [Jobs -> {"idle", "running", "counted"}]]
          /\ exec'["timer"][j] = "idle"
          /\ \A b \in Executors, i \in Jobs :
              b # "timer" \/ i # j => exec'[b][i] = exec[b][i]
      BY <2>1, ExecSet DEF IInv, Executors
    <2>3. TypeOK'
      BY <1>2, <2>2 DEF IInv, TypeOK, BootInv, StartBusy, Executors, Abort
    <2>4. BootInv'
      BY <1>2, <2>2 DEF IInv, TypeOK, BootInv, TaskInv, StartBusy, Executors, Abort
    <2>5. ASSUME NEW i \in Jobs PROVE TaskInv(i)'
      BY <2>5, <1>2, <2>2 DEF IInv, TypeOK, BootInv, TaskInv, StartBusy, Executors,
                              Abort
    <2>6. ASSUME NEW i \in Jobs PROVE DueInv(i)'
      BY <2>6, <1>2, <2>2 DEF IInv, TypeOK, BootInv, TaskInv, DueInv, OwedInv,
                              HasRow, StartBusy, Executing, Executors, Abort
    <2>7. ASSUME NEW i \in Jobs PROVE OwedInv(i)'
      BY <2>7, <1>2, <2>2 DEF IInv, TypeOK, BootInv, TaskInv, DueInv, OwedInv,
                              HasRow, StartBusy, Executing, Executors, Abort
    <2> QED BY <2>3, <2>4, <2>5, <2>6, <2>7 DEF IInv
  <1> QED BY <1>1, <1>2

(* A timer wakes. *)
LEMMA WakeKeeps ==
  ASSUME IInv, NEW j \in Jobs, Wake(j)
  PROVE  IInv'
  <1>1. CASE timer' = [timer EXCEPT ![j] = "none"] /\ UNCHANGED <<exec, owed>>
    <2>1. TypeOK'
      BY <1>1 DEF IInv, TypeOK, BootInv, StartBusy, Executors, Wake
    <2>2. BootInv'
      BY <1>1 DEF IInv, TypeOK, BootInv, TaskInv, StartBusy, Executors, Wake
    <2>3. ASSUME NEW i \in Jobs PROVE TaskInv(i)'
      BY <2>3, <1>1 DEF IInv, TypeOK, BootInv, TaskInv, StartBusy, Executors, Wake
    <2>4. ASSUME NEW i \in Jobs PROVE DueInv(i)'
      BY <2>4, <1>1 DEF IInv, TypeOK, BootInv, TaskInv, DueInv, OwedInv, HasRow,
                        StartBusy, Executing, Executors, Wake
    <2>5. ASSUME NEW i \in Jobs PROVE OwedInv(i)'
      BY <2>5, <1>1 DEF IInv, TypeOK, BootInv, TaskInv, DueInv, OwedInv, HasRow,
                        StartBusy, Executing, Executors, Wake
    <2> QED BY <2>1, <2>2, <2>3, <2>4, <2>5 DEF IInv
  <1>2. CASE row[j] = "active" /\ timer' = [timer EXCEPT ![j] = "running"] /\ Execute("timer", j)
    <2>1. exec' = [exec EXCEPT !["timer"][j] = "running"] /\ owed' = owed \ {j}
      BY <1>2 DEF Execute
    <2>2. /\ exec' \in [Executors -> [Jobs -> {"idle", "running", "counted"}]]
          /\ exec'["timer"][j] = "running"
          /\ \A b \in Executors, i \in Jobs :
              b # "timer" \/ i # j => exec'[b][i] = exec[b][i]
      BY <2>1, ExecSet DEF IInv, Executors
    <2>3. TypeOK'
      BY <1>2, <2>1, <2>2 DEF IInv, TypeOK, BootInv, StartBusy, Executors, Wake
    <2>4. BootInv'
      BY <1>2, <2>1, <2>2 DEF IInv, TypeOK, BootInv, TaskInv, StartBusy, Executors, Wake
    <2>5. ASSUME NEW i \in Jobs PROVE TaskInv(i)'
      BY <2>5, <1>2, <2>1, <2>2 DEF IInv, TypeOK, BootInv, TaskInv, StartBusy,
                                    Executors, Wake
    <2>6. ASSUME NEW i \in Jobs PROVE DueInv(i)'
      BY <2>6, <1>2, <2>1, <2>2 DEF IInv, TypeOK, BootInv, TaskInv, DueInv,
                                    OwedInv, HasRow, StartBusy, Executing,
                                    Executors, Wake
    <2>7. ASSUME NEW i \in Jobs PROVE OwedInv(i)'
      BY <2>7, <1>2, <2>1, <2>2 DEF IInv, TypeOK, BootInv, TaskInv, DueInv,
                                    OwedInv, HasRow, StartBusy, Executing,
                                    Executors, Wake
    <2> QED BY <2>3, <2>4, <2>5, <2>6, <2>7 DEF IInv
  <1> QED BY <1>1, <1>2 DEF Wake

(* start executes a missed job. *)
LEMMA RunMissedKeeps ==
  ASSUME IInv, NEW j \in Jobs, RunMissed(j)
  PROVE  IInv'
  <1>1. exec' = [exec EXCEPT !["start"][j] = "running"] /\ owed' = owed \ {j}
    BY DEF RunMissed, Execute
  <1>2. /\ exec' \in [Executors -> [Jobs -> {"idle", "running", "counted"}]]
        /\ exec'["start"][j] = "running"
        /\ \A b \in Executors, i \in Jobs :
              b # "start" \/ i # j => exec'[b][i] = exec[b][i]
    BY <1>1, ExecSet DEF IInv, Executors
  <1>3. TypeOK'
    BY <1>1, <1>2 DEF IInv, TypeOK, BootInv, StartBusy, Executors, RunMissed
  <1>4. BootInv'
    BY <1>1, <1>2 DEF IInv, TypeOK, BootInv, TaskInv, StartBusy, Executors, RunMissed
  <1>5. ASSUME NEW i \in Jobs PROVE TaskInv(i)'
    BY <1>5, <1>1, <1>2 DEF IInv, TypeOK, BootInv, TaskInv, StartBusy, Executors,
                            RunMissed
  <1>6. ASSUME NEW i \in Jobs PROVE DueInv(i)'
    BY <1>6, <1>1, <1>2 DEF IInv, TypeOK, BootInv, TaskInv, DueInv, OwedInv,
                            HasRow, StartBusy, Executing, Executors, RunMissed
  <1>7. ASSUME NEW i \in Jobs PROVE OwedInv(i)'
    BY <1>7, <1>1, <1>2 DEF IInv, TypeOK, BootInv, TaskInv, DueInv, OwedInv,
                            HasRow, StartBusy, Executing, Executors, RunMissed
  <1> QED BY <1>3, <1>4, <1>5, <1>6, <1>7 DEF IInv

(* execute_action returns. *)
LEMMA FinishKeeps ==
  ASSUME IInv, NEW a \in Executors, NEW j \in Jobs, exec[a][j] # "idle", Finish(a, j),
         due' = due \/ due' = [due EXCEPT ![j] = FALSE],
         UNCHANGED <<row, over, boot, handles, aborts, history>>
  PROVE  IInv'
  <1>1. exec' = [exec EXCEPT ![a][j] = "idle"]
    BY DEF Finish
  <1>2. /\ exec' \in [Executors -> [Jobs -> {"idle", "running", "counted"}]]
        /\ exec'[a][j] = "idle"
        /\ \A b \in Executors, i \in Jobs :
              b # a \/ i # j => exec'[b][i] = exec[b][i]
    BY <1>1, ExecSet DEF IInv
  <1>3. \A b \in Executors, i \in Jobs : exec'[b][i] # "idle" => exec[b][i] = exec'[b][i]
    BY <1>2
  <1>4. due' \in [Jobs -> BOOLEAN] /\ timer' \in [Jobs -> {"none", "sleeping", "rung", "running"}]
    BY DEF Finish, IInv, TypeOK
  <1>5. TypeOK'
    BY <1>2, <1>3, <1>4 DEF IInv, TypeOK, BootInv, StartBusy, Executors, Finish
  <1>6. BootInv'
    BY <1>2, <1>3, <1>4 DEF IInv, TypeOK, BootInv, TaskInv, StartBusy, Executors, Finish
  <1>7. ASSUME NEW i \in Jobs PROVE TaskInv(i)'
    BY <1>7, <1>2, <1>3, <1>4 DEF IInv, TypeOK, BootInv, TaskInv, StartBusy,
                                  Executors, Finish
  <1>8. ASSUME NEW i \in Jobs PROVE DueInv(i)'
    BY <1>8, <1>2, <1>3, <1>4 DEF IInv, TypeOK, BootInv, TaskInv, DueInv, OwedInv,
                                  HasRow, StartBusy, Executing, Executors, Finish
  <1>9. ASSUME NEW i \in Jobs PROVE OwedInv(i)'
    BY <1>9, <1>2, <1>3, <1>4 DEF IInv, TypeOK, BootInv, TaskInv, DueInv, OwedInv,
                                  HasRow, StartBusy, Executing, Executors, Finish
  <1> QED BY <1>5, <1>6, <1>7, <1>8, <1>9 DEF IInv

(* The first statement of record_run. *)
LEMMA CountKeeps ==
  ASSUME IInv, NEW a \in Executors, NEW j \in Jobs, Count(a, j)
  PROVE  IInv'
  <1>1. CASE Finish(a, j)
    BY <1>1, FinishKeeps DEF Count
  <1>2. CASE exec' = [exec EXCEPT ![a][j] = "counted"] /\ UNCHANGED timer
    <2>1. TypeOK /\ exec[a][j] = "running" /\ exec' = [exec EXCEPT ![a][j] = "counted"]
      BY <1>2 DEF Count, IInv
    <2>2. /\ exec' \in [Executors -> [Jobs -> {"idle", "running", "counted"}]]
          /\ exec'[a][j] = "counted"
          /\ \A b \in Executors, i \in Jobs :
              b # a \/ i # j => exec'[b][i] = exec[b][i]
      BY <2>1, ExecSet
    <2>3. \A b \in Executors, i \in Jobs : exec'[b][i] = "idle" <=> exec[b][i] = "idle"
      BY <2>1, <2>2
    <2>4. TypeOK'
      BY <1>2, <2>1, <2>2, <2>3 DEF IInv, TypeOK, BootInv, StartBusy, Executors, Count
    <2>5. BootInv'
      BY <1>2, <2>1, <2>2, <2>3 DEF IInv, TypeOK, BootInv, TaskInv, StartBusy,
                                    Executors, Count
    <2>6. ASSUME NEW i \in Jobs PROVE TaskInv(i)'
      BY <2>6, <1>2, <2>1, <2>2, <2>3 DEF IInv, TypeOK, BootInv, TaskInv,
                                          StartBusy, Executors, Count
    <2>7. ASSUME NEW i \in Jobs PROVE DueInv(i)'
      BY <2>7, <1>2, <2>1, <2>2, <2>3 DEF IInv, TypeOK, BootInv, TaskInv, DueInv,
                                          OwedInv, HasRow, StartBusy, Executing,
                                          Executors, Count
    <2>8. ASSUME NEW i \in Jobs PROVE OwedInv(i)'
      BY <2>8, <1>2, <2>1, <2>2, <2>3 DEF IInv, TypeOK, BootInv, TaskInv, DueInv,
                                          OwedInv, HasRow, StartBusy, Executing,
                                          Executors, Count
    <2> QED BY <2>4, <2>5, <2>6, <2>7, <2>8 DEF IInv
  <1> QED BY <1>1, <1>2 DEF Count

(* The rest of record_run. *)
LEMMA AdvanceKeeps ==
  ASSUME IInv, NEW a \in Executors, NEW j \in Jobs, Advance(a, j)
  PROVE  IInv'
  BY FinishKeeps DEF Advance

(* The daemon dies: the runs it cut short are owed and still due. *)
LEMMA CrashKeeps ==
  ASSUME IInv, Crash
  PROVE  IInv'
  <1>1. \A a \in Executors, i \in Jobs : exec'[a][i] = "idle"
    BY DEF Crash
  <1>2. crashes' \in 0 .. MaxCrashes
    BY BoundAssumption DEF Crash, IInv, TypeOK
  <1>3. TypeOK'
    BY <1>1, <1>2 DEF IInv, TypeOK, BootInv, StartBusy, Executors, Crash
  <1>4. BootInv'
    BY <1>1, <1>2 DEF IInv, TypeOK, BootInv, TaskInv, StartBusy, Executors, Crash
  <1>5. ASSUME NEW i \in Jobs PROVE TaskInv(i)'
    BY <1>5, <1>1, <1>2 DEF IInv, TypeOK, BootInv, TaskInv, StartBusy, Executors, Crash
  <1>6. ASSUME NEW i \in Jobs PROVE DueInv(i)'
    BY <1>6, <1>1, <1>2 DEF IInv, TypeOK, BootInv, TaskInv, DueInv, OwedInv,
                            HasRow, StartBusy, Executing, Executors, Crash
  <1>7. ASSUME NEW i \in Jobs PROVE OwedInv(i)'
    BY <1>7, <1>1, <1>2 DEF IInv, TypeOK, BootInv, TaskInv, DueInv, OwedInv,
                            HasRow, StartBusy, Executing, Executors, Crash
  <1> QED BY <1>3, <1>4, <1>5, <1>6, <1>7 DEF IInv

(* Every step keeps the invariant. *)
LEMMA NextInductive == IInv /\ [Next]_vars => IInv'
  <1> SUFFICES ASSUME IInv, [Next]_vars PROVE IInv'
    OBVIOUS
  <1>1. CASE StartTask
    <2>1. "start" \in Executors
      BY DEF Executors
    <2> QED BY <1>1, <2>1, LoadJobsKeeps, StartReturnsKeeps, RunMissedKeeps,
               SkipMissedKeeps, ScheduleKeeps, KeepHandleKeeps, CountKeeps, AdvanceKeeps
            DEF StartTask
  <1>2. ASSUME NEW j \in Jobs, TimerTask(j) PROVE IInv'
    <2>1. "timer" \in Executors
      BY DEF Executors
    <2> QED BY <1>2, <2>1, WakeKeeps, CountKeeps, AdvanceKeeps DEF TimerTask
  <1>3. ASSUME NEW j \in Jobs, Command(j) PROVE IInv'
    BY <1>3, CommandKeeps
  <1>4. ASSUME NEW j \in Jobs, Abort(j) \/ Elapse(j) PROVE IInv'
    BY <1>4, AbortKeeps, ElapseKeeps
  <1>5. CASE UNCHANGED vars
    <2>1. UNCHANGED <<row, due, over, phase, missed, unscheduled, spawned, timer, exec,
                      handles, aborts, owed, crashes>>
      BY <1>5 DEF vars
    <2> QED BY <2>1 DEF IInv, TypeOK, BootInv, TaskInv, DueInv, OwedInv, HasRow,
                        StartBusy, Executing
  <1> QED BY <1>1, <1>2, <1>3, <1>4, <1>5, CrashKeeps DEF Next

(* The inductive invariant holds of every reachable state. *)
LEMMA Inductive == Spec => []IInv
  BY InitInductive, NextInductive, PTL DEF Spec

-----------------------------------------------------------------------------
(* Type correctness, and start works on one job at a time. *)
THEOREM TypeCorrect == Spec => []TypeOK
  BY Inductive, PTL DEF IInv

(* start and a timer never execute the same job at once. *)
THEOREM NoDoubleRun == Spec => []NoOverlap
  <1>1. IInv => NoOverlap
    BY DEF IInv, TypeOK, BootInv, TaskInv, NoOverlap, StartBusy
  <1> QED BY <1>1, Inductive, PTL

(* A running job's row says that it is due until the run is recorded. *)
THEOREM RunStaysDue == Spec => []UnfinishedIsDue
  <1>1. IInv => UnfinishedIsDue
    BY DEF IInv, DueInv, UnfinishedIsDue
  <1> QED BY <1>1, Inductive, PTL

(* At-least-once over crashes: a run that was cut short is begun again     *)
(* before its job gets a timer.                                            *)
THEOREM InterruptedRunRepeated == Spec => []InterruptedRunsFirst
  <1>1. IInv => InterruptedRunsFirst
    BY DEF IInv, OwedInv, InterruptedRunsFirst
  <1> QED BY <1>1, Inductive, PTL

(* delete finds every timer once start is over. *)
THEOREM DeleteFindsTimer == Spec => []TimersAbortable
  <1>1. IInv => TimersAbortable
    BY DEF IInv, BootInv, TaskInv, TimersAbortable
  <1> QED BY <1>1, Inductive, PTL

(* No step of any task brings a deleted row back. *)
LEMMA StepKeepsDeleted ==
  ASSUME IInv, [Next]_vars, NEW j \in Jobs, row[j] = "deleted"
  PROVE  row'[j] = "deleted"
  <1>1. ASSUME NEW i \in Jobs, Command(i) PROVE row'[j] = "deleted"
    BY <1>1 DEF Command, Register, Pause, Resume, Delete, HasRow, IInv, TypeOK
  <1>2. StartTask \/ Crash \/ UNCHANGED vars => UNCHANGED row
    BY DEF StartTask, LoadJobs, StartReturns, RunMissed, SkipMissed, Schedule,
           KeepHandle,
           Count, Advance, Crash, vars
  <1>3. ASSUME NEW i \in Jobs, TimerTask(i) \/ Abort(i) \/ Elapse(i) PROVE UNCHANGED row
    BY <1>3 DEF TimerTask, Wake, Count, Advance, Abort, Elapse
  <1> QED BY <1>1, <1>2, <1>3 DEF Next

(* A deleted job is gone for good, whatever runs end later. *)
THEOREM DeletionStands == Spec => DeletedForGood
  <1>1. IInv /\ [Next]_vars => [\A j \in Jobs : row[j] = "deleted" => row'[j] = "deleted"]_vars
    BY StepKeepsDeleted
  <1> QED BY <1>1, Inductive, PTL DEF Spec, DeletedForGood

(* When start is over, only a timer begins to execute a job, and only an   *)
(* active one.                                                             *)
LEMMA StepFiresActive ==
  ASSUME IInv, [Next]_vars, NEW j \in Jobs,
         phase \in {"up", "failed"}, ~Executing(j), Executing(j)'
  PROVE  row[j] = "active"
  <1>1. \A a \in Executors : exec[a][j] = "idle"
    BY DEF Executing
  <1>2. ASSUME NEW a \in Executors, NEW i \in Jobs, NEW v \in {"idle", "running", "counted"},
               exec' = [exec EXCEPT ![a][i] = v], exec[a][i] # "idle" \/ v = "idle"
        PROVE  FALSE
    <2>1. \A b \in Executors : exec'[b][j] = "idle"
      BY <1>1, <1>2, ExecSet DEF IInv
    <2> QED BY <2>1 DEF Executing
  <1>3. ~UNCHANGED exec
    BY DEF Executing
  <1>4. ASSUME NEW a \in Executors, NEW i \in Jobs, Count(a, i) \/ Advance(a, i) PROVE FALSE
    <2>1. exec[a][i] # "idle"
      BY <1>4 DEF Count, Advance
    <2>2. exec' = [exec EXCEPT ![a][i] = "counted"] \/ exec' = [exec EXCEPT ![a][i] = "idle"]
      BY <1>4 DEF Count, Advance, Finish
    <2> QED BY <1>2, <2>1, <2>2
  <1>5. ASSUME NEW i \in Jobs, Wake(i) PROVE row[j] = "active"
    <2>1. Execute("timer", i) /\ row[i] = "active"
      BY <1>3, <1>5 DEF Wake
    <2>2. exec' = [exec EXCEPT !["timer"][i] = "running"]
      BY <2>1 DEF Execute
    <2>3. \A b \in Executors : i # j => exec'[b][j] = "idle"
      BY <1>1, <2>2, ExecSet DEF IInv, Executors
    <2> QED BY <2>1, <2>3 DEF Executing
  <1>6. ~StartTask
    <2>1. "start" \in Executors
      BY DEF Executors
    <2>2. ASSUME NEW i \in Jobs PROVE ~RunMissed(i)
      BY DEF RunMissed, IInv, BootInv
    <2>3. ~(LoadJobs \/ StartReturns)
      BY <1>3 DEF LoadJobs, StartReturns
    <2>4. ASSUME NEW i \in Jobs PROVE ~(SkipMissed(i) \/ Schedule(i) \/ KeepHandle(i))
      BY <1>3 DEF SkipMissed, Schedule, KeepHandle
    <2> QED BY <1>4, <2>1, <2>2, <2>3, <2>4 DEF StartTask
  <1>7. ASSUME NEW i \in Jobs, TimerTask(i) PROVE row[j] = "active"
    <2>1. "timer" \in Executors
      BY DEF Executors
    <2> QED BY <1>4, <1>5, <1>7, <2>1 DEF TimerTask
  <1>8. ASSUME NEW i \in Jobs PROVE ~(Command(i) \/ Elapse(i))
    BY <1>3 DEF Command, Register, Pause, Resume, Delete, Elapse
  <1>9. ASSUME NEW i \in Jobs PROVE ~Abort(i)
    <2>1. SUFFICES ASSUME Abort(i) PROVE FALSE
      OBVIOUS
    <2>2. exec' = [exec EXCEPT !["timer"][i] = "idle"]
      BY <1>3, <2>1 DEF Abort
    <2> QED BY <1>2, <2>2 DEF Executors
  <1>10. ~Crash /\ ~UNCHANGED vars
    BY <1>3 DEF Crash, vars, Executing, Executors
  <1> QED BY <1>6, <1>7, <1>8, <1>9, <1>10 DEF Next

(* A job that is paused or deleted does not begin to run once start is over. *)
THEOREM PausedJobsStayQuiet == Spec => OnlyActiveJobsFire
  <1>1. IInv /\ [Next]_vars =>
          [\A j \in Jobs : phase \in {"up", "failed"} /\ ~Executing(j) /\ Executing(j)'
                           => row[j] = "active"]_vars
    BY StepFiresActive
  <1> QED BY <1>1, Inductive, PTL DEF Spec, OnlyActiveJobsFire
=============================================================================
