------------------------------- MODULE Daemon -------------------------------
(***************************************************************************)
(* The daemon process: how it boots, and how /restart hands over from one  *)
(* process to the next.  main opens the database, starts the listeners of  *)
(* the connectors, awaits Scheduler::start, which runs the jobs that were  *)
(* missed, and only then binds the port of the HTTP API and the one of     *)
(* gRPC; a port in use ends the process.  /restart starts the new process  *)
(* at once and ends the old one half a second later.                       *)
(*                                                                         *)
(* One job was missed while no daemon ran; its run may ask for an approval.*)
(* How long a phase of the boot takes, compared to the half second, is     *)
(* left open.                                                              *)
(***************************************************************************)
EXTENDS Naturals, FiniteSets

CONSTANTS
  Pids,      \* the processes that may ever run
  MayFail    \* may a process be killed, or a database fail?

ASSUME DaemonAssumption == MayFail \in BOOLEAN

Ports == {"http", "grpc"}
LifePhases == {"unborn", "opening", "listening", "missed", "asking", "ran", "scheduled",
           "http", "serving", "dead"}
Booting == {"opening", "listening", "missed", "asking", "ran", "scheduled", "http"}

VARIABLES
  life,      \* life[p]: the phase of the process
  leaving,   \* the processes that have half a second left
  heir,      \* heir[p]: the process that the last /restart of p started, or p
  fate,      \* fate[p]: why the process ended
  overdue,   \* has the job a next_run_at that has gone by?
  ranBy,     \* the processes that began to run the missed job
  disturbed  \* were two processes ever alive at the same time, or was a missed
             \* run cut short or not recorded?

daemonVars == <<life, leaving, heir, fate, overdue, ranBy, disturbed>>

DaemonInit ==
  /\ life = [p \in Pids |-> "unborn"]
  /\ leaving = {}
  /\ heir = [p \in Pids |-> p]
  /\ fate = [p \in Pids |-> "none"]
  /\ overdue \in BOOLEAN
  /\ ranBy = {}
  /\ disturbed = FALSE

-----------------------------------------------------------------------------
Alive == {p \in Pids : life[p] \notin {"unborn", "dead"}}
Bound(port) ==
  {p \in Pids : life[p] = "serving" \/ (life[p] = "http" /\ port = "http")}

Moves(p, from, to) == life[p] = from /\ life' = [life EXCEPT ![p] = to]

Born(p) ==
  /\ life[p] = "unborn"
  /\ disturbed' = (disturbed \/ Alive # {})

Dies(p, why) ==
  /\ life' = [life EXCEPT ![p] = "dead"]
  /\ fate' = [fate EXCEPT ![p] = why]
  /\ leaving' = leaving \ {p}

-----------------------------------------------------------------------------
(* Somebody starts the daemon. *)
Launch(p) ==
  /\ Born(p)
  /\ life' = [life EXCEPT ![p] = "opening"]
  /\ UNCHANGED <<leaving, heir, fate, overdue, ranBy>>

(* The directories, the databases, the migrations, the presets. *)
OpenDatabases(p) ==
  /\ \/ Moves(p, "opening", "listening") /\ UNCHANGED <<leaving, fate>>
     \/ MayFail /\ life[p] = "opening" /\ Dies(p, "database")
  /\ UNCHANGED <<heir, overdue, ranBy, disturbed>>

(* The connectors listen.  Then start reads the jobs. *)
ListMissed(p) ==
  /\ Moves(p, "listening", IF overdue THEN "missed" ELSE "scheduled")
  /\ ranBy' = IF overdue THEN ranBy \cup {p} ELSE ranBy
  /\ UNCHANGED <<leaving, heir, fate, overdue, disturbed>>

(* The run ends on its own, or waits for the answer to an approval, which  *)
(* only a connector can bring before the ports are bound.                  *)
RunMissedJob(p) ==
  /\ Moves(p, "missed", "ran") \/ Moves(p, "missed", "asking")
  /\ UNCHANGED <<leaving, heir, fate, overdue, ranBy, disturbed>>

ApprovalAnswered(p) ==
  /\ Moves(p, "asking", "ran")
  /\ UNCHANGED <<leaving, heir, fate, overdue, ranBy, disturbed>>

(* wait_for_decision gives up. *)
ApprovalExpires(p) ==
  /\ Moves(p, "asking", "ran")
  /\ UNCHANGED <<leaving, heir, fate, overdue, ranBy, disturbed>>

(* Slip: the run is not recorded. *)
LeaveOverdue(p) ==
  /\ Moves(p, "ran", "scheduled")
  /\ UNCHANGED <<leaving, heir, fate, overdue, ranBy, disturbed>>

(* record_run sets next_run_at; its error is ignored. *)
RecordMissedRun(p) ==
  /\ Moves(p, "ran", "scheduled")
  /\ \/ overdue' = FALSE /\ UNCHANGED disturbed
     \/ MayFail /\ overdue' = overdue /\ disturbed' = TRUE
  /\ UNCHANGED <<leaving, heir, fate, ranBy>>

(* Slip: the error of start ends the boot. *)
SchedulerIsFatal(p) ==
  /\ life[p] = "listening"
  /\ Dies(p, "scheduler")
  /\ UNCHANGED <<heir, overdue, ranBy, disturbed>>

(* start returns an error: it is logged, the boot goes on. *)
SchedulerFails(p) ==
  /\ Moves(p, "listening", "scheduled")
  /\ UNCHANGED <<leaving, heir, fate, overdue, ranBy, disturbed>>

(* TcpListener::bind, with a "?": a port that is in use ends the process. *)
Bind(p, port) ==
  /\ life[p] = IF port = "http" THEN "scheduled" ELSE "http"
  /\ IF Bound(port) = {}
     THEN /\ life' = [life EXCEPT ![p] = IF port = "http" THEN "http" ELSE "serving"]
          /\ UNCHANGED <<leaving, fate>>
     ELSE Dies(p, "port")
  /\ UNCHANGED <<heir, overdue, ranBy, disturbed>>

-----------------------------------------------------------------------------
(* /restart, from the chat of the HTTP API: "Restarting NexMind server..." *)
CmdRestart(p, child) ==
  /\ p \in Bound("http")
  /\ Born(child)
  /\ life' = [life EXCEPT ![child] = "opening"]
  /\ leaving' = leaving \cup {p}
  /\ heir' = [heir EXCEPT ![p] = child]
  /\ UNCHANGED <<fate, overdue, ranBy>>

ExitAfterDelay(p) ==
  /\ p \in leaving
  /\ Dies(p, "restart")
  /\ UNCHANGED <<heir, overdue, ranBy, disturbed>>

(* Ctrl-C, kill, power. *)
Killed(p) ==
  /\ MayFail /\ p \in Alive
  /\ Dies(p, "killed")
  /\ disturbed' = (disturbed \/ life[p] \in {"missed", "asking", "ran"})
  /\ UNCHANGED <<heir, overdue, ranBy>>

BootStep(p) ==
  \/ OpenDatabases(p) \/ ListMissed(p) \/ RunMissedJob(p) \/ ApprovalExpires(p)
  \/ RecordMissedRun(p) \/ (\E port \in Ports : Bind(p, port))

DaemonNext == \E p \in Pids :
  \/ Launch(p) \/ BootStep(p) \/ ApprovalAnswered(p) \/ SchedulerFails(p)
  \/ (\E child \in Pids : CmdRestart(p, child)) \/ ExitAfterDelay(p) \/ Killed(p)

DaemonSpec == DaemonInit /\ [][DaemonNext]_daemonVars

(* A boot goes on, a run that nobody approves ends at its timeout, and the *)
(* thread of /restart ends its process; as a boot never goes back, it is   *)
(* enough that one process goes on while any can.  Nobody has to start or  *)
(* stop one.                                                               *)
DaemonProgress == \E p \in Pids : BootStep(p) \/ ExitAfterDelay(p)

FairDaemonSpec == DaemonSpec /\ WF_daemonVars(DaemonProgress)

-----------------------------------------------------------------------------
DaemonTypeOK ==
  /\ life \in [Pids -> LifePhases]
  /\ leaving \subseteq Alive
  /\ heir \in [Pids -> Pids]
  /\ fate \in [Pids -> {"none", "database", "scheduler", "port", "restart", "killed"}]
  /\ overdue \in BOOLEAN
  /\ ranBy \subseteq Pids
  /\ disturbed \in BOOLEAN

(* The process started in place of p serves, or came to an end that has    *)
(* nothing to do with p.                                                   *)
Replaced(p) ==
  life[heir[p]] = "serving" \/ fate[heir[p]] \in {"killed", "database", "restart"}

(* Two daemons never serve a port together, whoever started them. *)
PortsExclusive == \A port \in Ports : Cardinality(Bound(port)) <= 1

(* A missed run of a job is made good once, however often the daemon is    *)
(* started, unless two processes were alive together, as they are during   *)
(* every /restart, or a run was cut short or could not be recorded.        *)
MissedRunMadeGoodOnce == Cardinality(ranBy) > 1 => disturbed

(* After /restart the old process ends, and the very process that was      *)
(* started in its place serves, although its boot awaits the runs of       *)
(* missed jobs, approvals included, before it binds a port; unless that    *)
(* process was killed or restarted itself, could not open its database, or *)
(* met a port in use.                                                      *)
RestartHandsOver == \A p \in Pids :
  (p \in leaving) ~> (life[p] = "dead" /\ (Replaced(p) \/ fate[heir[p]] = "port"))

(* "Restarting NexMind server..." (apps/daemon/src/commands.rs:179): the   *)
(* new process takes over, unless somebody ends it or its database fails.  *)
RestartServes == \A p \in Pids : (p \in leaving) ~> Replaced(p)
=============================================================================
