-------------------------------- MODULE Team --------------------------------
(***************************************************************************)
(* TeamOrchestrator::run_team for the two patterns without a supervisor.   *)
(* A sequential team awaits its members one after another.  A fan-out team *)
(* sorts its members into levels by depends_on, cuts each level into       *)
(* chunks, spawns a task for every member of a chunk and awaits them in    *)
(* the order in which it spawned them.                                     *)
(*                                                                         *)
(* A member fails when the registry does not return its agent, or when its *)
(* task panics.  AgentRuntime::run returns Ok also for a run that failed,  *)
(* so the branches for an Err of it, with the retries, are never entered   *)
(* and are left out.  Inputs and outputs are left out but for which        *)
(* outputs there are.                                                      *)
(***************************************************************************)
EXTENDS Naturals, Sequences, FiniteSets

CONSTANTS
  N,             \* the number of members of the team
  Agents,        \* the agent ids that members and depends_on may name
  MaxConcurrent  \* max_concurrent, the tasks of a chunk

ASSUME SizeAssumption == N \in Nat /\ MaxConcurrent \in Nat \ {0}
ASSUME AgentsAssumption == IsFiniteSet(Agents)

VARIABLES
  pattern, policy,  \* the team's pattern and failure_policy
  agent, deps,      \* agent_id and depends_on of each member
  phase,            \* where run_team is, or how it has returned
  level,            \* topological_sort: the level of each agent id, 0: none yet
  rounds,           \* topological_sort: the levels so far
  at,               \* the level, or the member of a sequential team, that it runs
  chunk,            \* the members of the chunk that it has still to spawn
  handles,          \* the members it has spawned and not awaited yet, in order
  task,             \* task[m]: the run of member m
  ended,            \* ended[m]: as what member m was counted
  outputs,          \* the members with an entry in outputs
  completed, failed

team == <<pattern, policy, agent, deps>>
sorting == <<level, rounds>>
counts == <<ended, outputs, completed, failed>>
vars == <<team, phase, sorting, at, chunk, handles, task, counts>>

-----------------------------------------------------------------------------
Members == 1 .. N
Ids == {agent[m] : m \in Members}
DepsOf(a) == UNION {deps[m] : m \in {k \in Members : agent[k] = a}}
LevelOf(m) == level[agent[m]]

Init ==
  /\ pattern \in {"sequential", "fan_out"}
  /\ policy \in {"suspend", "skip", "retry"}
  /\ agent \in [Members -> Agents]
  /\ deps \in [Members -> SUBSET Agents]
  /\ pattern = "sequential" => \A m \in Members : deps[m] = {}  \* not looked at
  /\ phase = IF pattern = "fan_out" THEN "sorting" ELSE "running"
  /\ level = [a \in Agents |-> 0] /\ rounds = 0
  /\ at = 1
  /\ chunk = {} /\ handles = <<>>
  /\ task = [m \in Members |-> "none"]
  /\ ended = [m \in Members |-> "no"] /\ outputs = {}
  /\ completed = 0 /\ failed = 0

-----------------------------------------------------------------------------
(* Slip: an agent is taken off with its first dependency. *)
ReadyOnFirst ==
  {a \in Ids : level[a] = 0 /\ (DepsOf(a) = {} \/ \E d \in DepsOf(a) : level[d] # 0)}

(* topological_sort takes off, level by level, the agents whose            *)
(* dependencies it has all taken off (in_degree = 0); a dependency that is *)
(* no member never is.                                                     *)
Ready ==
  {a \in Ids : level[a] = 0 /\ \A d \in DepsOf(a) : d \in Ids /\ level[d] # 0}

SortLevel ==
  /\ phase = "sorting" /\ Ready # {}
  /\ rounds' = rounds + 1
  /\ level' = [a \in Agents |-> IF a \in Ready THEN rounds' ELSE level[a]]
  /\ UNCHANGED <<team, phase, at, chunk, handles, task, counts>>

(* It compares the number of agents taken off with the number of members. *)
SortEnds ==
  /\ phase = "sorting" /\ Ready = {}
  /\ phase' = IF Cardinality({a \in Ids : level[a] # 0}) = N THEN "running" ELSE "circular"
  /\ UNCHANGED <<team, sorting, at, chunk, handles, task, counts>>

-----------------------------------------------------------------------------
Count(m, as) ==
  /\ ended' = [ended EXCEPT ![m] = as]
  /\ completed' = IF as = "completed" THEN completed + 1 ELSE completed
  /\ failed' = IF as = "failed" THEN failed + 1 ELSE failed

(* The registry does not return the agent of m and the team is suspended:  *)
(* the handles are dropped, and the tasks behind them run on.              *)
Suspend ==
  /\ policy = "suspend"
  /\ phase' = "error"
  /\ chunk' = {} /\ handles' = <<>>
  /\ UNCHANGED <<team, sorting, at, task, counts>>

FanningOut == phase = "running" /\ pattern = "fan_out"
Left == {m \in Members : LevelOf(m) = at /\ ended[m] = "no"}

(* Slip: the chunks are as large as the levels. *)
TakeLevel ==
  /\ FanningOut /\ chunk = {} /\ handles = <<>>
  /\ Left # {}
  /\ chunk' = Left
  /\ UNCHANGED <<team, phase, sorting, at, handles, task, counts>>

TakeChunk ==
  /\ FanningOut /\ chunk = {} /\ handles = <<>>
  /\ Left # {}
  /\ \E S \in SUBSET Left :
       /\ Cardinality(S) = MaxConcurrent \/ (S = Left /\ Cardinality(S) <= MaxConcurrent)
       /\ chunk' = S
  /\ UNCHANGED <<team, phase, sorting, at, handles, task, counts>>

Spawn(m) ==
  /\ FanningOut /\ m \in chunk
  /\ chunk' = chunk \ {m}
  /\ handles' = Append(handles, m)
  /\ task' = [task EXCEPT ![m] = "running"]
  /\ UNCHANGED <<team, phase, sorting, at, counts>>

NotFound(m) ==
  /\ FanningOut /\ m \in chunk
  /\ \/ Suspend
     \/ /\ policy # "suspend"
        /\ chunk' = chunk \ {m}
        /\ outputs' = outputs \cup {m}
        /\ Count(m, "failed")
        /\ UNCHANGED <<team, phase, sorting, at, handles, task>>

(* The task that is awaited has ended: a join error adds no output, and it *)
(* does not suspend the team.                                              *)
Join(m) ==
  /\ FanningOut /\ chunk = {} /\ handles # <<>>
  /\ m = Head(handles) /\ task[m] # "running"
  /\ handles' = Tail(handles)
  /\ \/ task[m] = "done" /\ outputs' = outputs \cup {m} /\ Count(m, "completed")
     \/ task[m] = "panicked" /\ Count(m, "failed") /\ UNCHANGED outputs
  /\ UNCHANGED <<team, phase, sorting, at, chunk, task>>

(* Slip: the handles of the last chunk are not awaited. *)
NextLevelUnjoined ==
  /\ FanningOut /\ chunk = {} /\ \A m \in Left : task[m] # "none"
  /\ IF at < rounds THEN at' = at + 1 /\ UNCHANGED phase
                    ELSE phase' = "ok" /\ UNCHANGED at
  /\ UNCHANGED <<team, sorting, chunk, handles, task, counts>>

(* Slip: the result waits for all members to complete. *)
NextLevelCompleted ==
  /\ FanningOut /\ chunk = {} /\ handles = <<>> /\ Left = {}
  /\ IF at < rounds THEN at' = at + 1 /\ UNCHANGED phase
                    ELSE completed = N /\ phase' = "ok" /\ UNCHANGED at
  /\ UNCHANGED <<team, sorting, chunk, handles, task, counts>>

NextLevel ==
  /\ FanningOut /\ chunk = {} /\ handles = <<>> /\ Left = {}
  /\ IF at < rounds THEN at' = at + 1 /\ UNCHANGED phase
                    ELSE phase' = "ok" /\ UNCHANGED at
  /\ UNCHANGED <<team, sorting, chunk, handles, task, counts>>

-----------------------------------------------------------------------------
(* A sequential team awaits the run of member at in its own task. *)
Sequential == phase = "running" /\ pattern = "sequential"

RunNext ==
  /\ Sequential /\ at <= N /\ task[at] = "none"
  /\ task' = [task EXCEPT ![at] = "running"]
  /\ UNCHANGED <<team, phase, sorting, at, chunk, handles, counts>>

(* Only the skip policy leaves an output for a member that is not found. *)
NextNotFound ==
  /\ Sequential /\ at <= N /\ task[at] = "none"
  /\ \/ Suspend
     \/ /\ policy # "suspend"
        /\ Count(at, "failed")
        /\ outputs' = IF policy = "skip" THEN outputs \cup {at} ELSE outputs
        /\ at' = at + 1
        /\ UNCHANGED <<team, phase, sorting, chunk, handles, task>>

RunReturns ==
  /\ Sequential /\ at <= N /\ task[at] = "done"
  /\ Count(at, "completed")
  /\ outputs' = outputs \cup {at}
  /\ at' = at + 1
  /\ UNCHANGED <<team, phase, sorting, chunk, handles, task>>

(* A panic of the run is a panic of the team: there is no result. *)
RunPanics ==
  /\ Sequential /\ at <= N /\ task[at] = "panicked"
  /\ phase' = "lost"
  /\ UNCHANGED <<team, sorting, at, chunk, handles, task, counts>>

SequenceEnds ==
  /\ Sequential /\ at > N
  /\ phase' = "ok"
  /\ UNCHANGED <<team, sorting, at, chunk, handles, task, counts>>

-----------------------------------------------------------------------------
(* The run of a member ends, also when the team has returned; it panics    *)
(* where the preview of its input cuts a character (runtime.rs:185).       *)
TaskEnds(m) ==
  /\ task[m] = "running"
  /\ \E how \in {"done", "panicked"} : task' = [task EXCEPT ![m] = how]
  /\ UNCHANGED <<team, phase, sorting, at, chunk, handles, counts>>

TeamStep ==
  \/ SortLevel \/ SortEnds
  \/ TakeChunk \/ NextLevel
  \/ \E m \in Members : Spawn(m) \/ NotFound(m) \/ Join(m)
  \/ RunNext \/ NextNotFound \/ RunReturns \/ RunPanics \/ SequenceEnds

Next == TeamStep \/ \E m \in Members : TaskEnds(m)

Spec == Init /\ [][Next]_vars

(* The runtime polls the team's task, and the runs of its members end      *)
(* (RunEnds of AgentRun).                                                  *)
FairSpec ==
  /\ Spec
  /\ WF_vars(TeamStep)
  /\ \A m \in Members : WF_vars(TaskEnds(m))

-----------------------------------------------------------------------------
(* The types; and the handles are those of members of the current chunk.   *)
TypeOK ==
  /\ pattern \in {"sequential", "fan_out"} /\ policy \in {"suspend", "skip", "retry"}
  /\ agent \in [Members -> Agents] /\ deps \in [Members -> SUBSET Agents]
  /\ phase \in {"sorting", "running", "ok", "error", "circular", "lost"}
  /\ level \in [Agents -> Nat] /\ rounds \in Nat /\ at \in Nat \ {0}
  /\ chunk \subseteq Members /\ handles \in Seq(Members)
  /\ task \in [Members -> {"none", "running", "done", "panicked"}]
  /\ ended \in [Members -> {"no", "completed", "failed"}] /\ outputs \subseteq Members
  /\ completed \in Nat /\ failed \in Nat
  /\ \A i \in DOMAIN handles : task[handles[i]] # "none" /\ ended[handles[i]] = "no"

(* The levels and chunks of a fan-out team do what depends_on asks for: a  *)
(* member is started only when all it depends on has been counted, and it  *)
(* finds their outputs but for those whose task panicked.                  *)
DependenciesFirst ==
  pattern = "fan_out" =>
    \A m \in Members : task[m] # "none" =>
      \A d \in deps[m] : \E k \in Members :
        agent[k] = d /\ ended[k] # "no" /\ (k \in outputs \/ task[k] = "panicked")

(* topological_sort succeeds exactly for the teams that can be run: no two *)
(* members share an agent, every dependency is a member, and the           *)
(* dependencies have no cycle ("Detects circular dependencies.",           *)
(* core/agent-engine/src/team.rs:731).                                     *)
Runnable ==
  /\ \A i, j \in Members : agent[i] = agent[j] => i = j
  /\ \A m \in Members : deps[m] \subseteq Ids
  /\ \A S \in SUBSET Ids \ {{}} : \E a \in S : DepsOf(a) \cap S = {}
SortExact ==
  /\ phase = "circular" => ~Runnable
  /\ pattern = "fan_out" /\ phase \in {"running", "ok", "error"} => Runnable

(* "Max 3 parallel agents per level" (core/agent-engine/src/team.rs:466),  *)
(* also while a team that has been suspended leaves tasks behind.          *)
AtMostConcurrent ==
  Cardinality({m \in Members : task[m] = "running"}) <= MaxConcurrent

(* The counts of a result are right: each member is in one of them, and    *)
(* the completed ones are those whose run has returned.                    *)
CountsAgree ==
  phase = "ok" =>
    /\ completed + failed = N
    /\ completed = Cardinality({m \in Members : task[m] = "done"})

(* When run_team has returned no task of it runs on, unless the team was   *)
(* suspended.                                                              *)
NothingOutlivesResult ==
  (phase \in {"ok", "circular", "lost"} \/ (phase = "error" /\ policy # "suspend")) =>
    \A m \in Members : task[m] # "running"

(* run_team returns. *)
TeamEnds == <>(phase \in {"ok", "error", "circular", "lost"})
=============================================================================
