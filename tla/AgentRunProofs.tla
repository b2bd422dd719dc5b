--------------------------- MODULE AgentRunProofs ---------------------------
(***************************************************************************)
(* What holds of AgentRun for any number of runs and agents and for every  *)
(* policy and budget.                                                      *)
(***************************************************************************)
EXTENDS AgentRun, TLAPS

(* A run has decided how it ends exactly when it has left the loop. *)
StatusInv(r) ==
  IF pc[r] \in {"storing", "done"} THEN status[r] \in {"completed", "failed"}
                                   ELSE status[r] = "executing"

(* The counter has passed the limit only in a run that it stopped; the      *)
(* response is kept from the call to its handling.                         *)
LoopInv(r) ==
  /\ pc[r] \notin {"storing", "done"} => iterations[r] <= MaxIterations
  /\ pc[r] \in {"billing", "checking", "handling"} => response[r] \in Responses

(* Where the run is bounds how far beyond its budget it can be. *)
TokensInv(r) ==
  /\ pc[r] \in {"idle", "planning"} => tokens[r] = 0
  /\ pc[r] = "reflecting" => tokens[r] <= MaxTokensPerRun
  /\ pc[r] \in {"calling", "falling_back"} =>
       tokens[r] <= MaxTokensPerRun + MaxCallTokens
  /\ tokens[r] <= MaxTokensPerRun + 2 * MaxCallTokens

(* A call recorded when the budget was spent was the run's last. *)
BudgetInv(r) ==
  /\ over[r] \in {0, 1}
  /\ over[r] = 1 => /\ pc[r] \in {"checking", "storing", "done"}
                    /\ spent[AgentOf[r]] >= MaxCostPerDay

(* A run cancelled at the head of its loop leaves; elsewhere it first gets *)
(* to the head again.                                                      *)
LateInv(r) ==
  /\ r \notin cancelled => late[r] = 0
  /\ pc[r] \in {"idle", "planning", "reflecting"} => late[r] = 0
  /\ pc[r] \in {"calling", "billing", "checking", "handling"} => late[r] <= 1
  /\ late[r] <= 2

(* Only a run that waits can be dropped, and a dropped run waits for ever. *)
RegistryInv(r) ==
  /\ r \in dropped => pc[r] \in Awaits
  /\ (r \in active) = (Live(r) \/ r \in dropped)

RunInv(r) ==
  /\ StatusInv(r) /\ LoopInv(r) /\ TokensInv(r) /\ LateInv(r) /\ RegistryInv(r)
  /\ ~DbMayFail => BudgetInv(r)

IInv == TypeOK /\ \A r \in Runs : RunInv(r)

(* Every step names the variables it leaves alone by these groups. *)
USE DEF loop, registry, costs

LEMMA InitInductive == Init => IInv
  <1> SUFFICES ASSUME Init PROVE IInv
    OBVIOUS
  <1>1. TypeOK
    BY PolicyAssumption DEF Init, TypeOK, Phases, Awaits
  <1>2. ASSUME NEW r \in Runs PROVE RunInv(r)
    BY PolicyAssumption, RunsAssumption
    DEF Init, RunInv, StatusInv, LoopInv, TokensInv, LateInv, RegistryInv, BudgetInv, Live
  <1> QED BY <1>1, <1>2 DEF IInv

(* A step of a run keeps the types. *)
LEMMA StepTypes ==
  ASSUME IInv, NEW r \in Runs, Step(r)
  PROVE  TypeOK'
  <1> USE PolicyAssumption, RunsAssumption DEF IInv, TypeOK, Go, Use, Leave, Begin, Awaits, Phases
  <1>1. CASE Plan(r)
    BY <1>1 DEF Plan
  <1>2. CASE Iterate(r)
    BY <1>2 DEF Iterate, RunInv, LoopInv
  <1>3. CASE Reflect(r)
    BY <1>3 DEF Reflect
  <1>4. CASE Respond(r)
    BY <1>4 DEF Respond, Responses, NoResponse
  <1>5. CASE CallFails(r)
    BY <1>5 DEF CallFails
  <1>6. CASE FallBack(r)
    BY <1>6 DEF FallBack
  <1>7. CASE Record(r)
    BY <1>7 DEF Record, RunInv, LoopInv, Responses
  <1>8. CASE CheckBudget(r)
    BY <1>8 DEF CheckBudget, RunInv, LoopInv, Responses, NoResponse
  <1>9. CASE Handle(r)
    BY <1>9 DEF Handle
  <1>10. CASE ToolsReturn(r)
    BY <1>10 DEF ToolsReturn
  <1>11. CASE Report(r)
    BY <1>11 DEF Report
  <1> QED BY <1>1, <1>2, <1>3, <1>4, <1>5, <1>6, <1>7, <1>8, <1>9, <1>10, <1>11 DEF Step

(* Only the run that steps, and its agent's records, change. *)
LEMMA StepFrame ==
  ASSUME IInv, NEW r \in Runs, Step(r), NEW s \in Runs, s # r, RunInv(s)
  PROVE  RunInv(s)'
  <1> USE PolicyAssumption, RunsAssumption DEF IInv, TypeOK, Go, Use, Leave, Begin
  <1>1. /\ pc'[s] = pc[s] /\ iterations'[s] = iterations[s] /\ tokens'[s] = tokens[s]
        /\ response'[s] = response[s] /\ status'[s] = status[s] /\ over'[s] = over[s]
        /\ late'[s] = late[s]
    BY DEF Step, Plan, Iterate, Reflect, Respond, CallFails, FallBack, Record, CheckBudget,
           Handle, ToolsReturn, Report
  <1>2. (s \in active') = (s \in active) /\ cancelled' = cancelled /\ dropped' = dropped
    BY DEF Step, Plan, Iterate, Reflect, Respond, CallFails, FallBack, Record, CheckBudget,
           Handle, ToolsReturn, Report
  <1>3. spent'[AgentOf[s]] >= spent[AgentOf[s]]
    <2>1. CASE Record(r)
      BY <2>1 DEF Record, RunInv, LoopInv, Responses
    <2>2. CASE spent' = spent
      BY <2>2
    <2> QED
      BY <2>1, <2>2 DEF Step, Plan, Iterate, Reflect, Respond, CallFails, FallBack, CheckBudget,
           Handle, ToolsReturn, Report
  <1>4. spent' \in [Agents -> Nat]
    BY StepTypes DEF TypeOK
  <1> QED
    BY <1>1, <1>2, <1>3, <1>4
    DEF RunInv, StatusInv, LoopInv, TokensInv, LateInv, RegistryInv, BudgetInv, Live

(* The run that steps keeps its own part, whatever it does. *)
LEMMA StepKeepsOwn ==
  ASSUME IInv, NEW r \in Runs, Step(r)
  PROVE  RunInv(r)'
  <1> USE PolicyAssumption, RunsAssumption DEF IInv, TypeOK, Go, Use, Leave, Begin, Awaits
  <1>1. RunInv(r) /\ r \notin dropped
    BY DEF Step
  <1>2. StatusInv(r)'
    BY <1>1
    DEF Step, Plan, Iterate, Reflect, Respond, CallFails, FallBack, Record, CheckBudget,
        Handle, ToolsReturn, Report, RunInv, StatusInv
  <1>3. LoopInv(r)'
    <2>1. CASE Iterate(r)
      BY <2>1 DEF Iterate, Stops, LoopInv
    <2> QED
      BY <1>1, <2>1
      DEF Step, Plan, Reflect, Respond, CallFails, FallBack, Record, CheckBudget,
          Handle, ToolsReturn, Report, RunInv, LoopInv
  <1>4. TokensInv(r)'
    <2>1. CASE Iterate(r)
      BY <1>1, <2>1 DEF Iterate, Stops, RunInv, TokensInv
    <2>2. CASE Plan(r) \/ Reflect(r) \/ FallBack(r)
      BY <1>1, <2>2 DEF Plan, Reflect, FallBack, RunInv, TokensInv
    <2>3. CASE Respond(r)
      BY <1>1, <2>3 DEF Respond, Responses, RunInv, TokensInv
    <2> QED
      BY <1>1, <2>1, <2>2, <2>3
      DEF Step, CallFails, Record, CheckBudget, Handle, ToolsReturn, Report, RunInv, TokensInv
  <1>5. LateInv(r)'
    <2>1. CASE Iterate(r)
      BY <1>1, <2>1 DEF Iterate, Stops, RunInv, LateInv
    <2>2. CASE Reflect(r) \/ CallFails(r) \/ Handle(r)
      BY <1>1, <2>2 DEF Reflect, CallFails, Handle, RunInv, LateInv
    <2> QED
      BY <1>1, <2>1, <2>2
      DEF Step, Plan, Respond, FallBack, Record, CheckBudget, ToolsReturn, Report, RunInv,
          LateInv
  <1>6. RegistryInv(r)'
    BY <1>1
    DEF Step, Plan, Iterate, Reflect, Respond, CallFails, FallBack, Record, CheckBudget,
        Handle, ToolsReturn, Report, RunInv, RegistryInv, Live
  <1>7. ASSUME ~DbMayFail PROVE BudgetInv(r)'
    <2>1. BudgetInv(r)
      BY <1>1, <1>7 DEF RunInv
    <2>2. CASE Record(r)
      BY <1>1, <2>1, <2>2 DEF Record, RunInv, LoopInv, Responses, BudgetInv
    <2>3. CASE CheckBudget(r)
      BY <1>7, <2>1, <2>3 DEF CheckBudget, BudgetInv
    <2> QED
      BY <2>1, <2>2, <2>3
      DEF Step, Plan, Iterate, Reflect, Respond, CallFails, FallBack, Handle, ToolsReturn,
          Report, BudgetInv
  <1> QED BY <1>2, <1>3, <1>4, <1>5, <1>6, <1>7 DEF RunInv

(* Every step keeps the invariant. *)
LEMMA NextKeeps == IInv /\ [Next]_vars => IInv'
  <1> SUFFICES ASSUME IInv, [Next]_vars PROVE IInv'
    OBVIOUS
  <1>1. ASSUME NEW r \in Runs, Step(r) PROVE IInv'
    <2>1. ASSUME NEW s \in Runs PROVE RunInv(s)'
      BY <1>1, <2>1, StepKeepsOwn, StepFrame DEF IInv
    <2> QED BY <1>1, <2>1, StepTypes DEF IInv
  <1>2. ASSUME NEW r \in Runs, Start(r) PROVE IInv'
    <2> USE <1>2 DEF IInv, TypeOK, Start, Go
    <2>1. TypeOK'
      BY DEF Phases, Awaits
    <2>2. ASSUME NEW s \in Runs PROVE RunInv(s)'
      BY PolicyAssumption
      DEF RunInv, StatusInv, LoopInv, TokensInv, LateInv, RegistryInv, BudgetInv, Live, Awaits
    <2> QED BY <2>1, <2>2
  <1>3. ASSUME NEW r \in Runs, Cancel(r) PROVE IInv'
    BY <1>3
    DEF IInv, TypeOK, Cancel, RunInv, StatusInv, LoopInv, TokensInv, LateInv, RegistryInv,
        BudgetInv, Live
  <1>4. ASSUME NEW r \in Runs, Drop(r) PROVE IInv'
    BY <1>4
    DEF IInv, TypeOK, Drop, RunInv, StatusInv, LoopInv, TokensInv, LateInv, RegistryInv,
        BudgetInv, Live
  <1>5. CASE UNCHANGED vars
    BY <1>5
    DEF vars, IInv, TypeOK, RunInv, StatusInv, LoopInv, TokensInv, LateInv, RegistryInv,
        BudgetInv, Live
  <1> QED BY <1>1, <1>2, <1>3, <1>4, <1>5 DEF Next

LEMMA Invariance == Spec => []IInv
  BY InitInductive, NextKeeps, PTL DEF Spec

-----------------------------------------------------------------------------
(* Every reachable state is type correct, and no run counts an iteration   *)
(* beyond the one that stops it.                                           *)
THEOREM TypeCorrect == Spec => []TypeOK
  <1>1. IInv => TypeOK
    BY DEF IInv
  <1> QED BY <1>1, Invariance, PTL

(* Of each run at most one call is recorded after the agent's budget for   *)
(* the day is spent, however many runs share the budget, when the cost     *)
(* database does not fail.                                                 *)
THEOREM BudgetHolds == Spec => []OverBudgetOnce
  <1>1. IInv => OverBudgetOnce
    <2> SUFFICES ASSUME IInv, ~DbMayFail, NEW r \in Runs PROVE over[r] <= 1
      BY DEF OverBudgetOnce
    <2>1. BudgetInv(r)
      BY DEF IInv, RunInv
    <2> QED BY <2>1 DEF BudgetInv
  <1> QED BY <1>1, Invariance, PTL

(* A run exceeds its token budget by two LLM calls at most. *)
THEOREM TokenBudgetHolds == Spec => []TokensBounded
  <1>1. IInv => TokensBounded
    BY DEF IInv, TokensBounded, RunInv, TokensInv
  <1> QED BY <1>1, Invariance, PTL

(* Both budgets that the loop enforces hold, each up to the calls it       *)
(* cannot foresee.                                                         *)
THEOREM BudgetsKept == Spec => []BudgetsHold
  <1>1. OverBudgetOnce /\ TokensBounded => BudgetsHold
    BY DEF BudgetsHold
  <1> QED BY <1>1, BudgetHolds, TokenBudgetHolds, PTL

(* After its cancellation a run begins at most two more calls. *)
THEOREM CancellationHolds == Spec => []CancelledStopsSoon
  <1>1. IInv => CancelledStopsSoon
    BY DEF IInv, CancelledStopsSoon, RunInv, LateInv
  <1> QED BY <1>1, Invariance, PTL

(* A run can be cancelled as long as it lives, and only a dropped run      *)
(* leaks its token.                                                        *)
THEOREM RegistryExact == Spec => []LeakOnlyByDrop
  <1>1. IInv => LeakOnlyByDrop
    BY DEF IInv, LeakOnlyByDrop, RunInv, RegistryInv
  <1> QED BY <1>1, Invariance, PTL

(* The state of run r, as the refinement mapping has it. *)
StateOf(r) == IF pc[r] \in {"idle", "planning", "reflecting"} THEN pc[r] ELSE status[r]

(* A step of a run moves it along the table of can_transition_to, or       *)
(* leaves its state alone.                                                 *)
LEMMA StepFollowsTable ==
  ASSUME IInv, NEW r \in Runs, Start(r) \/ Step(r)
  PROVE  /\ StateOf(r)' = StateOf(r)
            \/ /\ Lifecycle!CanTransitionTo(StateOf(r), StateOf(r)')
               /\ StateOf(r)' \in Lifecycle!States
         /\ \A s \in Runs : s # r => StateOf(s)' = StateOf(s)
  <1> USE DEF IInv, TypeOK, Go, Leave, Begin, StateOf
  <1>1. StatusInv(r)
    BY DEF RunInv
  <1>2. \A s \in Runs : s # r => pc'[s] = pc[s] /\ status'[s] = status[s]
    BY DEF Start, Step, Plan, Iterate, Reflect, Respond, CallFails, FallBack, Record,
           CheckBudget, Handle, ToolsReturn, Report
  <1>3. CASE Start(r)
    BY <1>1, <1>3 DEF Start, StatusInv, Lifecycle!CanTransitionTo, Lifecycle!States
  <1>4. CASE Plan(r) \/ Iterate(r) \/ Reflect(r)
    BY <1>1, <1>4
    DEF Plan, Iterate, Reflect, StatusInv, Lifecycle!CanTransitionTo, Lifecycle!States
  <1>5. CASE CallFails(r) \/ FallBack(r) \/ CheckBudget(r) \/ Handle(r)
    BY <1>1, <1>5
    DEF CallFails, FallBack, CheckBudget, Handle, StatusInv, Lifecycle!CanTransitionTo,
        Lifecycle!States
  <1>6. CASE Respond(r) \/ Record(r) \/ ToolsReturn(r) \/ Report(r)
    BY <1>1, <1>6 DEF Respond, Record, ToolsReturn, Report, StatusInv
  <1> QED BY <1>2, <1>3, <1>4, <1>5, <1>6 DEF Step

(* The loop of run keeps to the lifecycle of state.rs, which it never      *)
(* consults.                                                               *)
THEOREM FollowsLifecycle == Spec => LifecycleSpec
  <1> DEFINE state == [r \in Runs |-> StateOf(r)]
  <1>1. Init => Lifecycle!Init
    BY DEF Init, Lifecycle!Init
  <1>2. IInv /\ [Next]_vars => [Lifecycle!Next]_state
    <2> SUFFICES ASSUME IInv, Next \/ UNCHANGED vars
                 PROVE  Lifecycle!Next \/ state' = state
      BY DEF StateOf
    <2>1. ASSUME NEW r \in Runs, Start(r) \/ Step(r)
          PROVE  Lifecycle!Next \/ state' = state
      <3>1. CASE StateOf(r)' = StateOf(r)
        BY <2>1, <3>1, StepFollowsTable
      <3>2. CASE /\ Lifecycle!CanTransitionTo(StateOf(r), StateOf(r)')
                 /\ StateOf(r)' \in Lifecycle!States
        <4>1. state' = [state EXCEPT ![r] = StateOf(r)']
          BY <2>1, StepFollowsTable
        <4> QED
          BY <3>2, <4>1 DEF Lifecycle!Next, Lifecycle!Transition, StateOf
      <3> QED BY <2>1, <3>1, <3>2, StepFollowsTable
    <2>2. ASSUME NEW r \in Runs, Cancel(r) \/ Drop(r) PROVE state' = state
      BY <2>2 DEF Cancel, Drop, StateOf
    <2>3. CASE UNCHANGED vars
      BY <2>3 DEF vars, StateOf
    <2> QED BY <2>1, <2>2, <2>3 DEF Next
  <1> QED
    BY <1>1, <1>2, Invariance, PTL DEF Spec, LifecycleSpec, Lifecycle!Spec, StateOf

-----------------------------------------------------------------------------
(* What fairness is not needed for in RunEnds: a bound of the steps that a *)
(* run may still take, ten for each iteration to come and what is ahead in *)
(* the one it is in.                                                       *)
Ahead(label) ==
  CASE label = "reflecting" -> 9
    [] label = "calling" -> 8
    [] label \in {"falling_back", "billing"} -> 7
    [] label = "checking" -> 6
    [] label = "handling" -> 5
    [] label = "tools" -> 4
    [] label = "top" -> 2

Outside == {"idle", "planning", "storing", "done"}

Left(i) == 10 * (MaxIterations + 1 - i)

StepsLeft(r) ==
  CASE pc[r] = "done" -> 0
    [] pc[r] = "storing" -> 1
    [] pc[r] = "planning" -> Left(0) + 3
    [] pc[r] = "idle" -> Left(0) + 4
    [] OTHER -> Left(iterations[r]) + Ahead(pc[r])

(* An iteration more is ten steps less. *)
LEMMA LeftFacts ==
  /\ \A i \in 0 .. MaxIterations + 1 : Left(i) \in Nat /\ Left(i) <= Left(0)
  /\ \A i \in 0 .. MaxIterations : Left(i) = Left(i + 1) + 10
  BY PolicyAssumption DEF Left

(* Nothing takes more than those ten. *)
LEMMA AheadFacts ==
  /\ \A l \in Phases \ Outside : Ahead(l) \in 2 .. 9
  /\ Ahead("reflecting") = 9 /\ Ahead("calling") = 8 /\ Ahead("falling_back") = 7
  /\ Ahead("billing") = 7 /\ Ahead("checking") = 6 /\ Ahead("handling") = 5
  /\ Ahead("tools") = 4 /\ Ahead("top") = 2
  BY DEF Ahead, Phases, Awaits, Outside

(* The bound is one. *)
LEMMA StepsLeftBound ==
  ASSUME IInv, NEW r \in Runs
  PROVE  StepsLeft(r) \in 0 .. Left(0) + 9
  <1>1. pc[r] \in Phases /\ iterations[r] \in 0 .. MaxIterations + 1
    BY DEF IInv, TypeOK
  <1>2. Left(0) \in Nat /\ Left(iterations[r]) \in Nat /\ Left(iterations[r]) <= Left(0)
    BY <1>1, LeftFacts, PolicyAssumption
  <1>3. CASE pc[r] \in Outside
    BY <1>2, <1>3 DEF Outside, StepsLeft
  <1>4. CASE pc[r] \notin Outside
    <2>1. StepsLeft(r) = Left(iterations[r]) + Ahead(pc[r])
      BY <1>4 DEF Outside, StepsLeft
    <2>2. Ahead(pc[r]) \in 2 .. 9
      BY <1>1, <1>4, AheadFacts
    <2> QED BY <1>2, <2>1, <2>2
  <1> QED BY <1>3, <1>4

(* A step of a run leaves it fewer, and the others as many as they had. *)
LEMMA StepTakesOne ==
  ASSUME IInv, NEW r \in Runs, Step(r)
  PROVE  /\ StepsLeft(r)' < StepsLeft(r) /\ pc'[r] # pc[r]
         /\ \A s \in Runs \ {r} : pc'[s] = pc[s] /\ StepsLeft(s)' = StepsLeft(s)
  <1> DEFINE Sooner == StepsLeft(r)' < StepsLeft(r) /\ pc'[r] # pc[r]
  <1>t. /\ pc \in [Runs -> Phases] /\ iterations \in [Runs -> 0 .. MaxIterations + 1]
        /\ pc[r] \notin {"storing", "done"} => iterations[r] <= MaxIterations
    BY DEF IInv, TypeOK, RunInv, LoopInv
  <1>1. \A s \in Runs \ {r} : pc'[s] = pc[s] /\ iterations'[s] = iterations[s]
    <2>1. CASE Iterate(r)
      BY <1>t, <2>1 DEF Iterate, Go, Leave, Begin
    <2>2. CASE iterations' = iterations
      BY <1>t, <2>2 DEF Step, Plan, Iterate, Reflect, Respond, CallFails, FallBack, Record,
             CheckBudget, Handle, ToolsReturn, Report, Go, Leave, Begin
    <2> QED BY <2>1, <2>2 DEF Step, Plan, Reflect, Respond, CallFails, FallBack, Record,
                  CheckBudget, Handle, ToolsReturn, Report, loop
  <1>2. \A s \in Runs \ {r} : StepsLeft(s)' = StepsLeft(s)
    BY <1>1 DEF StepsLeft
  <1>3. /\ iterations[r] \in 0 .. MaxIterations + 1 /\ 0 \in 0 .. MaxIterations + 1
        /\ Left(iterations[r]) \in Nat /\ Left(0) \in Nat /\ Left(iterations[r]) <= Left(0)
    BY <1>t, LeftFacts, PolicyAssumption
  <1>4. ASSUME iterations'[r] = iterations[r], pc[r] \in Phases \ Outside,
               \/ pc'[r] = "storing"
               \/ pc'[r] \in Phases \ Outside /\ Ahead(pc'[r]) < Ahead(pc[r])
        PROVE  Sooner
    <2>1. StepsLeft(r) = Left(iterations[r]) + Ahead(pc[r]) /\ Ahead(pc[r]) \in 2 .. 9
      BY <1>4, AheadFacts DEF StepsLeft, Outside
    <2>2. CASE pc'[r] = "storing"
      <3>1. StepsLeft(r)' = 1
        BY <2>2 DEF StepsLeft
      <3> QED BY <1>3, <1>4, <2>1, <2>2, <3>1 DEF Outside
    <2>3. CASE pc'[r] \in Phases \ Outside /\ Ahead(pc'[r]) < Ahead(pc[r])
      <3>1. StepsLeft(r)' = Left(iterations[r]) + Ahead(pc'[r]) /\ Ahead(pc'[r]) \in 2 .. 9
        BY <1>4, <2>3, AheadFacts DEF StepsLeft, Outside
      <3> QED BY <1>3, <2>1, <2>3, <3>1
    <2> QED BY <1>4, <2>2, <2>3
  <1>5. ASSUME Plan(r) PROVE Sooner
    <2>1. pc[r] = "planning" /\ pc'[r] = "top" /\ iterations'[r] = iterations[r]
      BY <1>t, <1>5 DEF Plan, Go
    <2>2. StepsLeft(r) = Left(0) + 3 /\ StepsLeft(r)' = Left(iterations[r]) + 2
      BY <2>1, AheadFacts DEF StepsLeft
    <2> QED BY <1>3, <2>1, <2>2
  <1>6. ASSUME Iterate(r) PROVE Sooner
    <2>1. pc[r] = "top" /\ iterations'[r] = iterations[r] + 1
      BY <1>t, <1>6 DEF Iterate
    <2>2. \/ pc'[r] = "storing"
          \/ iterations[r] + 1 <= MaxIterations /\ pc'[r] \in {"reflecting", "calling"}
      BY <1>t, <1>6, PolicyAssumption DEF Iterate, Stops, Leave, Go, Begin
    <2>3. StepsLeft(r) = Left(iterations[r]) + 2
      BY <2>1, AheadFacts DEF StepsLeft
    <2>4. CASE pc'[r] = "storing"
      <3>1. StepsLeft(r)' = 1
        BY <2>4 DEF StepsLeft
      <3> QED BY <1>3, <2>1, <2>3, <2>4, <3>1
    <2>5. CASE iterations[r] + 1 <= MaxIterations /\ pc'[r] \in {"reflecting", "calling"}
      <3>1. StepsLeft(r)' = Left(iterations[r] + 1) + Ahead(pc'[r]) /\ Ahead(pc'[r]) \in {8, 9}
        BY <2>1, <2>5, AheadFacts DEF StepsLeft
      <3>2. /\ Left(iterations[r]) = Left(iterations[r] + 1) + 10
            /\ Left(iterations[r] + 1) \in Nat
        <4>1. iterations[r] \in 0 .. MaxIterations /\ iterations[r] + 1 \in 0 .. MaxIterations + 1
          BY <1>3, <2>5, PolicyAssumption
        <4> QED BY <4>1, LeftFacts
      <3> QED BY <2>1, <2>3, <2>5, <3>1, <3>2
    <2> QED BY <2>2, <2>4, <2>5
  <1>7. ASSUME Reflect(r) \/ Respond(r) \/ CallFails(r) \/ FallBack(r) PROVE Sooner
    <2>1. /\ iterations'[r] = iterations[r]
          /\ \/ pc[r] = "reflecting" /\ pc'[r] = "calling"
             \/ pc[r] = "calling" /\ pc'[r] \in {"billing", "falling_back", "storing"}
             \/ pc[r] = "falling_back" /\ pc'[r] = "storing"
      BY <1>t, <1>7 DEF Reflect, Respond, CallFails, FallBack, Go, Leave, Begin, loop
    <2> QED BY <1>4, <2>1, AheadFacts DEF Phases, Awaits, Outside
  <1>8. ASSUME Record(r) \/ CheckBudget(r) \/ Handle(r) \/ ToolsReturn(r) PROVE Sooner
    <2>1. /\ iterations'[r] = iterations[r]
          /\ \/ pc[r] = "billing" /\ pc'[r] = "checking"
             \/ pc[r] = "checking" /\ pc'[r] \in {"handling", "storing"}
             \/ pc[r] = "handling" /\ pc'[r] \in {"tools", "storing"}
             \/ pc[r] = "tools" /\ pc'[r] = "top"
      BY <1>t, <1>8 DEF Record, CheckBudget, Handle, ToolsReturn, Go, Leave, Begin, loop
    <2> QED BY <1>4, <2>1, AheadFacts DEF Phases, Awaits, Outside
  <1>9. ASSUME Report(r) PROVE Sooner
    <2>1. pc[r] = "storing" /\ pc'[r] = "done"
      BY <1>t, <1>9 DEF Report, Go
    <2> QED BY <2>1 DEF StepsLeft
  <1> QED BY <1>1, <1>2, <1>5, <1>6, <1>7, <1>8, <1>9 DEF Step

(* What a run may still do grows less with every step of it, whatever the  *)
(* model answers, whichever calls fail, and whoever else does something:   *)
(* the head of the loop counts an iteration before each call, and no path  *)
(* leads back into the same iteration.                                     *)
EveryStepCounts ==
  \A r \in Runs :
    IF pc'[r] = pc[r] THEN StepsLeft(r)' = StepsLeft(r) ELSE StepsLeft(r)' < StepsLeft(r)

(* Hence a run ends when it is given enough steps: no more than these.     *)
THEOREM RunsRunOut ==
  Spec => /\ [](\A r \in Runs : StepsLeft(r) \in 0 .. Left(0) + 9)
          /\ [][EveryStepCounts]_vars
  <1>1. IInv => \A r \in Runs : StepsLeft(r) \in 0 .. Left(0) + 9
    BY StepsLeftBound
  <1>2. IInv /\ [Next]_vars => [EveryStepCounts]_vars
    <2> SUFFICES ASSUME IInv, Next PROVE EveryStepCounts
      OBVIOUS
    <2>t. pc \in [Runs -> Phases]
      BY DEF IInv, TypeOK
    <2>1. ASSUME NEW r \in Runs, Step(r) PROVE EveryStepCounts
      <3>1. \A s \in Runs \ {r} : pc'[s] = pc[s] /\ StepsLeft(s)' = StepsLeft(s)
        BY <2>1, StepTakesOne
      <3>2. StepsLeft(r)' < StepsLeft(r) /\ pc'[r] # pc[r]
        BY <2>1, StepTakesOne
      <3> QED BY <3>1, <3>2 DEF EveryStepCounts
    <2>2. ASSUME NEW r \in Runs, Start(r) PROVE EveryStepCounts
      <3>1. pc[r] = "idle" /\ pc'[r] \in {"planning", "top"} /\ iterations' = iterations
        BY <2>t, <2>2, PolicyAssumption DEF Start, Go, loop
      <3>2. \A s \in Runs \ {r} : pc'[s] = pc[s]
        BY <2>t, <2>2 DEF Start, Go
      <3>3. Left(iterations[r]) \in Nat /\ Left(0) \in Nat /\ Left(iterations[r]) <= Left(0)
        <4>1. iterations[r] \in 0 .. MaxIterations + 1 /\ 0 \in 0 .. MaxIterations + 1
          BY PolicyAssumption DEF IInv, TypeOK
        <4> QED BY <4>1, LeftFacts
      <3>4. /\ StepsLeft(r) = Left(0) + 4
            /\ StepsLeft(r)' \in {Left(0) + 3, Left(iterations[r]) + 2}
        BY <3>1, AheadFacts DEF StepsLeft
      <3>5. \A s \in Runs \ {r} : StepsLeft(s)' = StepsLeft(s)
        BY <3>1, <3>2 DEF StepsLeft
      <3>6. StepsLeft(r)' < StepsLeft(r) /\ pc'[r] # pc[r]
        BY <3>1, <3>3, <3>4
      <3> QED BY <3>2, <3>5, <3>6 DEF EveryStepCounts
    <2>3. ASSUME NEW r \in Runs, Cancel(r) \/ Drop(r) PROVE EveryStepCounts
      BY <2>3 DEF Cancel, Drop, EveryStepCounts, StepsLeft, loop
    <2> QED BY <2>1, <2>2, <2>3 DEF Next
  <1> QED BY <1>1, <1>2, Invariance, PTL DEF Spec
=============================================================================
