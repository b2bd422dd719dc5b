------------------------------ MODULE AgentRun ------------------------------
(***************************************************************************)
(* AgentRuntime::run: the loop that turns one request into LLM calls and   *)
(* tool calls until the model answers or a limit stops it.  Runs of one    *)
(* agent share its cost records, every run shares active_runs, the map of  *)
(* cancellation tokens that the CancelTask RPC looks up.  A run may be     *)
(* dropped at an await: a chat request whose client went away, a job whose *)
(* timer was aborted, a delegation that timed out.                         *)
(*                                                                         *)
(* Messages, prompts and memories are left out; of an LLM response only    *)
(* its kind and its tokens matter.  A token costs one unit: the primary    *)
(* model is in the price table.  The window of check_budget does not move: *)
(* no record grows older than it while the runs last.                      *)
(***************************************************************************)
EXTENDS Naturals

CONSTANTS
  Runs, Agents,        \* the runs that may ever be started, and the agents
  AgentOf,             \* AgentOf[r]: the agent whose definition run r executes
  Planning,            \* execution_policy.planning_enabled
  ReflectionInterval,  \* execution_policy.reflection_interval
  MaxIterations,       \* execution_policy.max_iterations
  HasFallback,         \* is model.fallback set?
  MaxTokensPerRun,     \* budget.max_tokens_per_run
  MaxCostPerRun,       \* budget.max_cost_per_run_usd
  MaxCostPerDay,       \* budget.max_cost_per_day_usd
  MaxCallTokens,       \* bound: the tokens of one LLM call
  MaxToolCalls,        \* bound: the tool calls of one response
  DbMayFail            \* may the cost database return an error?

ASSUME RunsAssumption == AgentOf \in [Runs -> Agents]
ASSUME PolicyAssumption ==
  /\ Planning \in BOOLEAN /\ HasFallback \in BOOLEAN /\ DbMayFail \in BOOLEAN
  /\ ReflectionInterval \in Nat /\ MaxIterations \in Nat
  /\ MaxTokensPerRun \in Nat /\ MaxCostPerRun \in Nat /\ MaxCostPerDay \in Nat
  /\ MaxCallTokens \in Nat /\ MaxToolCalls \in Nat

VARIABLES
  pc,          \* pc[r]: what run r does or awaits
  iterations,  \* iterations[r]
  tokens,      \* tokens[r]: total_usage.total_tokens
  since,       \* since[r]: tool_calls_since_reflection
  response,    \* response[r]: the response that waits to be billed and handled
  status,      \* status[r]: the AgentState that run r will return
  active,      \* active_runs: the runs with a registered token
  cancelled,   \* the runs whose token is cancelled
  spent,       \* spent[a]: the cost records of agent a within check_budget's window
  dropped,     \* history: the runs whose future was dropped
  runCost,     \* history: runCost[r]: the cost records of run r
  over,        \* history: over[r]: calls of r recorded when the day's budget was spent
  late         \* history: late[r]: LLM calls and tool batches begun after the cancel

loop == <<iterations, tokens, since, response>>
registry == <<active, cancelled>>
costs == <<spent, runCost, over>>
vars == <<pc, loop, status, registry, costs, dropped, late>>

Awaits == {"planning", "reflecting", "calling", "tools", "falling_back", "storing"}
Phases == Awaits \cup {"idle", "top", "billing", "checking", "handling", "done"}
NoResponse == [kind |-> "none", tokens |-> 0]
Responses == [kind : {"tools", "text"}, tokens : 0 .. MaxCallTokens]
Live(r) == pc[r] \notin {"idle", "done"} /\ r \notin dropped

Init ==
  /\ pc = [r \in Runs |-> "idle"]
  /\ iterations = [r \in Runs |-> 0]
  /\ tokens = [r \in Runs |-> 0]
  /\ since = [r \in Runs |-> 0]
  /\ response = [r \in Runs |-> NoResponse]
  /\ status = [r \in Runs |-> "executing"]
  /\ active = {} /\ cancelled = {} /\ dropped = {}
  /\ spent = [a \in Agents |-> 0]
  /\ runCost = [r \in Runs |-> 0]
  /\ over = [r \in Runs |-> 0]
  /\ late = [r \in Runs |-> 0]

Go(r, to) == pc' = [pc EXCEPT ![r] = to]

(* The loop is left: what follows stores the exchange and reports. *)
Leave(r, how) ==
  /\ Go(r, "storing")
  /\ status' = [status EXCEPT ![r] = how]

Use(r, n) == tokens' = [tokens EXCEPT ![r] = @ + n]

(* An LLM call or a batch of tool calls begins. *)
Begin(r, call) ==
  /\ Go(r, call)
  /\ late' = [late EXCEPT ![r] = IF r \in cancelled THEN @ + 1 ELSE @]

-----------------------------------------------------------------------------
(* run begins: the token is registered and, when the policy asks for it, a *)
(* plan; its LLM call may fail, which is ignored.                          *)
Start(r) ==
  /\ pc[r] = "idle"
  /\ active' = active \cup {r}
  /\ Go(r, IF Planning THEN "planning" ELSE "top")
  /\ UNCHANGED <<loop, status, cancelled, costs, dropped, late>>

(* Slip: a plan that answers the request ends the run. *)
PlanAnswers(r) ==
  /\ pc[r] = "planning"
  /\ \/ \E n \in 0 .. MaxCallTokens : Use(r, n) /\ Leave(r, "completed")
     \/ Go(r, "top") /\ UNCHANGED <<tokens, status>>
  /\ UNCHANGED <<iterations, since, response, registry, costs, dropped, late>>

Plan(r) ==
  /\ pc[r] = "planning"
  /\ \E n \in 0 .. MaxCallTokens : Use(r, n)
  /\ Go(r, "top")
  /\ UNCHANGED <<iterations, since, response, status, registry, costs, dropped, late>>

(* Slip: the token of the run is not looked at. *)
StopsOnLimits(r) == iterations[r] + 1 > MaxIterations \/ tokens[r] > MaxTokensPerRun

Stops(r) ==
  \/ r \in cancelled
  \/ iterations[r] + 1 > MaxIterations
  \/ tokens[r] > MaxTokensPerRun

ReflectionDue(r) == Planning /\ since[r] >= ReflectionInterval /\ since[r] > 0

(* The head of the loop: cancellation, iterations and tokens are checked,  *)
(* then the run reflects or calls the model.                               *)
Iterate(r) ==
  /\ pc[r] = "top"
  /\ iterations' = [iterations EXCEPT ![r] = @ + 1]
  /\ IF Stops(r)
       THEN Leave(r, "failed") /\ UNCHANGED <<since, late>>
       ELSE /\ IF ReflectionDue(r)
                 THEN /\ Go(r, "reflecting")
                      /\ since' = [since EXCEPT ![r] = 0]
                      /\ UNCHANGED late
                 ELSE Begin(r, "calling") /\ UNCHANGED since
            /\ UNCHANGED status
  /\ UNCHANGED <<tokens, response, registry, costs, dropped>>

Reflect(r) ==
  /\ pc[r] = "reflecting"
  /\ \E n \in 0 .. MaxCallTokens : Use(r, n)
  /\ Begin(r, "calling")
  /\ UNCHANGED <<iterations, since, response, status, registry, costs, dropped>>

(* The model answers, or fails: then the fallback model is tried if there  *)
(* is one.                                                                 *)
Respond(r) ==
  /\ pc[r] = "calling"
  /\ \E m \in Responses :
       /\ response' = [response EXCEPT ![r] = m]
       /\ Use(r, m.tokens)
  /\ Go(r, "billing")
  /\ UNCHANGED <<iterations, since, status, registry, costs, dropped, late>>

CallFails(r) ==
  /\ pc[r] = "calling"
  /\ IF HasFallback
       THEN Begin(r, "falling_back") /\ UNCHANGED status
       ELSE Leave(r, "failed") /\ UNCHANGED late
  /\ UNCHANGED <<loop, registry, costs, dropped>>

(* The fallback's response ends the run: its tool calls are not executed   *)
(* and its cost is not recorded.                                           *)
FallBack(r) ==
  /\ pc[r] = "falling_back"
  /\ \/ \E n \in 0 .. MaxCallTokens : Use(r, n) /\ Leave(r, "completed")
     \/ Leave(r, "failed") /\ UNCHANGED tokens
  /\ UNCHANGED <<iterations, since, response, registry, costs, dropped, late>>

(* The cost of the response is recorded; an error of the database is       *)
(* ignored.                                                                *)
Record(r) ==
  LET a == AgentOf[r]
      n == response[r].tokens
  IN  /\ pc[r] = "billing"
      /\ Go(r, "checking")
      /\ \/ /\ spent' = [spent EXCEPT ![a] = @ + n]
            /\ runCost' = [runCost EXCEPT ![r] = @ + n]
            /\ over' = [over EXCEPT ![r] = IF spent[a] >= MaxCostPerDay THEN @ + 1 ELSE @]
         \/ DbMayFail /\ UNCHANGED costs
      /\ UNCHANGED <<loop, status, registry, dropped, late>>

(* Slip: a run looks at its own records only. *)
CheckOwnBudget(r) ==
  /\ pc[r] = "checking"
  /\ \/ runCost[r] >= MaxCostPerDay /\ Leave(r, "failed")
     \/ runCost[r] < MaxCostPerDay /\ Go(r, "handling") /\ UNCHANGED status
  /\ UNCHANGED <<loop, registry, costs, dropped, late>>

(* check_budget: the day's cost of the agent, all its runs together.  When *)
(* the query fails the run goes on.                                        *)
CheckBudget(r) ==
  /\ pc[r] = "checking"
  /\ \/ spent[AgentOf[r]] >= MaxCostPerDay /\ Leave(r, "failed")
     \/ /\ spent[AgentOf[r]] < MaxCostPerDay \/ DbMayFail
        /\ Go(r, "handling") /\ UNCHANGED status
  /\ UNCHANGED <<loop, registry, costs, dropped, late>>

(* Tool calls are executed; text, or a response that is neither, ends the  *)
(* run.                                                                    *)
Handle(r) ==
  /\ pc[r] = "handling"
  /\ response' = [response EXCEPT ![r] = NoResponse]
  /\ IF response[r].kind = "tools"
       THEN Begin(r, "tools") /\ UNCHANGED status
       ELSE Leave(r, "completed") /\ UNCHANGED late
  /\ UNCHANGED <<iterations, tokens, since, registry, costs, dropped>>

(* Slip: an iteration that only executed tools is not counted. *)
ToolsReturnUncounted(r) ==
  /\ pc[r] = "tools"
  /\ \E n \in 1 .. MaxToolCalls : since' = [since EXCEPT ![r] = @ + n]
  /\ iterations' = [iterations EXCEPT ![r] = @ - 1]
  /\ Go(r, "top")
  /\ UNCHANGED <<tokens, response, status, registry, costs, dropped, late>>

(* All the tool calls of the response have returned (join_all). *)
ToolsReturn(r) ==
  /\ pc[r] = "tools"
  /\ \E n \in 1 .. MaxToolCalls : since' = [since EXCEPT ![r] = @ + n]
  /\ Go(r, "top")
  /\ UNCHANGED <<iterations, tokens, response, status, registry, costs, dropped, late>>

(* Slip: only a run that completed cleans up. *)
ReportFailedEarly(r) ==
  /\ pc[r] = "storing"
  /\ active' = IF status[r] = "completed" THEN active \ {r} ELSE active
  /\ Go(r, "done")
  /\ UNCHANGED <<loop, status, cancelled, costs, dropped, late>>

(* When the exchange, the facts extracted from it and a summary are stored, *)
(* AgentCompleted or AgentFailed is emitted and the token removed, without  *)
(* an await between.                                                        *)
Report(r) ==
  /\ pc[r] = "storing"
  /\ active' = active \ {r}
  /\ Go(r, "done")
  /\ UNCHANGED <<loop, status, cancelled, costs, dropped, late>>

-----------------------------------------------------------------------------
(* cancel_run, from the CancelTask RPC: the loop sees it at its head. *)
Cancel(r) ==
  /\ r \in active \ cancelled
  /\ cancelled' = cancelled \cup {r}
  /\ UNCHANGED <<pc, loop, status, active, costs, dropped, late>>

(* The future is dropped at an await, or the task panics (a preview cuts a *)
(* string inside a character): nothing of run is executed any more.        *)
Drop(r) ==
  /\ Live(r) /\ pc[r] \in Awaits
  /\ dropped' = dropped \cup {r}
  /\ UNCHANGED <<pc, loop, status, registry, costs, late>>

Step(r) ==
  /\ r \notin dropped
  /\ \/ Plan(r) \/ Iterate(r) \/ Reflect(r) \/ Respond(r) \/ CallFails(r) \/ FallBack(r)
     \/ Record(r) \/ CheckBudget(r) \/ Handle(r) \/ ToolsReturn(r)
     \/ Report(r)

Next == \E r \in Runs : Start(r) \/ Step(r) \/ Cancel(r) \/ Drop(r)

Spec == Init /\ [][Next]_vars

(* The runtime polls the tasks, and whatever a run awaits returns: the     *)
(* providers' HTTP clients and the tools have timeouts, an approval        *)
(* expires.                                                                *)
FairSpec == Spec /\ \A r \in Runs : WF_vars(Step(r))

-----------------------------------------------------------------------------
(* The types; a run counts no iteration beyond the one that stops it, and  *)
(* holds a response only until it has been handled.                        *)
TypeOK ==
  /\ pc \in [Runs -> Phases]
  /\ iterations \in [Runs -> 0 .. MaxIterations + 1]
  /\ tokens \in [Runs -> Nat] /\ since \in [Runs -> Nat]
  /\ response \in [Runs -> Responses \cup {NoResponse}]
  /\ status \in [Runs -> {"executing", "completed", "failed"}]
  /\ cancelled \subseteq Runs /\ active \subseteq Runs /\ dropped \subseteq Runs
  /\ spent \in [Agents -> Nat]
  /\ runCost \in [Runs -> Nat] /\ over \in [Runs -> Nat] /\ late \in [Runs -> Nat]
  /\ \A r \in Runs : pc[r] = "handling" => response[r] # NoResponse

(* The day's budget stops every run of the agent: once it is spent, by     *)
(* whichever run, each run records at most one more call, the one it had   *)
(* begun or begins before it looks.                                        *)
OverBudgetOnce == ~DbMayFail => \A r \in Runs : over[r] <= 1

(* A run uses at most two LLM calls beyond its token budget, the           *)
(* reflection and the response (or the fallback's) of its last iteration,  *)
(* although plans, reflections and fallbacks are never billed.             *)
TokensBounded == \A r \in Runs : tokens[r] <= MaxTokensPerRun + 2 * MaxCallTokens

(* Both: the budgets of the day and of the run hold, up to those calls.    *)
BudgetsHold == OverBudgetOnce /\ TokensBounded

(* A cancelled run stops soon: it begins at most one more LLM call and one *)
(* more batch of tool calls (or one fallback call), and no other iteration. *)
CancelledStopsSoon == \A r \in Runs : late[r] <= 2

(* The tokens in active_runs are those of the runs under way, so that each *)
(* can be cancelled until it has reported, and those that a drop leaked.   *)
LeakOnlyByDrop ==
  \A r \in Runs : (r \in active) = (Live(r) \/ r \in dropped)

(* A run moves along the lifecycle that state.rs declares. *)
Lifecycle == INSTANCE AgentLifecycle WITH
  state <- [r \in Runs |->
              IF pc[r] \in {"idle", "planning", "reflecting"} THEN pc[r] ELSE status[r]]
LifecycleSpec == Lifecycle!Spec

(* A run that was started ends, whatever the model answers, unless it is   *)
(* dropped.                                                                *)
RunEnds == \A r \in Runs : Live(r) ~> ~Live(r)

(* "per-run against max_cost_per_run_usd" (core/agent-engine/src/cost.rs:344): *)
(* a run that has spent what a run may cost does not go on.                *)
RunBudgetStops == \A r \in Runs : pc[r] = "handling" => runCost[r] < MaxCostPerRun
=============================================================================
