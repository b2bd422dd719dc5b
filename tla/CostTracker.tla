----------------------------- MODULE CostTracker -----------------------------
(***************************************************************************)
(* The cost records, the budget of the day and the summaries.  Each call   *)
(* of a model adds a record, priced by a table in which a model that is    *)
(* not listed is free.  The queries choose the records of a period by      *)
(* comparing texts: a timestamp has a "T" after its date where SQLite's    *)
(* datetime has a space, which sorts before it, so that a record of the    *)
(* first date of the period counts whatever its time of day.  A summary is *)
(* several queries, each with its own "now", and other processes insert    *)
(* records between them.                                                   *)
(***************************************************************************)
EXTENDS Integers, FiniteSets, FiniteSetsExt

CONSTANTS
  Spenders,    \* the agents
  CostModels,  \* the models they use
  Priced,      \* those that the price table lists and that cost something
  Periods,     \* the periods that summaries ask for
  PerDay,      \* units of the clock in a day
  DayBudget,   \* max_cost_per_day_usd
  MaxRecords,  \* bound: records
  MaxClock     \* bound: the clock

AllPeriods == {"today", "7d", "30d", "all"}
Everyone == "everyone"

ASSUME CostAssumption ==
  /\ Priced \subseteq CostModels /\ Everyone \notin Spenders
  /\ Periods \subseteq AllPeriods
  /\ PerDay \in Nat \ {0} /\ DayBudget \in Nat
  /\ MaxRecords \in Nat /\ MaxClock \in Nat

VARIABLES
  clock,    \* the time
  records,  \* cost_records
  verdict,  \* the last answer of check_budget, and what was really spent
  summary   \* the summary that is being read

costVars == <<clock, records, verdict, summary>>

NoSummary == [step |-> "none", whose |-> Everyone, period |-> "all", moved |-> FALSE,
              total |-> 0, models |-> 0, agents |-> 0]

CostInit ==
  /\ clock = 0
  /\ records = {}
  /\ verdict = [says |-> "none", day |-> 0, twoDays |-> 0]
  /\ summary = NoSummary

Sum(rows) == MapThenSumSet(LAMBDA r : r.cost, rows)
Of(whose) == {r \in records : whose = Everyone \/ r.agent = whose}

-----------------------------------------------------------------------------
Price(m) == IF m \in Priced THEN 1 ELSE 0

(* One call of a model, of some number of tokens; without a connection     *)
(* nothing is recorded.                                                    *)
RecordCost(a, m, tokens) ==
  /\ Cardinality(records) < MaxRecords
  /\ records' = records \cup
       {[id |-> Cardinality(records) + 1, at |-> clock, agent |-> a,
         cost |-> tokens * Price(m)]}
  /\ UNCHANGED <<clock, verdict, summary>>

Date(t) == t \div PerDay

(* Slip: as if the space sorted after the "T". *)
InDaysAfter(rows, days) == {r \in rows : Date(r.at) > Date(clock - days * PerDay)}

(* timestamp >= datetime('now', '-N days'). *)
InDays(rows, days) == {r \in rows : Date(r.at) >= Date(clock - days * PerDay)}

InPeriod(rows, period) ==
  CASE period = "today" -> InDays(rows, 1)
    [] period = "7d" -> InDays(rows, 7)
    [] period = "30d" -> InDays(rows, 30)
    [] period = "all" -> rows

Judged(spent) ==
  IF spent >= DayBudget THEN "exceeded"
  ELSE IF 5 * spent >= 4 * DayBudget THEN "warning" ELSE "ok"

(* check_budget, after every call.  What was really spent is kept beside   *)
(* its answer.                                                             *)
CheckDay(a) ==
  /\ verdict' =
       [says |-> Judged(Sum(InDays(Of(a), 1))),
        day |-> Sum({r \in Of(a) : r.at >= clock - PerDay}),
        twoDays |-> Sum({r \in Of(a) : r.at > clock - 2 * PerDay})]
  /\ UNCHANGED <<clock, records, summary>>

-----------------------------------------------------------------------------
(* The dashboard and the RPC ask for everyone, the command line also for   *)
(* one agent.                                                              *)
ServicesAsk == {Everyone} \X Periods
CommandLineAsks == (Spenders \cup {Everyone}) \X Periods

(* summary and agent_cost: the totals, then the costs by model, then, for  *)
(* everyone, by agent.                                                     *)
ReadTotal(whose, period) ==
  /\ summary.step \in {"none", "done"}
  /\ summary' = [NoSummary EXCEPT !.step = "total", !.whose = whose, !.period = period,
                   !.total = Sum(InPeriod(Of(whose), period))]
  /\ UNCHANGED <<clock, records, verdict>>

ReadByModel ==
  /\ summary.step = "total"
  /\ summary' = [summary EXCEPT !.step = "models",
                   !.models = Sum(InPeriod(Of(summary.whose), summary.period))]
  /\ UNCHANGED <<clock, records, verdict>>

ReadByAgent ==
  /\ summary.step = "models" /\ summary.whose = Everyone
  /\ summary' = [summary EXCEPT !.step = "done",
                   !.agents = Sum(InPeriod(records, summary.period))]
  /\ UNCHANGED <<clock, records, verdict>>

EndAgentCost ==
  /\ summary.step = "models" /\ summary.whose # Everyone
  /\ summary' = [summary EXCEPT !.step = "done", !.agents = summary.models]
  /\ UNCHANGED <<clock, records, verdict>>

(* A query fails: the dashboard shows a summary of zeros, the others the   *)
(* error.                                                                  *)
SummaryFails ==
  /\ summary.step \notin {"none", "done"}
  /\ summary' = NoSummary
  /\ UNCHANGED <<clock, records, verdict>>

Tick ==
  /\ clock < MaxClock
  /\ clock' = clock + 1
  /\ summary' = IF summary.step \in {"none", "done"} THEN summary
                ELSE [summary EXCEPT !.moved = @ \/ Date(clock') # Date(clock)]
  /\ UNCHANGED <<records, verdict>>

CostNext ==
  \/ \E a \in Spenders, m \in CostModels, n \in 1 .. 2 : RecordCost(a, m, n)
  \/ \E a \in Spenders : CheckDay(a)
  \/ \E q \in ServicesAsk \cup CommandLineAsks : ReadTotal(q[1], q[2])
  \/ ReadByModel \/ ReadByAgent \/ EndAgentCost \/ SummaryFails
  \/ Tick

CostSpec == CostInit /\ [][CostNext]_costVars

-----------------------------------------------------------------------------
CostTypeOK ==
  /\ clock \in 0 .. MaxClock
  /\ \A r \in records : r.at <= clock /\ r.agent \in Spenders /\ r.cost \in Nat
  /\ verdict.says \in {"none", "ok", "warning", "exceeded"}
  /\ summary.step \in {"none", "total", "models", "done"}

(* The period of "a day" is one to two days: an agent that may go on has   *)
(* not spent its budget in the last 24 hours, and one that is stopped has  *)
(* spent it in the last 48.                                                *)
BudgetJudgesADay ==
  /\ verdict.says \in {"ok", "warning"} => verdict.day < DayBudget
  /\ verdict.says = "exceeded" => verdict.twoDays >= DayBudget

(* The parts of a summary account for its total, whatever is recorded      *)
(* while it is read, unless the period moves on to another date meanwhile. *)
PartsCoverTotal ==
  summary.step = "done" /\ (summary.period = "all" \/ ~summary.moved) =>
    summary.total <= summary.models /\ summary.models <= summary.agents

(* Both: what is said of costs agrees with what was recorded. *)
CostsAgree == BudgetJudgesADay /\ PartsCoverTotal

(* "Get today's cost for this agent" (core/agent-engine/src/cost.rs:355):  *)
(* an agent that is stopped has spent its budget within a day.             *)
StoppedForToday ==
  verdict.says = "exceeded" => verdict.day >= DayBudget
=============================================================================
