# NexMind in TLA+

TLA+ modules of NexMind's own logic, TLC configurations that check them on small
instances, and TLAPS proofs of their main invariants for every value of the
constants. Paths below are relative to the repository's root; a daemon is one process
of `apps/daemon`, the CLI (`apps/cli`) is another that opens the same SQLite database.

Contents: [the system](#the-system) · [modules](#modules) · [runs](#runs) ·
[proofs](#proofs) · [disagreements](#where-code-and-documentation-disagree) ·
[not modelled](#what-is-not-modelled) · [open ends](#open-ends)

To check: `tlc -workers 2 -config <run>.cfg <Module>`, and `tlapm <Module>Proofs.tla`.
Each run is an entry of `PROJECT.json`, which also maps every definition to the source
lines it models, lists the hazards of the code at their lines with the properties that
cover them, and gives each property a mutant: a plausible bug, written beside the
definition it replaces, under which TLC reports the property.

## The system

An agent is a definition (model, tools, permissions, budget, schedule). A request
(a chat message, an HTTP call, a scheduled job, a delegation, a team task) becomes a
*run* of `AgentRuntime::run`: LLM calls alternate with batches of tool calls until
the model answers or a limit stops it. Tools of trust level 2 or more wait for a
person. What is kept is kept in two SQLite databases (`nexmind.db`, `memory.db`),
each behind a pool of four connections, and in the skills directory; everything
concurrent is a tokio task of the daemon, or the CLI.

| Component | State | Operations | Hard because | Correct when |
|---|---|---|---|---|
| **Approval gate** (`agent-engine/approval.rs`, `tool-runtime/registry.rs`) | `approval_requests`; one poll loop per waiting call | request, approve, deny, expire_stale, wait_for_decision | four surfaces decide, every waiter expires everybody's rows, a statement at a time; runs are dropped, the daemon dies | a gated tool runs only on a standing approval, once; one decision per request; nobody waits for ever |
| **Audit log** (`security/audit.rs`) | `audit_log`, each row with a MAC over five of its columns and the MAC before it | log_event, verify_audit_chain | the tail is read and the row inserted in two statements of parallel tool calls | what the MACs of a table that verifies cover was logged; an untouched table verifies |
| **Scheduler** (`scheduler/lib.rs`) | `scheduled_jobs`; timers; `running_jobs` | start, register, pause, resume, delete, record_run | boot catches up while commands edit; crashes during a run; aborts race with timers; the CLI has no timers | no double run, no interrupted run lost, no deleted job's timer left, an active job runs |
| **Agent runtime** (`agent-engine/runtime.rs`, `state.rs`) | per run: usage, iterations, state; `active_runs` | run, cancel_run, execute_tool_call | cancellation and drops at any await, parallel tool calls, limits tested only at the loop's head | runs end, budgets and cancellation bite after a bounded overrun, no token leaks |
| **Model router, providers** (`model-router`) | provider table; the stream being read | complete, fallback, streams | each provider rewrites the messages; streams are cut anywhere | the model sees what was said; the answer is what the server meant |
| **Cost tracker** (`agent-engine/cost.rs`) | `cost_records` | record, check_budget, summaries | periods are compared as texts; a summary is several statements | a budget judges its day; the parts add up |
| **Message router, Telegram** (`daemon/router.rs`, `commands.rs`, `connectors/telegram`) | update offset, broadcast channel, one listener task | poll, dispatch, handle_incoming, buttons | one listener awaits each run, also one that waits for a button of the same chat; the channel overflows; the daemon dies | handled once and in order or lost for a known reason; answered in the end |
| **Daemon, HTTP API** (`daemon/main.rs`, `http_api.rs`) | processes, ports, the agent that chats | boot, missed jobs, bind, /restart, administration | the new process starts before the old one ends; ports are bound after the missed jobs have run | a missed run is made good once; a restart hands over |
| **Teams** (`agent-engine/team.rs`) | per team run: levels, handles, outputs, counts | run_team, topological_sort | failure policies; tasks that a suspension detaches; panics | members start after what they depend on; no task outlives the result |
| **Agent mailboxes** (`agent-comm`, `tools/agent_comm.rs`, `tools/delegate.rs`) | mailbox map; `task_messages` | register, send, delegate, receive | the map is shared by overlapping team runs; the calls of one answer run together, delegates delegate; persisted before delivered; callers are cut off | what the caller was told of a message is so |
| **Workflow engine** (`workflow-engine/engine.rs`) | order, outputs | topological_sort, execute | cycles found by counting; dangling edges; repeated ids; conditions | refused for a cycle or a repeated id; executed as defined |
| **Memory store** (`memory/store.rs`) | `memories`, sessions | store, retrieve, list, manage, decay, history | check, embed over the network, insert; search, then load by id | no fact lost, no private memory found by others, a sensible history |
| **Storage** (`storage/db.rs`, `migrations.rs`) | the pools; `_migrations` | get, run migrations | `get` blocks a worker thread; batch and record are not one transaction; two processes start together | every operation ends; nobody works on half a schema |
| **Agent registry** (`agent-engine/registry.rs`) | `agents` | create, update, delete, /model, /agent | read, change and write back in separate requests | what was acknowledged holds |
| **Skills** (`skill-registry`) | directory; a registry per process | install, uninstall, load | a copy file by file; processes die in it | what was installed is whole |
| **Tools with state**: browser, email, goals, OpenClaw | one page; one mailbox; rows; requests | navigate, click, ...; fetch, read, send; update; send | shared by all runs, cut off by timeouts, retried | each section below |
| Rest: configuration, permissions, secrets, event bus, templates, notifications, stateless tools, dashboard | | | | [not modelled](#what-is-not-modelled) |

How they meet. A run calls the tool registry, the registry answers `NeedsApproval`,
the runtime asks the approval manager and waits, then calls `execute_approved`; both
registry paths log to the audit log. Scheduler handlers, HTTP handlers, the router,
delegations and teams start runs, and all but teams may drop one in mid-flight (a timer
aborted by delete, a client gone, a delegation's timeout). Approvals are decided by
gRPC, dashboard, Telegram and CLI. Waiters, timers, cancellation tokens, mailboxes,
the Telegram offset and the chat's current agent do not survive a crash; rows do.

How the modules are cut. Components that share state are in one module, or in two
joined by it: the gate's table with its waiters and tools (`Approvals`), the runs of an
agent with their budget (`AgentRun`), the chat with the run that waits for its buttons
(`MessageRouter`), boot with the scheduler's missed job and the ports (`Daemon`), the
two pools with the worker threads they both block (`ConnectionPool`), team runs with the
mailboxes they register (`AgentMail`). Across modules a component sees the other's
outcome as a choice: a run that fails, a statement that does not return, a decision that
comes from elsewhere.

## Modules

### Approvals and ApprovalGate

`ApprovalGate` says what the gate promises: a request is asked, ruled on once or
lapses, a ruling stands, and a gated call runs at most once after a grant.
`Approvals` is the code: the table (`status`, `rowAge`, and `acks`, what deciders
were told), the waiters (`pc`, `waitAge`, `answer`), the tool (`ran`) and the
daemon (`up`).

| Action | Code |
|---|---|
| `RefuseCall`, `RunUngated`, `NeedsApproval` | `ToolRegistry::execute`: unknown, invalid or forbidden; trust level below 2; gated |
| `RequestApproval`, `BeginWait` | `request_approval`'s INSERT; `wait_for_decision` reads the clock |
| `ExpireStale`, `CheckStatus`, `ForceExpire`, `Sleep`, `Wake`, `DbError` | one action per statement of the poll loop |
| `RunApproved`, `Finish` | `execute_approved` |
| `Decide`, `CliExpireStale` | `approve` / `deny` by any surface, in the daemon or the CLI; `nexmind approve expire-stale` |
| `Drop`, `Crash`, `Restart`, `Tick` | a dropped run; the process; time |

A statement is one SQLite transaction, so it is one step. Time is an age that
stops counting at the bound that the code compares it with. The row is stale
strictly after its timeout (`<`), the waiter times out at it (`>=`): both are kept.
`GateSpec` is the refinement; `VerdictOf` maps a row to a verdict.

### AuditLog

Writers run `log_event` in two statements (`ReadTail`, `Insert`); the MAC is an
injective function of what the code hashes (id, time, actor, action, outcome and the
MAC before), so a row's MAC is the record `[id, outcome, prev]`. `details` stands for
the columns that it leaves out: workspace, actor type, resource, error message,
correlation, channel and metadata. `InsertFails` and the failing read (taken for an empty
table, as `.ok()` does) model errors; the CHECK on `outcome` is in `Insert`;
`Alter` is the edit that the repository's tamper test makes, `AlterDetails` that of a
column without a MAC; `Crash` ends the writers. `Verifies` is `verify_audit_chain`.

### Scheduler

`row`, `due` and `over` are the table and what the clock says of it: whether
`next_run_at` has gone by and whether the cron expression has a fire time left.
`phase`, `missed`, `unscheduled` and `spawned` are `start`'s progress and the list it
read once; `timer`, `exec`, `handles` and `aborts` are the tasks. `RunMissed`,
`SkipMissed`, `Schedule`, `KeepHandle`, `StartReturns`, `StartFails` are the steps of
`start`; `Wake`, `Count`, `Advance`, `Finish` those of a timer (`record_run` is two
statements and takes a second connection in between, so `Advance` may fail alone);
`Register`, `Pause`, `Resume`, `Delete` are the commands of the tool and the CLI;
`Abort` is the task that delete spawns in the daemon; `Crash` kills the tasks and leaves
the rows. `owed` is a history variable: runs a crash cut short.

Two details that the code decides, and the model keeps: deleting spawns the abort
rather than does it (only the CLI pauses, and its process has no timers), and
`start` works through a list that may be minutes old.

### Team

A team run of `run_team` and the tasks it spawns. The members' agents and `depends_on`
are chosen in `Init`, unknown agents, cycles and members that share an agent included.

| Action | Code |
|---|---|
| `SortLevel`, `SortEnds` | a turn of `topological_sort`'s loop, which gives the agents of in-degree 0 the next level; its test for cycles, which compares counts |
| `TakeChunk`, `Spawn`, `NotFound`, `Join`, `NextLevel` | fan-out: a chunk of a level; its members, spawned or missing from the registry; `handle.await` in the order of the handles; the next level or the result |
| `RunNext`, `NextNotFound`, `RunReturns`, `RunPanics`, `SequenceEnds` | sequential: the same for one member at a time, in the team's own task |
| `TaskEnds` | the run of a member returns, or panics where a preview of its input cuts a character |

`task` is what the members do, `ended` what they were counted as (a history variable
for `completed` and `failed`), `outputs` the members with an entry in the map.
In-degrees are not counted: an agent has in-degree 0 when all it depends on has a
level. The order of an unsorted queue (a HashMap's) is any order. Two members with one
`output_key` are not told apart from two with two. `AgentRuntime::run` returns `Ok`
for failed runs too, so the branches for its `Err`, retries included, are never
entered and not modelled.

### AgentRun and AgentLifecycle

One action per stretch of `run` between two awaits: `Plan`, `Iterate` (the head of
the loop with all its tests in their order, `Stops`), `Reflect`, `Respond`,
`CallFails`, `FallBack`, `Record`, `CheckBudget`, `Handle`, `ToolsReturn`, `Report`;
`Start`, `Cancel` and `Drop` come from outside. Runs share `spent` (the agent's cost
records) and `active` (the token registry). `runCost`, `over`, `late` and `dropped`
are history variables that only properties read. A response is its kind and its
tokens. `AgentLifecycle` is the table of `state.rs`, which the runtime never calls;
`LifecycleSpec` shows that a run keeps to it.

### MessageRouter

`sent`, `confirmed` and `kind` are Telegram's side of a chat: its servers forget an
update when a later request carries a greater offset. `batch` and `offset` are the
poller's, `channel` the broadcast channel (its oldest update goes when it is full), and
`listener`, `current` and `tries` the one task that handles updates.

| Action | Code |
|---|---|
| `Poll`, `Dispatch` | `getUpdates` and the loop over its answer, `parse_update` included; the answer of a request may be lost, and it is then repeated |
| `Subscribe`, `Take`, `AnswerAtOnce`, `PressButton` | `handle_incoming`: the receiver, a lag, what is answered on the spot (a voice message that cannot be transcribed too), the buttons |
| `StartRun`, `AgentMissing`, `AskGateway`, `GatewayAnswers` | the agent's run, of a text or a transcribed voice message, or the gateway's, of a text, awaited |
| `RunAsks`, `RunGoesOn`, `RunEnds`, `Expire`, `JobAsks`, `DecideElsewhere` | approvals of this run and of a scheduled job, decided here or elsewhere |
| `Answer`, `RateLimited`, `AnswerRefused` | `send_message` with its attempts |
| `Connect`, `Crash` | a start of the daemon, and its end |

`settled`, `taken`, `posted` and `lost` are history variables. A panic of the listener
(`AnswerPanics`: formatting cuts a string inside a character) leaves it `dead`, while the
poller goes on.

### Daemon

`life` is the phase that each process is in: `Launch`, `OpenDatabases`, the scheduler
(`ListMissed`, `RunMissedJob` and perhaps its approval, `RecordMissedRun`), `Bind` of one
port and of the other, serving, dead. `CmdRestart` starts the child before `ExitAfterDelay` ends the parent,
500 ms later: how long the boot takes in comparison is open. `heir` (which process a
/restart put in the place of another), `ranBy` (which processes made the missed run
good) and `disturbed` are history variables.

### ConnectionPool

Operations of both pools step through: runnable, on a worker thread, waiting in `get`
(which blocks the thread), holding, ended. `record_run` takes a second connection while
it holds its first; `store` and `retrieve` keep theirs over the await of the embedding.

### MemoryStore, Conversation, CostTracker

`MemoryStore`: one action per statement of `store` and of `retrieve_full`, for calls
that interleave; `WriteMemory`, `LearnFact`, `CreateMemory`, `StorePrivate` are the callers (the tool,
the runtime's learning, the dashboard, an API nobody calls), `Embed` the model server's answer or
its failure, `TextSearch`, `VectorSearch`, `LoadMemory` the retrieval, `ListMemories` the
page that the dashboard shows, `Manage` the
pins and deletions by hand, `Touch` and `DecayImportance` what the store offers and
nothing calls. `kept` is a history variable.

`Conversation`: a run reads the history when it begins (`BeginTurn`: the LIMIT, then the
token budget), stores the question, and the answer if there is one; `ClearSession` is
/clear. The cut by tokens is a recursive function over the messages, as in the code.

`CostTracker`: `RecordCost` prices a call, `CheckDay` is `check_budget`, and a summary is
`ReadTotal`, `ReadByModel`, `ReadByAgent` with records and midnights between them.
Records carry their time; a period begins at the start of a date because a "T" sorts
after a space.

### Migrations, Administration, Goals, Skills

`Migrations`: a batch of statements committed one by one and the row in `_migrations`
after them; processes start together, die within (`Interrupted`) or fail on an object
that another has made (`ObjectExists`).

`Administration`: `/model set` as `FindAgent`, `ReadVersion`, `WriteAgent`, with other
requests that create, delete and switch between them; `Reboot` writes the presets with
INSERT OR REPLACE; `Chat`, `FallBack`, `EndChat` are the choice of the agent that
answers: the current one if `get` returns it (its row may be gone, or unreadable), or
else the first that can be read; `AdminFails` is a statement that fails in the others.

`Goals`: `ReadGoal` and `WriteGoal` are the two halves of an update.

`Skills`: `CheckTarget`, `CreateTarget`, `TruncateFile`, `CopyFile`, `Register` are the steps of an
install; each process has a registry of its own, filled when it starts.

### Workflow, AgentMail and Mailbox

`Workflow`: the definition is any graph of the instance's nodes, with parallel,
conditional and dangling edges; `repeats` says how many nodes of its list have the id of
another. `OrderNode` takes a node of in-degree 0, `EndSort` compares the counts, and
`Execute`, `Skip`, `Fail`, `Complete` work through the order. An output is the set of
the conditional edges whose condition it meets, each judged by itself.

`AgentMail`: `Register`, `Announce`, `SupervisorMissing`, `StartCleanup`, `Unregister`,
`DropTeam` are the collaborative team run; `SendMessage`, `SendFile`, `Delegate`, `StoreResult`,
`Report`, `CallTimesOut` the tools. The calls of one answer run together, and so do
delegations and those of the delegates (`awaited` has who delegated, and in the course
of which others): a call that ends takes with it those made in its course. A statement
may fail (`MayStore`); of a result the tool drops the error (`lost`). A registered agent has a sender whose receiver was
dropped (`DropMailbox`), which is why a send to it stores the message and then fails;
recipients read the table. `Mailbox` says what may be said of a message, without runs and
receivers, results that are lost included; `Promise` maps the rows to it.

### ModelCalls, ModelStream

`ModelCalls` builds the list of messages as the run does (system, history, plan, rounds
of tool calls with their results, reflections) and what of it each provider's request
carries (`request.seen`).

`ModelStream` puts an answer together: the network delivers bytes in pieces
(`Receive`), `ParseLine` cuts lines and turns events into chunks as each provider does, `Finish`
joins the chunks. A character that a piece ends in is lost (`garbled`). `StreamAssumption`
says what the servers (external) send: a call starts once, its arguments come before
anything else starts or ends. A call without arguments, whose empty string does not
parse, is given `null`, as in the code.

### Gateway, Browser, Email

`Gateway`: `send_message` with its retries and timeouts under the tool's own timeout;
the gateway (external) executes each request that reaches it, also after the client has
given up.

`Browser`: one action per stretch between two awaits of a tool call under the lock;
`CutOff` drops a call at whichever await it is; `BrowserCrashes` may come at any time.

`Email`: IMAP and SMTP calls under one mutex; between LOCK and return there is no await,
so a timeout is noticed at the lock only. The mail server (external) numbers the
messages of a folder, keeps a session's numbers while it lasts and closes the gap when
another client moves a message away; `gap` (a history variable) is the least number
that moved since. A fetch searches the unread messages or all. The id of `email_read` is
an IMAP sequence set, hence any set of numbers, listed or not: all that it names lose
their mark, and one is returned. `accounted` and `alongside` are history variables: what
was shown, lost on its way or opened by the user, and what was marked with the one that
was shown.

### MCStorage, MCEngines, MCServices

Components that share no state are checked in one run: the initial state chooses a
`component`, and only that one moves. Their state spaces add up instead of multiplying,
and nothing is lost, for there is nothing they could do to each other.

Every module of a component has a type invariant (`TypeOK`, `MemTypeOK`, ...), and each
is a theorem (below); the configurations list the other properties only.

## Runs

| Run | Instance | Distinct states | Properties |
|---|---|---|---|
| `Approvals_safety` | 4 calls (two gated, one ungated, one refused), a dashboard and the CLI, timeout 1, failing statements | 677,896 | `GatedRunsOnlyApproved`, `OneDecisionAcknowledged`, `AnswerAgreesWithRow`, `GateSpec` |
| `Approvals_liveness` | 2 gated calls, timeout 2, fair | 236,713 | `WaitEnds`, `PendingSettles` |
| `Scheduler_jobs` | 2 jobs (run-once and skip), 2 crashes, errors, fire times that may end, fair | 63,364 | `NoOverlap`, `InterruptedRunsFirst`, `DeletedTimerEnds` |
| `AgentRun_limits` | 2 runs of one agent, 2 iterations, calls of 1 token | 296,051 | `BudgetsHold`, `CancelledStopsSoon`, `LeakOnlyByDrop` |
| `AgentRun_ends` | 1 run, 3 iterations, calls of up to 2 tokens, errors, fair | 19,103 | `LifecycleSpec`, `RunEnds` |
| `Team_runs` | teams of 3 members over 3 agents, any `depends_on`, either pattern, three policies, limit 2, fair | 153,291 | `DependenciesFirst`, `AtMostConcurrent`, `NothingOutlivesResult`, `TeamEnds` |
| `Storage_tables` | one component at a time, below | 1,365,732 | `MemoryPromises`, `StartsComplete`, `NotesLostOnlyByOverlap`, `AnswersFollowQuestions`, `AnswersAreTrue`, `InstalledIsWhole`, `VerifiedRowsWereLogged`, `CostsAgree` |
| `Engines_steps` | one component at a time, below | 1,795,939 | `FollowsDefinition`, `MailKeepsItsWord`, `RegisteredForARun`, `WholeStreamIsMeant`, `CallsAreAnswered`, `PageKept`, `OverlapOnlyAfterTimeout`, `EmailAccounted` |
| `Daemon_services` | one component at a time, below, fair | 489,069 | `MissedRunMadeGoodOnce`, `MessagesAccounted`, `RestartHandsOver`, `PoolOpsEnd`, `ButtonsNeverReachOwnRun`, `UpdatesSettle` |
| `AuditLog_chain` | 2 writers, 3 events, no error, no edit | | violates `ChainIntact` |
| `Scheduler_resume` | 1 job, no crash, no error, fair | | violates `ResumedJobRuns` |
| `Email_by_uid` | 1 run, 2 messages | | violates `ReadByUid` |

What the properties say:

| Property | In words |
|---|---|
| `GatedRunsOnlyApproved`, `OneDecisionAcknowledged`, `AnswerAgreesWithRow` | a gated tool runs only on a row that is approved and whose decider was told so; at most one decision on a request is acknowledged; what the call answers agrees with row and tool |
| `GateSpec` | the table, the waiters and the deciders implement the abstract gate |
| `WaitEnds`, `PendingSettles` | no poll loop waits for ever; a request with a live waiter is settled |
| `NoOverlap`, `InterruptedRunsFirst`, `DeletedTimerEnds` | `start` and a timer never run one job at once; a run that a crash cut short is begun again before the job has a timer; the timer of a deleted job ends |
| `BudgetsHold`, `CancelledStopsSoon`, `LeakOnlyByDrop` | both budgets hold up to calls that cannot be foreseen; a cancelled run begins at most two more awaited calls; a token stays in `active_runs` only after a drop |
| `LifecycleSpec`, `RunEnds` | a run moves along the transition table of `state.rs`, and ends |
| `DependenciesFirst`, `AtMostConcurrent`, `NothingOutlivesResult`, `TeamEnds` | members start after what they depend on has been counted; the limit on tasks; no task outlives the result but after a suspension; the result comes |
| `MemoryPromises` | a fact that was stored was in the table until someone deleted it, also when `store` lost a race and returned the UNIQUE error; a search shows a private memory to its agent only, and nothing but the dashboard's list shows it to another |
| `StartsComplete` | a process that is up has the whole schema; racing starts leave a database on which the next one succeeds, unless one died within the batch |
| `NotesLostOnlyByOverlap` | an acknowledged note is lost only to an update that ran at the same time |
| `AnswersFollowQuestions` | the history shows an answer after its question, unless the question was cleared, not stored or cut off by the LIMIT |
| `AnswersAreTrue` | "Model switched" is so until the next switch or boot; another agent than the chosen one answers only when that one was deleted, or could not be read |
| `InstalledIsWhole` | a skill reported as installed has all its files, unless two processes installed it at once |
| `VerifiedRowsWereLogged` | a table that verifies holds only events that were logged, with their values in the columns that the MAC covers, whatever column was edited |
| `CostsAgree` | who may go on has not spent the budget in 24 hours, who is stopped has spent it in 48; the parts of a summary cover its total while records come in |
| `FollowsDefinition` | a workflow of defined nodes is refused exactly when it is cyclic or repeats an id; a node is executed for a satisfied edge of an executed node |
| `MailKeepsItsWord`, `RegisteredForARun` | rows and tool calls implement the abstract mailbox: what was "sent" is there for good, "completed" was answered, and has its result unless storing it failed, and "failed" never gets one; what was "sent" is received unless newer messages fill the list. An agent is registered only for a run of its team, or after a stranded one |
| `WholeStreamIsMeant` | an answer that arrives to its end is the one the server meant, up to characters that were cut |
| `CallsAreAnswered` | in every request, tool calls are followed by all of their results in order |
| `PageKept` | an operation ends on the page it began on; no run goes on with an older page after its navigation failed; tabs leak by failures only |
| `OverlapOnlyAfterTimeout` | two executions of one message overlap only after an attempt timed out or broke |
| `EmailAccounted` | a number, or a set, opens what was listed under it, or under one of it, while nothing before it moved; no message loses its mark but by the user, for a body that was shown or lost, or in a set of which one was shown; a call that timed out did nothing |
| `MissedRunMadeGoodOnce`, `RestartHandsOver` | a missed run is made good once unless processes overlapped or a run was cut short; after /restart the old process ends and the very one that was started for it serves, unless it was killed or restarted in turn, could not open its database, or met a port in use |
| `MessagesAccounted` | a forgotten update was handled, or is in the daemon, or went for a known reason; updates are handled in order and once in a life of the daemon; one answer per life |
| `ButtonsNeverReachOwnRun`, `UpdatesSettle` | the listener's own run is never decided by a button of its chat; each update sent to a running daemon is answered or lost for a known reason, although runs wait for decisions |
| `PoolOpsEnd` | every operation on the pools ends |

### Bounds, and why they are enough

*Approvals*: two gated calls are needed for one waiter to expire another's row, two
deciders for a race; a timeout of 1 separates the strict from the weak comparison, and
of 2 lets the poll sleep between two ages. *Scheduler*: two jobs let one be caught up
while the other waits in `start`'s list; the second crash hits the repetition of an
interrupted run. *Agent run*: two runs overrun a shared budget of two; three iterations
let a reflection (interval 2) reset its counter and come due again or not. *Team*: three
agents make every shape of a small graph, and with a limit of 2, for the code's 3, one
level of three needs a second chunk.

*Storage*: two memory calls and a third fact-holder by hand (`Manage`) make the UNIQUE
race and the deletion in it, one month an age that matters; the two calls are symmetric,
and the properties of this run are invariants. Two starters, three statements and four starts let a start die in the batch,
race and be repeated. Four notes by two updaters overlap and do not. Three turns overlap
in pairs, with a LIMIT of 3 and 2 tokens against messages of one token, so that both
cuts bite. Two agents, two models, two requests, two versions and a boot make each
stale read. Two commands and a daemon install, die and load. Two writers and three
events fork the audit chain around an edit. The clock of the costs has two ticks a day
for two days: two records lie within or beyond 24 and 48 hours.

*Engines*: every graph of three nodes with up to three edges, an end of which may
dangle, and a repeated id. Two teams share an agent and exchange two messages, of which
one fits a list: two delegations run together, or one within the other.
The three answers are a text, two tool calls after a text, and calls without ends of which one has no
arguments (two events are enough to be joined wrongly), received up to three pieces at a time. The four providers, two rounds and
two parallel calls with a reflection and a plan. Two visitors and three tabs: a tab
leaks while another is the page. Two retries, the code's default: an execution of the first attempt meets the
second and the third. Two runs and two messages: a message moves while a run has a
listing and another reads, and an id names both.

*Services*: three processes are two restarts, or a restart and a launch. Two
connections (4 in the code) and two worker threads, with two `record_run`, three embeddings and a query:
all connections are held by operations that want another, and all threads blocked, while
a holder has none. Two updates of every kind, a channel of one and one crash: an update is overtaken, overflows, and is
fetched again after its handling was lost.

**Deadlock** is checked for the approvals and the audit log, which cannot stop. Runs of
agents and teams end, so do the fire times of a job and the bounded calls of the other
components: their configurations set `CHECK_DEADLOCK FALSE`.

**Fairness** is weak everywhere: tokio polls each task that is ready and clocks advance.
A run's awaits return because the LLM clients have timeouts (120 s, Ollama 300 s), tools
run under `tokio::time::timeout` and approvals expire; a scheduled handler is such a run.
In `Approvals`: `Tick` and each call's steps. In `Scheduler`: `start`, each timer, each
abort and the passing of each fire time. In `AgentRun`: each run's steps. In `Team`: the
team's task and each member's run, which ends by `RunEnds` of `AgentRun`. In `Daemon`: some process that is booting or about
to exit goes on; a boot never goes back, so no more is needed for each to get to its end. In `ConnectionPool`: some
operation that can go on does; operations never go back, and `get` gives up after its
timeout. In `MessageRouter`: the poller and the listener go on, and some request of the
poller's is answered in the end (the HTTP client of `getUpdates` and of `send_message`
has no timeout of its own: that they return is assumed of Telegram). Nobody is obliged to decide, cancel, edit a job, send,
crash or fail.

## Proofs

All for arbitrary sets of calls, deciders, writers, jobs, runs, agents, processes, tabs
and messages, any bounds, and any mixture of failures, under the ASSUMEs that the modules state (the
types of the constants, that two sets are disjoint or that one is not empty).

| Module | Theorems | Inductive invariant |
|---|---|---|
| `ApprovalsProofs` | `TypeCorrect`, `GateSafety`, `AcknowledgedOnce`, `AnswerSound`, `DecisionsStand`, `ImplementsGate` | per call: what its label says of its row (`RowInv`), of the tool (`RanInv`), of the answer (`AnswerInv`), and what the acknowledgements say of the row (`AckInv`) |
| `SchedulerProofs` | `TypeCorrect`, `NoDoubleRun`, `RunStaysDue`, `InterruptedRunRepeated`, `DeleteFindsTimer`, `DeletionStands`, `PausedJobsStayQuiet` | `BootInv` (timers exist only when there is nothing left to catch up with), and per job `TaskInv`, `DueInv`, `OwedInv` |
| `AgentRunProofs` | `TypeCorrect`, `BudgetHolds`, `TokenBudgetHolds`, `BudgetsKept`, `CancellationHolds`, `RegistryExact`, `FollowsLifecycle`, `RunsRunOut` | per run: how far beyond its budget (`TokensInv`), its day's budget (`BudgetInv`) and its cancellation (`LateInv`) it can be at each label |
| `TeamProofs` | `TypeCorrect`, `DependenciesComeFirst`, `ConcurrencyIsLimited`, `ResultIsLast`, `TeamsRunOut` | levels grow along `depends_on` (`LevelInv`); levels below the current one are counted and those above not begun (`FanInv`); one member at a time (`SequenceInv`); what each member was counted as (`EndedInv`); what runs uncounted is behind a handle (`HandlesInv`); chunk and tasks together are within the limit (`LimitInv`) |
| `EnginesProofs`: Gateway | `RetriesOverlapOnlyAfterTimeout` | an attempt that has not begun is not executed, and the one that waits is the only one whose answer may come (`AttemptInv`) |
| `EnginesProofs`: Browser | `SharedPageKept` | who is inside holds the lock, and what its step says of the page (`VisitInv`, `SinceInv`); the leaked tabs are finite and at most as many as failures (`BrowserInv`) |
| `EnginesProofs`: AgentMail | `WordIsKept`, `RegistrationsEnd` | a mailbox is of a run at work (`BoxInv`, `RegInv`); what was told has its row (`StoredInv`), and a delegation that is awaited is of a message that is pending, has a number of its own and came after those in whose course it was made (`CallInv`); under it each step is one of the abstract mailbox (`MailStepPromised`) |
| `EnginesProofs`: Email | `EmailIsAccounted`, `SessionsExclude` | below the gap, a session's and a listing's numbers mean in the inbox what they meant (`ErrandInv`, `ListingInv`), hence the session shows what was listed (`ReadInv`); who is in a session holds the lock (`LockInv`) |
| `EnginesProofs`: ModelCalls | `CallsHaveResults` | every call in the list is answered but for those of the last answer, of which as many results follow as tools have finished (`CallsInv`, `AnsweredIn`) |
| `EnginesProofs`: ModelStream | `StreamIsMeant` | for some number `p` of events, buffer and network hold the pieces of the others in order (`Remaining`), and text and calls are what the first `p` events say, the current call being that of the last start (`Parsing`) |
| `EnginesProofs`: Workflow | `WorkflowFollowsDefinition`, `WorkflowTypeCorrect` | Kahn's in-degrees count the edges that are left (`SortInv`), so that the nodes left when the queue is empty have a cycle among them; the order is of distinct nodes, each behind what leads to it (`LineInv`); what is executed or reached is so for an edge that was satisfied (`ExecInv`) |
| `StorageProofs`: Goals | `NotesSurvive` | what an updater is about to write has every acknowledged note that no overlap explains (`UpdateInv`) |
| `StorageProofs`: Migrations | `StartsAreComplete` | the objects are a prefix of the batch, made by the one that goes on or torn (`MigInv`) |
| `StorageProofs`: Administration | `AnswersStand` | a request under way is about an agent that exists or was deleted (`RequestInv`) |
| `StorageProofs`: Skills | `InstalledSkillsAreWhole` | a process that copies alone has copied what it has not left to copy (`CopyInv`), and two that copy one skill have clashed |
| `StorageProofs`: MemoryStore | `MemoryKeepsItsPromises`, `MemoryTypeCorrect` | a store call whose fact is in the table has had it there since it began (`StoreInv`); what a search has found, and not loaded yet, may be shown to the one who asked, whatever becomes of the rows (`RetrieveInv`); no two rows share an identifier or a content (`MemTableInv`) |
| `StorageProofs`: AuditLog | `LogTypeCorrect`, `CoveredColumnsVouched`, `DetailsNotCovered`, `SoleWriterChain` | a writer in `log_event` holds a real event; a stored MAC is of an event whose `log_event` has reached its INSERT; an edit keeps identifier and MAC |
| `StorageProofs`: CostTracker | `CostsAreAccounted` | dates grow with the clock, and records with their dates (`RecordsInv`); what a summary has read, in whatever order, covers what stood when it began and is covered by what stands now (`SummaryInv`). The sum of a set of records does not depend on the order in which the fold takes them, and grows with the set (`SumSplits`, `SumGrows`) |
| `StorageProofs`: Conversation | `HistoriesMakeSense` | a stored answer comes after its question (`StoredInOrder`), and a turn that will answer has asked (`AnsweringWasAsked`); the loop that cuts by tokens returns the first messages of the newest |
| `ServicesProofs`: Daemon | `MissedRunsMadeGood`, `PortsAreExclusive` | as long as nothing was disturbed at most one process has got as far as the missed job, and the row is overdue until its run is recorded (`Undisturbed`) |
| `ServicesProofs`: MessageRouter | `NoMessageUnaccounted`, `OwnRunIsNeverApproved` | what was handled is below what the channel holds, and that below what is still to be fetched or handed over (`OrderInv`, `BatchInv`); whatever is below is accounted for (`AccountInv`); a run of the chat that waits is the one the listener waits for (`AwaitInv`) |
| `ServicesProofs`: ConnectionPool | `PoolLimitsHold`, `PoolsGoOn`, `OperationsGoForward` | the operations at work and the holders of connections are finite and within their limits, whatever operations there are (`LimitsInv`) |

None of the properties is inductive alone. `GatedRunsOnlyApproved` says nothing of a
waiter that has read Approved and not yet started the tool; `RowInv` adds that its row
is approved. `NoOverlap` needs that `start` spawns no timer before it has caught up.
`InterruptedRunsFirst` needs that an owed job is still due, hence that every statement
that advances `next_run_at` comes after the run. The budget needs that a call recorded
beyond it leaves its run in front of `CheckBudget` or out of the loop.
`AtMostConcurrent` says nothing of a chunk that is still to be spawned.
`NotesLostOnlyByOverlap` says nothing of the notes an updater has read and will write.
`EmailAccounted` says nothing of a session that has selected the inbox and not read yet.
`PrivateStaysPrivate` says nothing of the identifiers that are still to be loaded by a search.
`PageKept` needs the lock, and that the page is given up before the next is opened.
`FollowsDefinition` says nothing of a sort under way, and `MessagesAccounted` nothing of
what the poller has fetched and the listener has not taken.

The order is the same everywhere: the initial state satisfies the invariant; one lemma or
step per action, or per group of actions that change the same things, shows that it is
kept; each property follows from it, or from one step under it. `ImplementsGate` maps
every step to a step of the gate or to a stutter, and `WordIsKept` to one of the mailbox. `SoleWriterChain` shows that the
overlap of writers is what breaks the chain: with one writer, no failing statement and
no edit every reachable table verifies. `PortsAreExclusive` and
`SessionsExclude` state invariants of `Daemon` and `Email` that no configuration lists.

The type invariant of every module is a theorem too: `TypeCorrect`, and for the
components that share a proof module `LogTypeCorrect`, `MemoryTypeCorrect`,
`StreamTypeCorrect` and so on. Two of them are more than types. `MemTypeOK` holds because
the INSERT that finds the content in the table is refused, long after the call looked for
the duplicate, and because neither decay nor pin nor touch changes identifier or content.
`WorkflowTypeOK` holds because `Execute` fails on a reachable node that is not defined,
and such nodes do get into the order.

Of three liveness properties what no fairness is needed for is proved. Of `RunEnds`: the
steps that a run may still take are at most ten for each iteration to come, and every
step of the run, whatever the model answers and whichever call fails, leaves fewer
(`RunsRunOut`); an iteration that returned to the head of the loop uncounted would break
it. Of `TeamEnds`: every step brings the phase of the team forward, or gives an agent its
level, goes on to the next level or member or brings a member forward, and takes nothing
back (`TeamsRunOut`). Of `PoolOpsEnd`: in every reachable state in
which an operation has not ended, some operation can go on (`PoolsGoOn`; `GoingOnIsAStep`
shows that what it calls going on is a step), and each step takes an operation to a later
one of its few phases (`OperationsGoForward`). Without the timeout of `get` the first is
false: all connections may be held by calls of `record_run` that wait for their second.

`DataLemmas` has what several proofs need. The library states induction of a predicate,
which the provers cannot instantiate; here it is stated of a set (`UpTo`: a set that has
0, and with a number its successor, has all up to N; `OneByOne`, `LeastSubset`: the same
of finite sets) and follows from the least element of a set of numbers. That is how the
recursive functions of the model are shown to exist (`SumsExist`, `SetSumsExist`), and
what they return: the costs of a summary (`SumSplits`), the cut of a history
(`HistoryIsFirstOfNewest`), the elements of a sequence at some positions (`PickedMore`).

**Model-checked only**: the liveness properties (`WaitEnds`, `PendingSettles`,
`DeletedTimerEnds`, `RunEnds`, `TeamEnds`, `RestartHandsOver`, `PoolOpsEnd`,
`UpdatesSettle`), which need fairness and ENABLED, beyond the prover: for the runs, the
teams and the pools it is only left to TLC that steps are taken. Every invariant
and every step property of the passing runs is a theorem.

## Where code and documentation disagree

Shown by a run:

1. `AuditLog_chain`: two parallel tool calls read the same tail, and
   `verify_audit_chain` then reports an untouched table as altered.
2. `Scheduler_resume`: resume only sets the status; the timer ended at its first fire
   time after the pause, so the job does not run until the daemon restarts.
3. `Email_by_uid`: what is called a UID is a sequence number of another session; another
   message may be read, and marked as seen, under it.

Met while modelling, and stated in the module as a property that the model violates
(no configuration lists it):

- `StaleScoresReduced` (`MemoryStore`): loading a row touches it first, so the penalty
  for memories that were not accessed for 30 days never applies.
- `HistoryIsRecent` (`Conversation`): over the token budget it is the newest messages
  that are dropped.
- `UninstalledIsGone` (`Skills`): `nexmind skill uninstall` leaves the directory, so that
  the next start loads the skill, and a new install is refused.
- `RestartServes` (`Daemon`): the new process may meet the port of the old one and end.
- `WholeRowsWereLogged` (`AuditLog`): an edit of a column that the MAC leaves out verifies.
- `PrivateShownToItsAgentOnly` (`MemoryStore`): `list` knows no access policy, and the
  dashboard shows what it returns.
- `OnlyTheShownIsMarked` (`Email`): `email_read` of an id such as 1:3 marks three messages
  as seen and shows one.
- `CutOffIsNotAnswer` (`ModelStream`): some streams that break are taken for whole answers.
- `MessagesReachModel`, `ResultsReachModel` (`ModelCalls`): of several system messages
  only the last reaches Anthropic; the latest tool result does not reach Claude Code.
- `CleanupAlwaysRuns` (`AgentMail`): a team without a supervisor, or dropped, leaves its
  members registered.
- `CycleDetectedIffCyclic` (`Workflow`): a dangling edge, or a repeated id, is reported as
  a cycle.
- `ListenerKeepsListening` (`MessageRouter`): a panic ends the listener for good.
- `StoppedForToday` (`CostTracker`): an agent is stopped for what it spent up to 48 hours ago.

Met while reading, and without a property:

- The registry logs the outcomes `needs_approval` and `timeout`, which the CHECK of
  `audit_log` (`001_core_schema.sql:221`) rejects; the error is dropped with the event.
- `max_cost_per_run_usd` is compared nowhere.
- A chat falls back to the first agent on any error of the lookup (`http_api.rs:470`),
  a database error included, without a word.
- A delegation is reported as completed although its result could not be stored
  (`agent_comm.rs:536` drops the error); the response itself is in the report.
- A decision between the last poll and the forced expiry stands, while the call is told
  that its request expired (no gated tool runs wrongly).
- `agent_runs`: the runtime's INSERT names columns that the table does not have, and the
  error is dropped, so no row is ever written.
- A message between agents without a task refers to the task "default", whose row
  nothing creates: the foreign key refuses it.
- `send_message` does not split a text over 4096 characters, and Telegram's refusal is
  logged only. The settings of the dashboard are written and never read. "Task
  cancelled" of the HTTP API changes nothing. A backup only checkpoints the WAL.

## What is not modelled

- Formatting, prompts, embeddings, ranking, prices' values, parsing: data without
  control (formatting only as far as it can panic).
- Configuration (a file read once), permissions and secrets (predicates on strings, a
  cipher: `Approvals` takes their verdict as a constant), the event bus (events without
  a receiver), the dashboard's pages, and tools that pass one request to the outside
  world and keep no state: shell, code, files, HTTP, notify, voice.
- Code that nothing calls: `MessageRouter::handle_incoming` and what it uses (the daemon has its
  own), `BackupManager`, `NotificationEngine`, `ScriptSkillRunner`, OAuth refresh,
  the scheduler's `trigger` and manual jobs, `close` and `maybe_close_idle` of the
  browser, team retries (the runtime never returns `Err`). Exceptions are
  private memories, touch and decay, which the store offers to others.
- The window of `check_budget` stands still in `AgentRun` (`CostTracker` has it).
- The rows of the team registry and templates: statements of one row.
- A panic while a lock is held, and SQLite's own busy timeout: a statement returns or fails.

## Open ends

- An abstract set of facts that `MemoryStore` implements, as `Mailbox` is for `AgentMail`.
- The connection pool under the other modules: a failing statement stands for an
  exhausted pool in all of them.
