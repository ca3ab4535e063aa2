# Verification of cron-agent-dashboard

cron-agent-dashboard is a single Go binary that keeps issues in SQLite, queues
*runs* of command-line agents on them, executes the runs in a pool of worker
goroutines (one process group per run), lets a finished run hand over to another
agent (auto-chain), triggers runs by cron rules (autopilot), and tells outside
receivers about it (webhooks). A React client (`web/src`) shows all of it, follows
an issue over an event stream and sends the user's operations. This directory holds
TLA+ models of that machinery, the TLC runs that check them on small instances and
TLAPS proofs for instances of every size.

## 1. The system

| Part | State it keeps | Operations | Interacts with |
|---|---|---|---|
| Run queue (`internal/store`: runs, cancellation, issues, comments, chain_retry) | tables `run`, `issue` | create, comment/mention, rerun, chain retry, claim, complete, fail, reschedule, cancel (run, chain, issue), recover (orphan, stale), delete | one SQLite connection: every transaction is atomic, reads before `BeginTxx` are not part of it |
| Auto-chain (`auto_chain.go`) | `chain_id`, `chain_depth` of runs | dispatch of the agent mentioned in a finished run's output, behind depth, duplicate and 24-hour guards | inside the transaction that completes the run |
| Worker pool (`internal/worker/pool.go`) | maps `cancels`, `pendingCancels`, `heartbeatOKAt` | poll and claim, register, heartbeat, stale scan, panic recovery, shutdown | the queue through `WorkerStore`, the executor, the cancel endpoints |
| Executor (`executor.go`, `runtime_executor.go`) | a process group | start, record its pgid, time out, cancel, report | the context the pool gave the run |
| Cancel endpoints (`handlers_issue.go`, `handlers_run.go`) | nothing between requests | `cancelIssueRun`, `cancelChain` | pool first, database second |
| Life cycle (`main.go`, `selfcheck.go`) | signal context | start-up check, serve, graceful stop | everything above |
| Autopilot (`autopilot.go`, `scheduler/cron.go`) | table `autopilot_rule`, the scheduler's entries | edit, reload, trigger, record failure, auto-disable | the run queue; concurrent reloads |
| Webhooks (`webhook_dispatcher.go`, `store/webhooks.go`) | tables `webhook`, `webhook_delivery` | enqueue, tick, POST, mark, resubmit | the transactions of the run queue; receivers |
| Event stream (`issue_event_bus.go`, `run_events.go`, SSE handlers) | table `run_event`, subscriber channels | append, notify, subscribe, flush since cursor | commits of the store |
| Web client, issue page (`api/client.ts`, `IssueDetailPage.tsx`) | query cache, stream connection, fallback flag | connect, reconnect, handle a frame, poll, invalidate, refresh, open, leave | the event stream and the GET endpoints |
| Web client, forms and mutations (`pages/`, `components/`, `api/queries.ts`) | drafts, dialogs, pending requests | open, type, send, succeed, fail, invalidate | the query cache; the server's endpoints |
| Web client, agent form (`AgentDetailPage.tsx`) | form, dirty flag, `loadedAgentID` | seed, edit, save, change route | the agent's query, other tabs |
| Web client, views of an issue (`components/`, `lib/chainSummary.ts`) | none: derived from the issue and its runs | rail, card, banner, live card, chain rows, strip | must agree with the server's guards |
| Web client, log panel (`api/client.ts`, `streamRunLog`) | parser buffer, lines | read, dispatch, flush | the frames of `streamRunLog` |
| Web client, filters (`BoardPage.tsx`) | URL parameters | set, clear, open a link | the issues and agents queries |
| Maintenance (`maintenance.go`, `worktree.go`, `backup`) | files | log and worktree collection, backup | `IsRunWorktreeGCProtected` |
| Agents and workspaces (`agents.go`, `workspace.go`) | tables `agent`, `workspace` | create, update, promote, delete | the queue's guards read them |
| The rest | - | skills, attachments, export/import, seeds, runtime adapters, config | - |

What is hard in it: transactions of several goroutines in any order; decisions
taken on reads outside the transaction that acts on them; a cancel that races a
claim, a process start, a timeout or a retry; the process and its row ending at
different moments; the server stopping or crashing between any two steps;
heartbeats that fail while the process lives; concurrent reloads of the cron
table; deliveries that are repeated because their success was not recorded; a page
whose answers, frames, polls and reconnects cross each other; a form whose request
is under way while it is closed, edited or shown for something else; buttons that
decide by a summary what the server decides by its rows.
PROJECT.json lists, line by line, the hazards that have a property; section 5 the ones that
have none.

What makes each part correct: at most one running run per issue and per shared
directory; outcomes that are final; chains that end; a process that is alive only
while its row says so; every run ends; recorded processes do not get lost over a
restart; a delivery is neither forgotten nor sent for ever; the scheduler follows
the rules that are stored; a page that is behind catches up; what a form sends goes
where it belongs, once; what a page offers is accepted, and what it shows is so.

## 2. Modules

| Module | Models | Role |
|---|---|---|
| `RunQueue` | the tables and every transaction on them | component; its mutants sit next to what they mutate |
| `IssueSlots` | - | abstract specification: one serving slot per issue |
| `RunQueueProofs` | - | theorems about `RunQueue` |
| `MCRunQueue` | - | constants for TLC |
| `WorkerPool` | pool, worker store, executor, cancel endpoints, life cycle | composes with `RunQueue` (`Q == INSTANCE RunQueue`): every database step is an action of `RunQueue` conjoined with what happens in memory |
| `WorkerPoolProofs` | - | theorems about `WorkerPool`, on top of `RunQueueProofs` |
| `MCWorkerPool` | - | constants for TLC |
| `WebhookDelivery` | subscriptions, delivery rows, the dispatcher | component |
| `WebhookProofs` | - | theorems about `WebhookDelivery` |
| `MCWebhook` | - | constants for TLC |
| `Autopilot` | rules, cron instances, edit requests with their reloads, triggers | component |
| `AutopilotProofs` | - | theorems about `Autopilot` |
| `MCAutopilot` | - | constants for TLC |
| `IssuePage` | run events, bus, stream handler, `streamSSE`, query cache and polling of the issue page | composition of server and client over one issue |
| `IssuePageProofs` | - | theorems about `IssuePage` |
| `PageOps` | the query hooks, pages, forms and mutations, as data | used by `PageSession` |
| `PageSession` | one operation from its form to the data it changes | component |
| `AgentEditor` | the agent form | component |
| `FormProofs` | - | theorems about `PageSession` and `AgentEditor` |
| `IssueConsole` | the views of an issue over every history of its runs | operators over a small server model |
| `LogStream` | the log stream's handler, SSE parser, log panel | composition of server and client over one stream; the parser is also an algorithm, against its result for one read |
| `LogStreamProofs` | - | theorems about `LogStream` |
| `BoardFilters` | the board's filters | component |
| `ViewProofs` | - | theorems about `IssueConsole` and `BoardFilters` |
| `MCWebClient` | - | those of the client that share no state, side by side, for TLC |

### RunQueue

A row of `run` is a record: `status`, `issue`, `agent`, `attempt`, `chain`,
`depth`, and four abstractions: `via` (who queued it), `recent` (within the
24-hour window of the daily guard), `due` (`next_retry_at` has passed), `serial`
(claimed while `per_run_worktree` was off). Ids are handed out in `enqueued_at`
order, so `ORDER BY enqueued_at, id` is the order of ids. `lastFailed[c]` is the
failed run of chain `c` with the latest `finished_at`.

Each action is one transaction. `RerunIssue` and `RetryFailedRunInChain` are two:
their checks run before `BeginTxx`, and what they read is kept in `req[h]` until
`RequestInsert`. `CompleteRunWithReason` is three actions, one per outcome
(`CompleteDone`, `CompleteChained`, `CompleteFailed`); `CompleteDone` stands for
every way a finished run queues nothing: no mention, unknown agent, auto-chain
off, dry run, a guard that blocks. The partial unique index on queued
`(issue, agent)` is `QueuedFor`. Comments, run events and webhook rows that the
same transactions append are left out.

`auto_chain_max_depth`, the daily limit, retry policies and auto-close are
constants: a setting changed while runs are queued only changes the guards
evaluated later. `per_run_worktree` and the main agent do change, because guards
compare what they were with what they are.

### WorkerPool

A worker goes `idle -> preparing -> registered -> started -> executing -> exited
-> finished -> idle`. `Claim` is the committed claim; `preparing` is
`WorkerStore.ClaimNextRun` after it; `Register` is the critical section that
enters `Pool.cancels` and consumes `pendingCancels`; `StartProcess` is `cmd.Start`;
`RecordProcess` is `MarkRunProcess`; `ProcessExit` is the result of `Execute`;
`FinishRun` has the five outcomes of `WorkerStore.FinishRun`; `Cleanup` is the
deferred function. A context keeps its first cause (`Cancelled`). A panic cleans
up first and fails the run afterwards; a panic of the preparation leaves the row
running.

Time appears as events: `Age(r)` (no heartbeat for `staleAfter`), `Deadline(w)`,
`RetryDue(r)`. Two assumptions about time are explicit constants. `Slow` without
`"prepare"` says that preparing a claim is faster than the 120-second stale limit;
without `"handler"`, that a cancel handler is faster than a retry backoff. A retry
is at least a second away, so the worker has cleaned up before it is due.

A crash loses the memory and keeps the database and the processes (`stray`).
`Restart` first goes through the recorded process groups of running rows, which it
signals or leaves alone (record older than a day, leader gone, signal refused),
then recovers the orphan rows, as `RunStartupSelfCheck` does.

### WebhookDelivery

`hook` and `row` are the two tables, `row` by the order of insertion. Of
`next_attempt_at` only the order matters: `due` is the sequence of pending rows
whose time has come, oldest first; a pending row outside `due` waits for its
backoff (`BackoffElapses`). `DueWithout(D)` is what is left of that order when rows
leave it. `EnqueueWebhookDeliveries` is the fan-out inside
the transaction that makes the event; which transaction it is does not matter.

The dispatcher is one goroutine, `disp`, and stops at every statement where
another goroutine can come in: `SelectPending`, `GetWebhook` (the two queries of
`NextPendingWebhookDelivery`), `Attempt` (the POST and its answer),
`MarkWebhookDeliveryDelivered`, or `ReadAttempt` and `MarkWebhookDeliveryFailure`
(the two statements of that function). `WriteFails` is any of those writes
refused by the database. `Stop` cancels the tick's context, so neither the POST
nor the write that would record it succeeds; a crash does the same to the tables.

`posts` and `acks` are history: POSTs and 2xx answers per row since it was
enqueued or resubmitted. `lost` counts stops and failed writes, the only ways the
outcome of a POST can be lost. Payload, signature, masking and URL checks are not
modelled.

### Autopilot

`rule` is the table, without the text: `status` (also before creation and after
deletion), `spec`, `snoozed`, `fails` (`consecutive_failures`, kept at `Threshold`
once there, since only the comparison reads it), `next` (`next_run_at` is set).
`cron` holds the cron instances ever built, `current` is `CronScheduler.cron`.

An edit request goes `idle -> list -> swap -> stop -> start -> clear -> sync ->
idle`: the edit itself, then the statements of `AutopilotRunner.Reload` and
`CronScheduler.Reload`, which no lock holds together. `Disconnect` is a client
that goes away: the reload runs under the request's context, its next query fails,
and `reloadAutopilot` drops the error. A trigger goes `get -> reget -> create`, or
to `fail` when a template, an agent or the transaction fails; a committed create
whose read-back fails also goes to `fail`, as in the code. `Init` is the state
after the boot reload, for any choice of the rules that exist and are enabled; failures
and snoozes begin at none and are reached by actions.

`clean` and `paused` are history: `clean` is TRUE as long as no two reloads have
overlapped and none was cut short; `paused` holds the triggers whose rule was
disabled, snoozed or gone ever since they began.

### IssuePage

The issue is two values: `rev`, the run events committed so far, and `active`,
whether its execution status is queued or running. A query's answer is that pair as
it was when the server answered. `AppendRunEvent(notifies, busy)` is any commit
that appends an event; `notifies` is FALSE for the four that never call the bus
(creating, updating and rerunning an issue, retrying a chain). `srv`, `wake` and
`mark` are the goroutine of `streamRunEventsForIssue`: its one-slot channel and its
watermark, which moves at most `FlushLimit` rows at a time. A connection starts at
watermark 0 because the client sends no cursor; that replay is what makes up for
lost frames.

On the client, `conn` is the state of `streamSSE`, `phase`/`reply`/`cache` are the
query client: an invalidation cancels and restarts a request under way unless the
query has no data yet (`Restarted`), a poll joins it. `comments` and `runs` are
enabled by the issue's id, as the stream is. `unheard` marks the one case in which
an invalidation is lost. Durations (three seconds, staleTime, the retry delay) are
left out: a timer may fire at any time, and `kept` says which data was still fresh.

### PageOps and PageSession

`PageOps` is a table: what each hook reads, what each page shows, how each form can
be sent, and for each mutation the queries its endpoint changes (`writes`), those
its handler invalidates (`refreshes`) and what else it does. `PageSession` takes
one row of the table and one query, opens, fills, sends and closes the form, lets
the server apply or refuse up to two requests, loses answers, and runs the
handlers. Mutations that behave alike (`Backup` and `Vacuum`, `ToggleRule` and
`DeleteRule`, the two buttons of a listed chain) are one element of `Operations`.
Window focus, which refetches everything older than five seconds, is left out, so
that a property about invalidation cannot hold because of it.

`LeftBehind` is the list of what the code does not refresh: the sidebar's counts
after an issue changes, the issue's own query after its chain is cancelled or
retried (the row invalidates `['issue', id]`, the query is `['issue', slug,
identifier]`), the agent lists after a deletion, the date of the last cleanup.

### AgentEditor

A record is a number, new for every edit, with the agent it was made from, which is
what the properties tell apart. `SyncForm` is the effect that seeds the form; it is
part of every action that changes the query's data, the route or the dirty flag,
since React runs it after each of them. `onSuccess` belongs to the last render, so
it is the agent shown by then that is fetched again. The conversion of the retry
policy between JSON and fields is left out.

### IssueConsole, LogStream, BoardFilters

`IssueConsole` has the server's operations on the runs of one issue with their guards,
and the views as operators. Everything a view says is compared with the guard that will
decide about the click. Its answers are fresh: staleness is the matter of `IssuePage`. A
success closes the issue whatever else is queued on it, so a done issue may have active
runs, and the oldest run is claimed first unless it waits for its next attempt. A chain
retry is three steps as in the code: the count of the chain's active runs
(`CountPending`), the choice of its last failed run (`SelectFailed`), and the
transaction (`RetryChainRun`), which looks at neither again. `asked` and `found` are
what retries under way have read; since any number of requests may have read the same,
they only grow. A run keeps the number of its attempts while it is queued or running;
afterwards no view of the module reads it. `raced` is history: the chains whose last
retry was added beside an active run. `ChainRowSpeaksForItsChain` excepts these while
they are active: the later of two runs may end first, and the row then offers nothing
for the one that goes on. Without the exception TLC finds such a chain in 13 states: a
run that the first retry's run passed on waits for its next attempt while the second
retry's run is claimed and ends. The comment at `chain_retry.go:14` says that a retry is
refused while the chain has queued or running runs, which the code does not ensure for
overlapping requests; it is a hazard in PROJECT.json. A rerun's check and transaction
are one step, because a rerun with an old check adds what `AddMention` adds.

`LogStream` is one response of `streamRunLog` and its reader. A byte stands for the
event line's text (one for `chunk`, one for `done`), a data prefix, a comment, a
character of text, CR or LF. The handler writes a comment when it opens, then, as long
as it is `"open"`, a chunk frame whenever `flushChunk` finds new lines, keep-alive
comments and in the end the final frame; the flush inside `finish` is a `FlushChunk`
of its own, since it is flushed to the client by itself. It may also return without a
final frame (`Leave`: the server stops, a read of the log fails). The parser is
translated as it is (normalise, cut at empty lines, split into lines), and
`ReadBytes(n)` cuts the stream anywhere. The panel's text is a sequence of lines;
`Joined` is the panel's rule for putting a chunk behind what it has, where an empty
last line is filled and not followed. `written` and `text` are history: how many lines
were sent, and what the panel should show of them.

`BoardFilters` has the board's URL, with junk values, against the query it sends and
the summary it prints; the agents, whose names the summary needs, arrive later. The
list's limit of 200 rows is not modelled: "the full list" is what the filters select.

## 3. Runs

| Run | Bounds | Shows |
|---|---|---|
| `QueueIssue` | 1 issue, 3 agents, 3 runs, 2 attempts, depth 1, 1 request in flight, auto-close | one running run per issue, active run keeps issue open, no run deeper in its chain than the limit, terminal is final, `ImplementsSlots` |
| `QueueWorkspace` | 2 issues, 3 agents, 3 runs, depth 2, daily limit 1 | serialised runs exclude each other, workers are visited once per chain, daily budget |
| `PoolCancel` | 2 workers, 2 issues, 2 runs, 1 canceller | type, a live process has a running row, one process per shared directory |
| `PoolCrash` | 2 workers, 1 run with a retry, 2 cancellers (issue and chain), 2 stops, settings switched | one worker per run, user reason, start-up sees recorded processes, `ImplementsQueue` |
| `PoolLiveness` | 1 worker, 2 runs with a retry, 1 stop, fair | every run settles |
| `Webhook` | 2 webhooks, 2 events, 2 attempts, 2 deliveries, 2 lost outcomes, fair | dead letters have had their attempts, acknowledged once, settled stays settled, every delivery settles |
| `Autopilot` | 1 rule, 2 expressions, 2 edit requests, 2 triggers, threshold 2, 2 reloads | a paused rule is quiet, a failing rule is disabled, after clean reloads one instance runs and every enabled rule is in it |
| `IssuePage` | 2 queries, 3 events, 1 row a flush, 1 fault, 2 uses, fair | handled frames are fetched, the page catches up |
| `WebClient` | 2 drafts, 2 openings, 3 changes; 2 agents, 2 edits; 2 agents, 4 runs, 2 attempts; 6 kinds of chunks of 1 to 3 lines, 23 bytes before the final frame; 1 agent filter | for each part of the client its properties, from all of its initial states |
| `RetryConflict` | violated | a refused retry leaves the row running |
| `LostCancel` | violated | a cancelled run is queued again |
| `ChainCancel` | violated | a chain cancel ends the row under a live process |

Three runs are enough for every relation the guards speak of: a running row, a
queued one that competes with it, and one more that is enqueued in between; the
guards compare two rows at a time. The depth gate is asked about workers only, and the
duplicate guard refuses those the chain has visited, so `QueueIssue` has two workers
beside the main agent: with a limit of one, the second is refused by the gate alone. Two
issues meet in `QueueWorkspace`, where runs of both compete for the workspace. Two workers and two cancellers give every race
of two actors; one run is enough for what happens between the actors of one run,
two for what happens between runs. Two deliveries are what a dispatcher that
takes one row per tick can confuse, two attempts have a first, a last and one
after a resubmission. One rule is enough for races on a rule, since rules only
meet in the list of a reload; two requests are two overlapping reloads. Three
events and flushes of one row give a burst that needs more than one flush; one fault
is a break at any moment, after which the page must be whole again; the issue and
one query that waits for it stand for the three. Two drafts and two openings are a
request and what was typed or opened after it; two requests at a time are all a
button without a lock needs to overtake itself. Four runs make a chain of two, its
retry and a run of another chain, or two retries of one chain. The log's chunks are plain,
empty, or have carriage returns at a line's end or inside it, and 23 bytes hold the
largest of them with another one behind it: every kind of boundary, cut anywhere. The parts of `WebClient` share no state, so each is explored
with the others at rest: the run is their sum and not their product. Deadlock is not checked: the server may be idle
for ever, and the bounds stop the enqueueing.

Symmetry is used over issues, agents (in `WebClient` those of `IssueConsole`), workers, handlers, expressions, edit
requests and triggers, which are only compared for equality, and not in the runs
that check liveness.

`OneCronRuns` and `EnabledRuleIsScheduled` are stated for `clean` reloads. Without
that condition TLC finds in 13 states that two overlapping reloads leave two
instances running: the second request stops the first's instance before the first
has started it. Nothing in the repository claims otherwise, so it is a hazard in
PROJECT.json and not a finding; `PausedRuleIsQuiet` and `FailingRuleIsDisabled`
hold in spite of it.

Fairness (`PoolFairSpec`): goroutines run; a process ends, because its timeout kills
it; time passes for a row nobody holds; the stale loop ticks; a stopped server is
started again (otherwise nothing ends). Heartbeats, deadlines, panics, signals and
users are under no obligation.

Fairness (`PageFairSpec` of `IssuePage`): the goroutine that committed calls the
bus, the handler flushes at its keep-alive, the retry and poll timers fire, a
connection that is tried is made unless a fault (bounded) refuses it, requests are
answered and answers arrive. Wake-ups, focus and the user are not assumed, so
catching up rests on replay, keep-alive and polling alone.

Fairness (`FairSpec` of `WebhookDelivery`): the dispatcher's ticker ticks and its
statements return (the POST has a timeout), backoffs end, a stopped server is
started again. Receivers may refuse for ever, and nothing is assumed of users,
events or faults; only their number is bounded.

Two disagreements with the documentation have no run of their own: the daily guard does not count dispatches of the main agent
(`auto_chain.go:183`), and a run ended by a graceful shutdown is recorded with the
reason `user` (`pool.go:522`), where docs/TRD.md:222 promises `shutdown`.

The type invariants of `RunQueue`, `Autopilot`, `IssuePage` and `AgentEditor` and
`FallbackOnlyWhileDown` are proved for every instance (section 4) and not repeated
in a run. Each property of a run has a mutant: a plausible slip in the code (a dropped `AND
status='running'`, an off-by-one, a swapped order) under which TLC finds the
property violated.

## 4. Proofs

`RunQueueProofs` proves, for any number of runs, issues, agents, workspaces,
handlers and any limits, from the named assumptions of `RunQueue` (bounds are
naturals, every workspace has an agent, policies grant an attempt):

- `TypeInvariant`, `TypeCorrect`: `TypeInv` = `TypeOK`, ids above `nextId` are free,
  and `lastFailed` names failed rows of its chain. The last two are needed: an
  insert must not hit a row, and a chain retry copies the depth of the row.
- `StepRows`: every step does to every row one of six things (leaves it, ends it,
  claims it, requeues it, enqueues it, removes it). Everything below argues from
  these six cases instead of twenty actions.
- `TerminalForGood`: `TerminalIsFinal`.
- `SafetyInvariant`: `SafetyInv` adds `OneRunningPerIssue`, `SerialRunsExclude`,
  `ActiveRunKeepsIssueOpen`, `ChainDepthBounded` and `RequestDepthBounded`. The
  last makes it inductive: the depth a chain retry remembers in `req` is bounded
  although the row it read may be deleted since.
- `OneRunPerIssue`, `SerialRunsAlone`, `ActiveIssueOpen`, `DepthBounded`: the
  checked properties as corollaries.
- `ChainInvariant`: `ChainInv` is what `NoSecondVisit` and `DispatchBudgetKept` need.
  The duplicate guard looks at the chain within one issue, so the rows of a chain,
  and the chain retries that have read it and not yet inserted, must have one issue
  (`ChainHasOneIssue`); a new chain must not collect old rows, so a chain's name is
  below `nextId` (`ChainBegun`). The budget is a cardinality argument: a dispatch
  adds one row to a set the guard has just seen below the limit, and no other step
  adds any.
- `QueueImplementsSlots`: the refinement `ImplementsSlots`. `SlotView` reads the
  slots off the table, which is a function because of `OneRunningPerIssue`;
  every action is then a slot step or a stutter, by what it does to the rows.

`WorkerPoolProofs` proves every safety property of `WorkerPool`, for any number of
workers, runs, cancel handlers and stops. The queue's own assumptions are repeated
in `WorkerPool` as `QueueAssumption`, since `INSTANCE` does not carry them over.

- `PoolTypeCorrect`, `PoolImplementsQueue`: types and the refinement of `RunQueue`.
  With it `PoolInheritsQueue` takes the queue's safety invariant over from
  `RunQueueProofs` (`QP`) without proving it again.
- `StepRowMoves`, `StepWorkerMoves`: what any step does to one row and who does it,
  and what it does to one worker. The invariants below argue from these cases.
- `NoSharedRun`: `HoldInv` adds that the row in a worker's hands is not due, if it is
  back in the queue for a retry; otherwise a second worker could claim it.
- `UserReasonHonest`: `CauseInv` follows a cancel from the request (`asked`) through
  `pendingCancels` and the handler's fallback to the context's cause and the reason.
- `LeftoversSeen`: `DownInv` (a server that is down has nothing in memory), `ScanInv`
  (the stale scan holds no row that is prepared or driven), `DrivenRow` (such a row
  is running, unless a user cancelled it) and `StrayInv`.
- `LiveProcessHasRow`: `CancelInv` says why the two-step cancel is safe.
  `HandlersHarmless`: a handler that is about to write to the database has left a
  pending cancel behind, or its run has ended, waits for a retry, or is in the hands
  of a worker that will not start its process any more or has seen it exit.
  `PendingTaken`: registration takes a pending cancel up.
- `DirectoryAlone`: with `DirInv`, that a row is serialised exactly when its process
  is sent to the workspace's own directory, from `LiveProcessHasRow` and the queue's
  `SerialRunsExclude`.

Three of these have hypotheses on constants, the values of the runs that check the
same properties. `LeftoversSeen` and the two after it need preparations faster than
the stale limit (`"prepare" \notin Slow`); the last two also handlers faster than a
retry backoff and no chain cancels (the `ChainCancel` run shows that a chain cancel
does end the row of a live process); `DirectoryAlone` also that `per_run_worktree` is not switched while
runs are claimed (`~Toggles`), because a row claimed before the switch and one claimed
after it do not see each other. Everything else holds without them.

`WebhookProofs` proves the safety properties of `WebhookDelivery`, for any finite set of
webhooks and any number of deliveries, attempts and lost outcomes:

- `WebhookInvariant`: `WebhookInv` relates a row to its history. `DispInv`: the row
  the dispatcher works on was pending and only a deletion can have changed that, and
  the attempt count it has read is still the row's, so the two statements of
  `MarkWebhookDeliveryFailure` act as one. `PendingInv`, `SettledInv`: the attempt
  count is the number of POSTs, but for the one in flight and the lost ones. Rows from
  `nextId` on are free, which a fan-out to several subscribers needs (`FanOut`).
- `WebhookTypeCorrect`, `DeadLettersAreExhausted`, `AnswersAreCounted`, and the action
  property `SettledRowsStay`.

`AutopilotProofs` proves the types and every property the `Autopilot` run checks, for any number
of rules, expressions, requests, triggers and reloads and any threshold of at least
one:

- `AutopilotTypeCorrect`: `TypeInv` adds to the types that a request only holds
  instances that were built and that a trigger in flight has a rule.
- `PausedRuleStaysQuiet`: inductive with the types; the second check sees the rule
  in the same step that lets the trigger on to its create.
- `FailingRuleGetsDisabled`: an action property, from what each step does to the
  status and the failures of a rule.
- `OneCronStaysRunning`: `ReloadInv` says, as long as reloads are clean, that at
  most one is in progress and which instance runs at each of its steps (the old
  one until Stop, none until Start, the new one after).
- `EnabledRuleStaysScheduled`: `ScheduleInv` says where an enabled rule's entry and
  `next_run_at` are at each step of the reload, once no edit waits for its reload;
  it needs `ReloadInv` and that an enabled rule has an expression.

`IssuePageProofs` proves the safety properties of `IssuePage` for any set of queries
with the issue in it, any flush limit and any number of events, faults and uses:

- `PageInvariant`: `PageInv` adds to `PageTypeOK`, `HandledFramesAreFetched` and
  `FallbackOnlyWhileDown` two facts that make them inductive. `RequestsAreEnabled`:
  a request is only made of an enabled query, and an answer holds data.
  `StreamNeedsIssue`: a stream exists only for a page that is shown and has its
  issue, and nothing is left of a handler whose client has gone. With it a frame
  finds every query enabled, so that `InvalidationKeeps` applies: each query is
  started or has its first answer on its way.
- `PageTypeCorrect`, `HandledFramesStayFetched`, `FallbackStaysHonest`: its parts.

`FormProofs` proves all properties of `AgentEditor`, for any agents and any number of
edits:

- `EditorInvariant`: `EditorInv` adds that the form's record was made from the agent
  named by `loadedAgentID`, that what is cached or answered for an agent is its own,
  and that a save under way carries a record of its target. `SyncFormFits` says that
  the effect restores the first whatever it is given.
- `EditorTypeCorrect`, `AgentKeepsItsRecord`, `FormStaysWithItsAgent`, `EditsStay`.

It also proves the properties of `PageSession`, for every operation of `PageOps` and any number of drafts, openings and changes. `FormsAreSound` and
`ChangesAreRefreshed` go through the catalogue operation by operation; the rest argues
from what they say and never looks at the table again:

- `SessionInvariant`: `RequestInv` (a form that locks has one request under way, and a
  confirmation's is its own), `DraftInv` (what was applied is still waiting for its
  answer, or no longer in the form, or in a form that is filled anew when it opens) and
  `ShownInv`.
- `SessionTypeCorrect`, `FormsCreateOnce`, `ConfirmationsStay`, `OwnWritesReachTheScreen`.

`ViewProofs` proves the properties of `IssueConsole`, for histories of any length, and of
`BoardFilters`, for any URL and agents:

- `ConsoleInvariant`: `ChainsInv`, that only the last run of a chain that is not `raced`
  can be queued or running, is why the chain row may look at the last run only. It is
  inductive because a retry that adds a run beside an active one marks the chain, and
  the mark goes only with a retry that finds the chain idle (`RacedMove`). `FailedInv`,
  that what a chain remembers as its last failed run, and what a retry has picked, is a
  failed run of it, is why a retry the row offers can be made; `ParentsInv`, that a
  run's parent is earlier and over, is why a retried failure counts as recovered.
- `OffersHonoured`, `ChainRowsSpeak`, `BannersTell`, `SummariesAreTrue`. The first and
  last runs that the views pick by `CHOOSE` exist by well-founded induction
  (`LeastExists`).

`LogStreamProofs` proves both properties of `LogStream`, for any log lines, any number
of frames and any cuts, from `LogAssumption` alone (a chunk is a nonempty sequence of
lines over text and CR; the bound is a natural):

- Induction over the stream is done with sets, not with predicates: `NatInSet` (a set
  with 0 that is closed under successor contains all naturals) and `SeqInSet` follow
  from `WFMin` of the library, and each induction names the set of lengths for which
  its claim holds. `RecursionExists` builds, by such an induction, the function that a
  recursive definition describes, and `FoldLaws` says of it what its definition says:
  what is folded over `Append(s, b)` is one step further than what is folded over `s`.
  `ReadLaws`, `ScanLaws`, `DataLinesLaws`, `CountLaws` and `NormalizedLaws` are its
  instances for the recursive functions of the model.
- `Parse` is a parser that takes raw bytes one at a time and remembers the last one, to
  know the second half of a CR LF. `DrainIsParse`: `DrainSSEBuffer` of a whole text is
  `Parse` of it. `DrainGoesOn`: with a buffer that an earlier drain left, `Kept`, it is
  `Parse` that goes on from that buffer; it differs from going on without a cut only in
  the last byte remembered, which matters only between CR and LF.
- `LogInvariant`: `LogInv` has three parts besides the types. `Sent`: what comes before
  the final frame ends with an empty line, has no `done` line, has `written` data
  prefixes, and parses to `text` if it has no carriage returns. `Once`, in `CutInv`: unless a read has ended in
  a CR LF, buffer and panel are where one single parse of the bytes read would be.
  `At`, in `PanelInv`: whatever the log holds and wherever it was cut, the lines shown
  plus the data lines in the buffer are at most the data prefixes read, and before the
  final frame no `done` line is in the buffer. `SentGrows` and `AtGrows` carry these over
  what the server appends.
- `CutsNeverMatter`, `LogAlwaysArrives`: `CutsDoNotMatter` and `LogArrives`. The latter
  needs both halves: `Once` for the text without carriage returns, where no cut can
  fall in a CR LF, and `At` for the logs with them.

Only model-checked: liveness (`EveryRunSettles`, `EveryDeliverySettles`,
`PageCatchesUp`), which is out of the prover's reach. Every invariant and every action
property of a run that passes is a theorem.

## 5. Not modelled, and the plan

Next, in this order:

1. the watermark of the event stream as the `created_at` string it is, with ties;
2. `Agents`: creation, update, promotion and deletion of agents and workspaces with
   their skills, and the main-agent invariant the start-up check insists on;
3. `Maintenance`: log and worktree collection and backup against running and
   retrying runs (`IsRunWorktreeGCProtected`);
4. `Attachments`: the file and its row, written and deleted in two steps;
5. pure algorithms against reference definitions: ring buffer, capped copy, retry
   backoff, order of trimmed RFC 3339 strings, panic circuit breaker, and what
   export followed by import keeps of a workspace.

Hazards met while modelling that no property covers:

- `runtime_executor.go:151`, `executor_process_unix.go:58`: a process started and not
  yet recorded, or one that ignores SIGTERM when the server stops within the grace
  period, is found by no start-up; nothing in the database names it.
- `handlers_issue.go:138`, `pool.go:354`: a cancel handler slower than the retry backoff
  and a preparation slower than the stale limit. `WorkerPool` has both, as `Slow`;
  the passing runs leave them out.
- `runs.go:130`, `run_events.go:59`: times are compared as strings whose trailing zeros
  are trimmed; events of one instant on either side of a flush can be skipped. The
  models have an order where the code has strings.
- `webhooks.go:263`: a disabled webhook still gets what is pending. `autopilot.go:334`,
  `autopilot.go:347` (store), `autopilot.go:120` (app): a next run shown for a disabled
  rule, a created issue counted as a failure, a reload ended by a deleted rule. Nothing
  in the repository asks for the contrary.
- `IssueDetailPage.tsx:84`: a frame does not restart a query whose first answer is on
  its way (`unheard` in `IssuePage`), and does not refresh the timeline.
  `IssueDetailPage.tsx:104`: a server slower than the three-second fallback is asked for
  ever and never shown; the model has no durations.
- `IssueDetailPage.tsx:127`, `AgentDetailPage.tsx:106`: fields stay enabled while a
  request is under way, and its success clears or replaces what was typed meanwhile.
  `AgentDetailPage.tsx:96`: the form sends the whole record and takes back what another
  tab saved. `PageSession` and `AgentEditor` reach all three.
- `IssueDetailPage.tsx:279`: with a queued run before the running one, the live card
  names another run than the one the rail cancels.
- `IssueDetailPage.tsx:503`: a log stream that ends cleanly without its final frame
  leaves the panel saying live.
- `AutopilotPage.tsx:112`, `:221`: rows and counts are memoised apart while snoozes run
  out; a rule's button is busy only while it is the last one triggered.

Left out for good: text (prompts, mentions, runtime adapters, templates), seeds,
configuration, migrations; of the web client layout, the flow graph, the autopilot
page's tabs and search, formatting, toasts, token and
theme storage, the workspace switcher, mention completion and the widgets that only
lay out a query's result, which have no state machine of their own.
