------------------------------- MODULE RunQueue -------------------------------
(***************************************************************************)
(* The durable run queue: the tables "run" and "issue" of the SQLite       *)
(* database and every transaction of internal/store that moves a run or an *)
(* issue from one status to another.                                       *)
(*                                                                         *)
(* The connection pool holds one connection, so a transaction is one       *)
(* atomic action.  What a handler reads BEFORE its transaction is another  *)
(* action: RerunIssue and RetryFailedRunInChain decide on such a read, and *)
(* any number of other transactions may commit in between.                 *)
(*                                                                         *)
(* Comments, run events and webhook rows are appended by the same          *)
(* transactions and never read back by them, so they are left out here.    *)
(***************************************************************************)
EXTENDS Naturals, FiniteSets

CONSTANTS
  MaxRuns,        \* bound on the number of runs ever enqueued
  Issues,         \* issues that may be created
  Agents,         \* agents registered in the workspaces
  Workspaces,
  IssueWs,        \* the workspace an issue belongs to
  AgentWs,        \* the workspace an agent belongs to
  RetryMax,       \* max_attempts of an agent's retry policy
  AutoClose,      \* workspace.auto_close_on_run_done
  MaxDepth,       \* workspace.auto_chain_max_depth
  DailyRunLimit,  \* workspace.auto_chain_daily_run_limit, 0 = no limit
  Handlers        \* HTTP requests that can be in flight at the same time

RunIds == 1..MaxRuns

ASSUME BoundsAssumption ==
  /\ MaxRuns \in Nat
  /\ MaxDepth \in Nat
  /\ DailyRunLimit \in Nat

ASSUME WorkspaceAssumption ==
  /\ IssueWs \in [Issues -> Workspaces]
  /\ AgentWs \in [Agents -> Workspaces]
  /\ AutoClose \in [Workspaces -> BOOLEAN]
  /\ \A w \in Workspaces : \E a \in Agents : AgentWs[a] = w

ASSUME RetryAssumption == RetryMax \in [Agents -> Nat \ {0}]

VARIABLES
  run,         \* the run table: a row, or NoRow, for every run id
  nextId,      \* the next run id; ids are handed out in enqueued_at order
  issueStatus, \* issue.status, "none" before creation, "deleted" after
  lastFailed,  \* per chain, the failed run with the latest finished_at (0: none)
  req,         \* what a two-step handler read before its transaction
  mainAgent,   \* per workspace, the agent with is_main=1
  worktree     \* workspace.per_run_worktree

vars == <<run, nextId, issueStatus, lastFailed, req, mainAgent, worktree>>

Active == {"queued", "running"}
Terminal == {"done", "failed", "cancelled"}

\* How a run was put in the queue: by a user or a rule, by a chain retry, by
\* an auto-chain mention of a worker, by an auto-chain mention of the main agent.
Origin == {"user", "retry", "worker", "main"}

\* A row.  attempt, chain, depth are the columns; recent: enqueued within the
\* last 24 hours; due: next_retry_at has passed; serial: the run was claimed
\* while per_run_worktree was off, which serialises the runs of a workspace.
Row == [status : Active \cup Terminal, issue : Issues, agent : Agents,
        attempt : Nat \ {0}, chain : RunIds, depth : Nat, via : Origin,
        recent : BOOLEAN, due : BOOLEAN, serial : BOOLEAN]

NoRow == [status |-> "none"]

Request == [op : {"rerun"}, issue : Issues, agent : Agents, chain : {0}, depth : {0}]
           \cup [op : {"chainRetry"}, issue : Issues, agent : Agents, chain : RunIds,
                 depth : Nat]

NoRequest == [op |-> "none"]
-----------------------------------------------------------------------------
Rows == {r \in RunIds : run[r].status # "none"}

With(s) == {r \in RunIds : run[r].status = s}

ActiveRows == {r \in RunIds : run[r].status \in Active}

Ws(r) == IssueWs[run[r].issue]

Exists(i) == issueStatus[i] \in {"open", "done", "cancelled"}

IssueBusy(i) == \E r \in With("running") : run[r].issue = i

IssueActive(i) == \E r \in ActiveRows : run[r].issue = i

\* The partial unique index on run(issue_id, agent_id) WHERE status='queued'
\* refuses a second queued row for the pair.
QueuedFor(i, a) ==
  \E r \in With("queued") : run[r].issue = i /\ run[r].agent = a

NewRow(i, a, c, d, v) ==
  [status |-> "queued", issue |-> i, agent |-> a, attempt |-> 1, chain |-> c,
   depth |-> d, via |-> v, recent |-> TRUE, due |-> TRUE, serial |-> FALSE]

\* INSERT INTO run: the next id, refused by the unique index or by MaxRuns.
InsertRun(i, a, c, d, v) ==
  /\ nextId <= MaxRuns
  /\ ~QueuedFor(i, a)
  /\ run' = [run EXCEPT ![nextId] = NewRow(i, a, c, d, v)]
  /\ nextId' = nextId + 1

\* The rows of S all move to the terminal status s in one transaction.
SetStatus(S, s) ==
  run' = [r \in RunIds |->
            IF r \in S THEN [run[r] EXCEPT !.status = s, !.due = TRUE, !.serial = FALSE]
                       ELSE run[r]]
-----------------------------------------------------------------------------
(* Issues and what users ask for                                           *)

CreateIssueWithInitialRun(i, a) ==
  /\ issueStatus[i] = "none"
  /\ AgentWs[a] = IssueWs[i]
  /\ InsertRun(i, a, nextId, 0, "user")
  /\ issueStatus' = [issueStatus EXCEPT ![i] = "open"]
  /\ UNCHANGED <<lastFailed, req, mainAgent, worktree>>

\* A comment that mentions agent a.  When a is already queued on the issue
\* the transaction only adds the comment, so nothing here changes.
AddUserComment(i, a) ==
  /\ Exists(i)
  /\ AgentWs[a] = IssueWs[i]
  /\ InsertRun(i, a, nextId, 0, "user")
  /\ issueStatus' = [issueStatus EXCEPT ![i] = "open"]
  /\ UNCHANGED <<lastFailed, req, mainAgent, worktree>>

\* RerunIssue up to its BeginTxx: the issue shows no queued or running run.
RerunIssueCheck(h, i, a) ==
  /\ req[h] = NoRequest
  /\ Exists(i)
  /\ AgentWs[a] = IssueWs[i]
  /\ ~IssueActive(i)
  /\ req' = [req EXCEPT ![h] = [op |-> "rerun", issue |-> i, agent |-> a,
                                chain |-> 0, depth |-> 0]]
  /\ UNCHANGED <<run, nextId, issueStatus, lastFailed, mainAgent, worktree>>

\* RetryFailedRunInChain up to its BeginTxx: nothing of chain c is queued or
\* running, and its latest failed run is the one to continue.
RetryFailedRunInChainCheck(h, c) ==
  /\ req[h] = NoRequest
  /\ \A r \in ActiveRows : run[r].chain # c
  /\ lastFailed[c] # 0
  /\ LET last == run[lastFailed[c]]
     IN  req' = [req EXCEPT ![h] = [op |-> "chainRetry", issue |-> last.issue,
                                    agent |-> last.agent, chain |-> c,
                                    depth |-> last.depth]]
  /\ UNCHANGED <<run, nextId, issueStatus, lastFailed, mainAgent, worktree>>

\* The transaction of a checked request: insert the run and reopen the issue.
RequestInsert(h) ==
  LET q == req[h]
      c == IF q.op = "rerun" THEN nextId ELSE q.chain
      v == IF q.op = "rerun" THEN "user" ELSE "retry"
  IN  /\ q # NoRequest
      /\ Exists(q.issue)
      /\ InsertRun(q.issue, q.agent, c, q.depth, v)
      /\ issueStatus' = [issueStatus EXCEPT ![q.issue] = "open"]
      /\ req' = [req EXCEPT ![h] = NoRequest]
      /\ UNCHANGED <<lastFailed, mainAgent, worktree>>

\* The same transaction refused: the issue is gone or the pair is queued.
RequestRefused(h) ==
  /\ req[h] # NoRequest
  /\ ~Exists(req[h].issue) \/ QueuedFor(req[h].issue, req[h].agent)
  /\ req' = [req EXCEPT ![h] = NoRequest]
  /\ UNCHANGED <<run, nextId, issueStatus, lastFailed, mainAgent, worktree>>

\* Mutant: the PUT that cancels an issue forgets to look for a running run.
UpdateIssueOverRunning(i, s) ==
  /\ Exists(i)
  /\ s = "done" => ~IssueActive(i)
  /\ issueStatus' = [issueStatus EXCEPT ![i] = s]
  /\ IF s = "cancelled"
       THEN SetStatus({r \in With("queued") : run[r].issue = i}, "cancelled")
       ELSE UNCHANGED run
  /\ UNCHANGED <<nextId, lastFailed, req, mainAgent, worktree>>

\* A PUT that leaves out the status keeps the current one: UpdateIssue(i, s)
\* with s the issue's own status.
UpdateIssue(i, s) ==
  /\ Exists(i)
  /\ s = "done" => ~IssueActive(i)
  /\ s = "cancelled" => ~IssueBusy(i)
  /\ issueStatus' = [issueStatus EXCEPT ![i] = s]
  /\ IF s = "cancelled"
       THEN SetStatus({r \in With("queued") : run[r].issue = i}, "cancelled")
       ELSE UNCHANGED run
  /\ UNCHANGED <<nextId, lastFailed, req, mainAgent, worktree>>

\* ON DELETE CASCADE removes the runs of the issue.
DeleteIssue(i) ==
  /\ Exists(i)
  /\ ~IssueActive(i)
  /\ issueStatus' = [issueStatus EXCEPT ![i] = "deleted"]
  /\ LET gone == {r \in Rows : run[r].issue = i}
     IN  /\ run' = [r \in RunIds |-> IF r \in gone THEN NoRow ELSE run[r]]
         /\ lastFailed' = [c \in RunIds |-> IF lastFailed[c] \in gone
                                            THEN 0 ELSE lastFailed[c]]
  /\ UNCHANGED <<nextId, req, mainAgent, worktree>>
-----------------------------------------------------------------------------
(* The worker's side of the queue                                          *)

\* Mutants of the claim's WHERE clause: without the one-per-issue guard, and
\* without the one-per-workspace guard.
ClaimableBusyIssue(r) ==
  /\ run[r].status = "queued"
  /\ run[r].due
  /\ worktree[Ws(r)] \/ \A q \in With("running") : Ws(q) # Ws(r)

ClaimableBusyWorkspace(r) ==
  /\ run[r].status = "queued"
  /\ run[r].due
  /\ ~IssueBusy(run[r].issue)

Claimable(r) ==
  /\ run[r].status = "queued"
  /\ run[r].due
  /\ ~IssueBusy(run[r].issue)
  /\ worktree[Ws(r)] \/ \A q \in With("running") : Ws(q) # Ws(r)

\* ORDER BY enqueued_at, id LIMIT 1
ClaimNextRun(r) ==
  /\ Claimable(r)
  /\ \A q \in RunIds : q < r => ~Claimable(q)
  /\ run' = [run EXCEPT ![r].status = "running", ![r].serial = ~worktree[Ws(r)]]
  /\ UNCHANGED <<nextId, issueStatus, lastFailed, req, mainAgent, worktree>>

\* The run is done and its output queues no further run: no mention, an
\* unknown agent, auto-chain off or in dry run, or a guard that blocks it.
CompleteDone(r) ==
  /\ run[r].status = "running"
  /\ SetStatus({r}, "done")
  /\ issueStatus' = IF AutoClose[Ws(r)]
                      THEN [issueStatus EXCEPT ![run[r].issue] = "done"]
                      ELSE issueStatus
  /\ UNCHANGED <<nextId, lastFailed, req, mainAgent, worktree>>

IsMain(a) == mainAgent[AgentWs[a]] = a

\* Mutant: the daily count may reach the limit once more.
AutoChainDailyOffByOne(w) ==
  \/ DailyRunLimit = 0
  \/ Cardinality({q \in Rows : Ws(q) = w /\ run[q].depth > 0 /\ run[q].recent})
       <= DailyRunLimit

AutoChainWithinDailyGuards(w) ==
  \/ DailyRunLimit = 0
  \/ Cardinality({q \in Rows : Ws(q) = w /\ run[q].depth > 0 /\ run[q].recent})
       < DailyRunLimit

\* Mutant: a worker of the greatest depth may pass on once more.
CheckAutoChainGuardsOffByOne(r, a) ==
  /\ IsMain(a) \/ run[r].depth <= MaxDepth
  /\ AutoChainWithinDailyGuards(Ws(r))

CheckAutoChainGuards(r, a) ==
  /\ IsMain(a) \/ run[r].depth < MaxDepth
  /\ AutoChainWithinDailyGuards(Ws(r))

\* Mutant: only the queued run of the agent counts as a duplicate.
ChainDuplicatesQueuedOnly(r, a) == ~QueuedFor(run[r].issue, a)

\* Evaluated after run r has left status running, so r itself counts as a
\* visit of its agent to the chain.
CheckAutoChainDispatchDuplicates(r, a) ==
  /\ ~QueuedFor(run[r].issue, a)
  /\ \/ IsMain(a)
     \/ \A q \in Rows : ~ /\ run[q].issue = run[r].issue
                          /\ run[q].agent = a
                          /\ run[q].chain = run[r].chain

\* The run is done and its output mentions agent a: the follow-up run is
\* queued by the same transaction, and the issue stays as it is.
CompleteChained(r, a) ==
  /\ run[r].status = "running"
  /\ nextId <= MaxRuns
  /\ AgentWs[a] = Ws(r)
  /\ CheckAutoChainGuards(r, a)
  /\ CheckAutoChainDispatchDuplicates(r, a)
  /\ run' = [run EXCEPT
       ![r].status = "done", ![r].serial = FALSE,
       ![nextId] = NewRow(run[r].issue, a, run[r].chain,
                          IF IsMain(a) THEN run[r].depth ELSE run[r].depth + 1,
                          IF IsMain(a) THEN "main" ELSE "worker")]
  /\ nextId' = nextId + 1
  /\ UNCHANGED <<issueStatus, lastFailed, req, mainAgent, worktree>>

\* Mutant: the UPDATE lacks "AND status='running'".
CompleteFailedLate(r) ==
  /\ r \in Rows
  /\ SetStatus({r}, "failed")
  /\ lastFailed' = [lastFailed EXCEPT ![run[r].chain] = r]
  /\ UNCHANGED <<nextId, issueStatus, req, mainAgent, worktree>>

CompleteFailed(r) ==
  /\ run[r].status = "running"
  /\ SetStatus({r}, "failed")
  /\ lastFailed' = [lastFailed EXCEPT ![run[r].chain] = r]
  /\ UNCHANGED <<nextId, issueStatus, req, mainAgent, worktree>>

FailInfrastructureRun(r) ==
  /\ run[r].status \in Active
  /\ SetStatus({r}, "failed")
  /\ lastFailed' = [lastFailed EXCEPT ![run[r].chain] = r]
  /\ UNCHANGED <<nextId, issueStatus, req, mainAgent, worktree>>

\* Mutants: no look at the status; no next_retry_at.
RescheduleEnded(r) ==
  /\ r \in Rows
  /\ run[r].attempt < RetryMax[run[r].agent]
  /\ ~QueuedFor(run[r].issue, run[r].agent)
  /\ run' = [run EXCEPT ![r].status = "queued", ![r].due = FALSE,
                        ![r].serial = FALSE, ![r].attempt = @ + 1]
  /\ UNCHANGED <<nextId, issueStatus, lastFailed, req, mainAgent, worktree>>

RescheduleAtOnce(r) ==
  /\ run[r].status = "running"
  /\ run[r].attempt < RetryMax[run[r].agent]
  /\ ~QueuedFor(run[r].issue, run[r].agent)
  /\ run' = [run EXCEPT ![r].status = "queued", ![r].serial = FALSE,
                        ![r].attempt = @ + 1]
  /\ UNCHANGED <<nextId, issueStatus, lastFailed, req, mainAgent, worktree>>

\* The UPDATE back to 'queued' is refused by the unique index when the agent
\* already has another queued run on the issue.
RescheduleRunForRetry(r) ==
  /\ run[r].status = "running"
  /\ run[r].attempt < RetryMax[run[r].agent]
  /\ ~QueuedFor(run[r].issue, run[r].agent)
  /\ run' = [run EXCEPT ![r].status = "queued", ![r].due = FALSE,
                        ![r].serial = FALSE, ![r].attempt = @ + 1]
  /\ UNCHANGED <<nextId, issueStatus, lastFailed, req, mainAgent, worktree>>
-----------------------------------------------------------------------------
(* Cancellation and recovery                                               *)

CancelRunWithReason(r) ==
  /\ run[r].status \in Active
  /\ SetStatus({r}, "cancelled")
  /\ UNCHANGED <<nextId, issueStatus, lastFailed, req, mainAgent, worktree>>

CancelRunsByChain(c) ==
  LET rows == {r \in ActiveRows : run[r].chain = c}
  IN  /\ rows # {}
      /\ SetStatus(rows, "cancelled")
      /\ UNCHANGED <<nextId, issueStatus, lastFailed, req, mainAgent, worktree>>

\* At startup, before any worker runs.
RecoverOrphanRuns ==
  /\ With("running") # {}
  /\ SetStatus(With("running"), "cancelled")
  /\ UNCHANGED <<nextId, issueStatus, lastFailed, req, mainAgent, worktree>>

\* The periodic scan; which running rows have an old heartbeat and no worker
\* is the pool's matter, so any set of running rows may be picked here.
RecoverStaleRuns(S) ==
  /\ S # {}
  /\ S \subseteq With("running")
  /\ SetStatus(S, "cancelled")
  /\ UNCHANGED <<nextId, issueStatus, lastFailed, req, mainAgent, worktree>>
-----------------------------------------------------------------------------
(* Settings and the clock                                                  *)

PromoteAgent(a) ==
  /\ ~IsMain(a)
  /\ mainAgent' = [mainAgent EXCEPT ![AgentWs[a]] = a]
  /\ UNCHANGED <<run, nextId, issueStatus, lastFailed, req, worktree>>

UpdateWorkspace(w, b) ==
  /\ worktree[w] # b
  /\ worktree' = [worktree EXCEPT ![w] = b]
  /\ UNCHANGED <<run, nextId, issueStatus, lastFailed, req, mainAgent>>

\* next_retry_at has passed.
RetryDue(r) ==
  /\ run[r].status = "queued"
  /\ ~run[r].due
  /\ run' = [run EXCEPT ![r].due = TRUE]
  /\ UNCHANGED <<nextId, issueStatus, lastFailed, req, mainAgent, worktree>>

\* The rows enqueued so far leave the 24-hour window of the daily guard, which
\* only a workspace with a limit looks at.
DayPasses ==
  /\ DailyRunLimit > 0
  /\ \E r \in Rows : run[r].recent
  /\ run' = [r \in RunIds |-> IF r \in Rows THEN [run[r] EXCEPT !.recent = FALSE]
                                            ELSE run[r]]
  /\ UNCHANGED <<nextId, issueStatus, lastFailed, req, mainAgent, worktree>>
-----------------------------------------------------------------------------
Init ==
  /\ run = [r \in RunIds |-> NoRow]
  /\ nextId = 1
  /\ issueStatus = [i \in Issues |-> "none"]
  /\ lastFailed = [c \in RunIds |-> 0]
  /\ req = [h \in Handlers |-> NoRequest]
  /\ mainAgent \in [Workspaces -> Agents]
  /\ \A w \in Workspaces : AgentWs[mainAgent[w]] = w
  /\ worktree \in [Workspaces -> BOOLEAN]

Finish(r) ==
  \/ CompleteDone(r)
  \/ CompleteFailed(r)
  \/ \E a \in Agents : CompleteChained(r, a)

Next ==
  \/ \E i \in Issues, a \in Agents : CreateIssueWithInitialRun(i, a)
  \/ \E i \in Issues, a \in Agents : AddUserComment(i, a)
  \/ \E h \in Handlers, i \in Issues, a \in Agents : RerunIssueCheck(h, i, a)
  \/ \E h \in Handlers, c \in RunIds : RetryFailedRunInChainCheck(h, c)
  \/ \E h \in Handlers : RequestInsert(h)
  \/ \E h \in Handlers : RequestRefused(h)
  \/ \E i \in Issues, s \in {"open", "done", "cancelled"} : UpdateIssue(i, s)
  \/ \E i \in Issues : DeleteIssue(i)
  \/ \E r \in RunIds : ClaimNextRun(r)
  \/ \E r \in RunIds : Finish(r)
  \/ \E r \in RunIds : FailInfrastructureRun(r)
  \/ \E r \in RunIds : RescheduleRunForRetry(r)
  \/ \E r \in RunIds : CancelRunWithReason(r)
  \/ \E c \in RunIds : CancelRunsByChain(c)
  \/ RecoverOrphanRuns
  \/ \E S \in SUBSET RunIds : RecoverStaleRuns(S)
  \/ \E a \in Agents : PromoteAgent(a)
  \/ \E w \in Workspaces, b \in BOOLEAN : UpdateWorkspace(w, b)
  \/ \E r \in RunIds : RetryDue(r)
  \/ DayPasses

Spec == Init /\ [][Next]_vars

-----------------------------------------------------------------------------
(* Properties                                                              *)

\* Every variable has the shape of the columns it stands for, and a run never
\* uses up more attempts than its agent's retry policy grants.
TypeOK ==
  /\ run \in [RunIds -> Row \cup {NoRow}]
  /\ nextId \in 1..(MaxRuns + 1)
  /\ issueStatus \in [Issues -> {"none", "open", "done", "cancelled", "deleted"}]
  /\ lastFailed \in [RunIds -> RunIds \cup {0}]
  /\ req \in [Handlers -> Request \cup {NoRequest}]
  /\ mainAgent \in [Workspaces -> Agents]
  /\ worktree \in [Workspaces -> BOOLEAN]
  /\ \A r \in Rows : run[r].attempt <= RetryMax[run[r].agent]

\* The guard of ClaimNextRun, "single running run" per issue, holds whatever
\* else happens: no retry, rerun, chain retry or auto-chained run ever leaves
\* two runs of one issue running.
OneRunningPerIssue ==
  \A r, q \in With("running") : run[r].issue = run[q].issue => r = q

\* Two runs that the claim serialised, because per_run_worktree was off at their
\* claims, never run at the same time, even when the flag is switched meanwhile.
SerialRunsExclude ==
  \A r, q \in With("running") :
    run[r].serial /\ run[q].serial /\ Ws(r) = Ws(q) => r = q

\* UpdateIssue refuses to close an issue over active runs, and every enqueue
\* reopens it: an active run's issue is open.  The one exception is the
\* auto-close of a workspace that opted into it, which may say 'done' while
\* other runs of the issue are still queued; never 'cancelled' or 'deleted'.
ActiveRunKeepsIssueOpen ==
  \A r \in ActiveRows :
    \/ issueStatus[run[r].issue] = "open"
    \/ AutoClose[Ws(r)] /\ issueStatus[run[r].issue] = "done"

\* Auto-chain never sends a chain to a worker that the chain has visited before,
\* in whatever role, whoever is promoted to main agent in the meantime
\* (checkAutoChainDispatchDuplicates).
WorkerVisitedOnce ==
  \A r, q \in Rows :
    /\ run[r].via = "worker"
    /\ run[q].chain = run[r].chain /\ run[q].agent = run[r].agent
    => q >= r

\* The max_depth gate bounds chain_depth for every run, those that a main
\* agent's re-entry or a chain retry put in the chain included.
ChainDepthBounded == \A r \in Rows : run[r].depth <= MaxDepth

\* The daily run guard: within one 24-hour window auto-chain queues at most
\* DailyRunLimit worker runs in a workspace.
WorkerDispatchBudget ==
  DailyRunLimit > 0 =>
    \A w \in Workspaces :
      Cardinality({r \in Rows : /\ Ws(r) = w
                                /\ run[r].via = "worker"
                                /\ run[r].recent}) <= DailyRunLimit

\* A run that is done, failed or cancelled keeps that status for good: no late
\* completion, cancellation, retry or recovery overwrites it; only deleting
\* the issue removes the row.
TerminalIsFinal ==
  [][\A r \in RunIds :
       run[r].status \in Terminal => run'[r].status \in {run[r].status, "none"}]_run

\* The refinement mapping to IssueSlots: a slot serves the running row.
Slots == INSTANCE IssueSlots WITH
  waiting <- With("queued"),
  serving <- [i \in Issues |->
                IF IssueBusy(i)
                  THEN CHOOSE r \in With("running") : run[r].issue = i
                  ELSE 0],
  closed <- {r \in RunIds : r < nextId /\ run[r].status \notin Active}

\* The run table implements one slot per issue, in which a run is served,
\* requeued or closed, and closed only once.
ImplementsSlots == Slots!SlotSpec
=============================================================================
