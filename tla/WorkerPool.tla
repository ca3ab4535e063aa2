------------------------------ MODULE WorkerPool ------------------------------
(***************************************************************************)
(* The worker pool at work on the run queue: the workers of                *)
(* internal/worker with the store adapter of internal/app, the process each *)
(* of them drives, the stale scan, the two HTTP cancel handlers, and the   *)
(* server's signal, exit, crash and restart.                               *)
(*                                                                         *)
(* Every step on the database is an action of RunQueue, conjoined with     *)
(* what happens in memory.  A worker passes through                        *)
(*   idle -> preparing -> registered -> started -> executing -> exited     *)
(*        -> finished -> idle                                              *)
(* and is found in the map Pool.cancels from registered to finished.       *)
(***************************************************************************)
EXTENDS Naturals, FiniteSets

CONSTANTS
  MaxRuns, Issues, Agents, Workspaces, IssueWs, AgentWs, RetryMax, AutoClose,
  MaxDepth, DailyRunLimit, Handlers,   \* see RunQueue
  Workers,       \* worker goroutines
  Cancellers,    \* cancel requests that can be in flight at the same time
  CancelKinds,   \* which cancel handlers are used: "issue", "chain"
  RetryOn,       \* the failure kinds a retry policy accepts
  Slow,          \* what may outlast a timer: "prepare" the stale limit,
                 \* "handler" the retry backoff
  MaxStops,      \* bound on the number of signals and crashes
  Toggles        \* is per_run_worktree switched while the server runs?

ASSUME PoolAssumption ==
  /\ CancelKinds \subseteq {"issue", "chain"}
  /\ RetryOn \subseteq {"timeout", "execError", "nonzero"}
  /\ Slow \subseteq {"prepare", "handler"}
  /\ MaxStops \in Nat
  /\ Toggles \in BOOLEAN

VARIABLES
  run, nextId, issueStatus, lastFailed, req, mainAgent, worktree,
  worker,     \* per worker: where it is, its run, why its context ended, ...
  pend,       \* Pool.pendingCancels
  claimed,    \* rows with claimed_at set
  recorded,   \* rows with process_pgid set
  dbOld,      \* rows whose heartbeat_at is older than staleAfter
  okOld,      \* runs whose heartbeatOKAt is older than staleAfter
  scan,       \* the rows the stale scan in flight is about to recover
  can,        \* per canceller, the cancel handler in flight
  asked,      \* runs a user asked to cancel
  why,        \* run.cancel_reason
  server,     \* "up", "stopping" after a signal, "down"
  stray,      \* per run, what became of a process that outlived the server
  stops       \* signals and crashes so far

Q == INSTANCE RunQueue

\* The queue's constants are as RunQueue assumes them.
ASSUME QueueAssumption ==
  Q!BoundsAssumption /\ Q!WorkspaceAssumption /\ Q!RetryAssumption

RunIds == Q!RunIds

queueVars == <<run, nextId, issueStatus, lastFailed, req, mainAgent, worktree>>
poolVars == <<queueVars, worker, pend, claimed, recorded, dbOld, okOld, scan, can,
              asked, why, server, stray, stops>>

NoRun == 0

Causes == {"none", "user", "stale", "shutdown", "parent"}

Results == {"none", "ok", "nonzero", "execError", "timeout", "cancelled"}

PCs == {"off", "idle", "preparing", "registered", "started", "executing",
        "exited", "finished", "panicked"}

Resting(pc) == [pc |-> pc, run |-> NoRun, cause |-> "none", late |-> FALSE,
                result |-> "none", dir |-> "none"]

Reasons == {"none", "user", "stale", "shutdown", "orphan"}

NoCancel == [pc |-> "idle", run |-> NoRun, chain |-> NoRun]

InCancels(w) ==
  worker[w].pc \in {"registered", "started", "executing", "exited", "finished"}

\* The keys of Pool.cancels.
Registered == {worker[w].run : w \in {v \in Workers : InCancels(v)}}

Alive(w) == worker[w].pc \in {"started", "executing"}

\* No process left over, one nobody has dealt with, one the start-up has sent
\* SIGTERM (and SIGKILL after a grace), one the start-up decided to leave alone.
Strays == {"none", "loose", "signalled", "skipped"}

Step(w, pc) == worker' = [worker EXCEPT ![w].pc = pc]

\* The first cause given to a context is the one it keeps.
Cancelled(rec, c) == IF rec.cause = "none" THEN [rec EXCEPT !.cause = c] ELSE rec

\* The context of every worker that holds a run of S ends with cause c.
CancelContexts(S, c) ==
  worker' = [w \in Workers |-> IF InCancels(w) /\ worker[w].run \in S
                               THEN Cancelled(worker[w], c) ELSE worker[w]]

\* Is run r in the hands of a worker, registered or not?
Held(r) == \E w \in Workers : worker[w].run = r

\* What the steps on one component leave alone.
QueueSide == UNCHANGED queueVars
CancelSide == UNCHANGED <<can, asked>>
ServerSide == UNCHANGED <<server, stray, stops>>
RowMarks == UNCHANGED <<claimed, recorded, why>>
Ageing == UNCHANGED <<dbOld, okOld, scan>>

\* heartbeat_at is now, later than the cutoff of a scan in flight.
FreshHeartbeat(r) == dbOld' = dbOld \ {r} /\ scan' = scan \ {r}
-----------------------------------------------------------------------------
(* A worker                                                                *)

Claim(w) ==
  /\ server = "up"
  /\ worker[w].pc = "idle"
  /\ \E r \in RunIds :
       /\ Q!ClaimNextRun(r)
       /\ worker' = [worker EXCEPT ![w] = [Resting("preparing") EXCEPT !.run = r]]
       /\ claimed' = claimed \cup {r}
       /\ FreshHeartbeat(r)
  /\ UNCHANGED <<pend, recorded, why, okOld>> /\ CancelSide /\ ServerSide

\* Q!FailInfrastructureRun, or ErrState when the row has already ended.
FailIfActive(r) ==
  \/ Q!FailInfrastructureRun(r)
  \/ run[r].status \notin Q!Active /\ QueueSide

\* A step of the preparation fails: the run fails and the worker polls again.
\* A pending cancel of the run stays in the map.
CancelClaimed(w) ==
  /\ server = "up"
  /\ worker[w].pc = "preparing"
  /\ FailIfActive(worker[w].run)
  /\ worker' = [worker EXCEPT ![w] = Resting("idle")]
  /\ UNCHANGED pend /\ RowMarks /\ Ageing /\ CancelSide /\ ServerSide

\* The preparation panics, before activeRunID is set; or, after the signal, it
\* and the write that should record its failure both fail on the ended context.
\* Either way the row is left running and no worker holds it.
PrepareLost(w) ==
  /\ worker[w].pc = "preparing"
  /\ worker' = [worker EXCEPT ![w] = Resting(IF server = "up" THEN "idle" ELSE "off")]
  /\ QueueSide /\ UNCHANGED pend /\ RowMarks /\ Ageing /\ CancelSide /\ ServerSide

\* The preparation reads the workspace again after the claim has committed: the
\* process gets a worktree of its own or the workspace's working_dir.
WorkDir(r) == IF worktree[Q!Ws(r)] THEN "own" ELSE "shared"

\* Mutant: a cancel left pending before the claim is dropped.
RegisterDropsPending(w) ==
  LET r == worker[w].run
  IN  /\ worker[w].pc = "preparing"
      /\ worker' = [worker EXCEPT ![w].pc = "registered",
                                  ![w].cause = IF server = "stopping" THEN "parent" ELSE "none",
                                  ![w].dir = WorkDir(r)]
      /\ pend' = pend \ {r}
      /\ okOld' = okOld \ {r}
      /\ QueueSide /\ UNCHANGED <<dbOld, scan>> /\ RowMarks /\ CancelSide /\ ServerSide

\* The critical section after the claim: enter cancels, consume a pending cancel.
Register(w) ==
  LET r == worker[w].run
      c == IF server = "stopping" THEN "parent"
           ELSE IF r \in pend THEN "user" ELSE "none"
  IN  /\ worker[w].pc = "preparing"
      /\ worker' = [worker EXCEPT ![w].pc = "registered", ![w].cause = c,
                                  ![w].dir = WorkDir(r)]
      /\ pend' = pend \ {r}
      /\ okOld' = okOld \ {r}
      /\ QueueSide /\ UNCHANGED <<dbOld, scan>> /\ RowMarks /\ CancelSide /\ ServerSide

\* cmd.Start refuses when the context has ended.
StartProcess(w) ==
  /\ worker[w].pc = "registered"
  /\ worker[w].cause = "none"
  /\ Step(w, "started")
  /\ QueueSide /\ UNCHANGED pend /\ RowMarks /\ Ageing /\ CancelSide /\ ServerSide

\* No adapter, no log file, no executable, or an ended context: Execute
\* returns an error with neither ProcessStarted nor Cancelled set.
StartError(w) ==
  /\ worker[w].pc = "registered"
  /\ worker' = [worker EXCEPT ![w].pc = "exited", ![w].result = "execError"]
  /\ QueueSide /\ UNCHANGED pend /\ RowMarks /\ Ageing /\ CancelSide /\ ServerSide

\* OnProcessStart: MarkRunProcess records the process group of a running row;
\* its failure is only logged.
RecordProcess(w) ==
  /\ worker[w].pc = "started"
  /\ Step(w, "executing")
  /\ \/ /\ run[worker[w].run].status = "running"
        /\ recorded' = recorded \cup {worker[w].run}
     \/ UNCHANGED recorded
  /\ QueueSide /\ UNCHANGED <<pend, claimed, why>> /\ Ageing /\ CancelSide /\ ServerSide

\* The run's timeout fires before any cancel: execCtx ends with
\* DeadlineExceeded and the process group is told to stop.
Deadline(w) ==
  /\ Alive(w)
  /\ worker[w].cause = "none"
  /\ ~worker[w].late
  /\ worker' = [worker EXCEPT ![w].late = TRUE]
  /\ QueueSide /\ UNCHANGED pend /\ RowMarks /\ Ageing /\ CancelSide /\ ServerSide

\* What Execute reports once the process is gone; a timeout wins over a cancel.
ExitResults(rec) ==
  IF rec.late THEN {"timeout"}
  ELSE IF rec.cause # "none" THEN {"cancelled"}
  ELSE {"ok", "nonzero"}

ProcessExit(w) ==
  /\ worker[w].pc = "executing"
  /\ \E res \in ExitResults(worker[w]) :
       worker' = [worker EXCEPT ![w].pc = "exited", ![w].result = res]
  /\ QueueSide /\ UNCHANGED pend /\ RowMarks /\ Ageing /\ CancelSide /\ ServerSide

\* Mutant: the stale cause has no reason of its own.
ReasonWithoutStale(c) == IF c = "shutdown" THEN c ELSE "user"

CancelReasonFromCause(c) == IF c \in {"shutdown", "stale"} THEN c ELSE "user"

\* RescheduleRunForRetry finds a running row with an attempt left.
MayRetry(w) ==
  /\ worker[w].result \in RetryOn
  /\ run[worker[w].run].status = "running"
  /\ run[worker[w].run].attempt < RetryMax[run[worker[w].run].agent]

\* ... but the unique index refuses the UPDATE: neither success nor ErrState.
RetryConflict(w) ==
  MayRetry(w) /\ Q!QueuedFor(run[worker[w].run].issue, run[worker[w].run].agent)

FinishCancelled(w) ==
  /\ worker[w].result = "cancelled"
  /\ Q!CancelRunWithReason(worker[w].run)
  /\ why' = [why EXCEPT ![worker[w].run] = CancelReasonFromCause(worker[w].cause)]
  /\ UNCHANGED <<claimed, recorded>>

FinishRetried(w) ==
  /\ MayRetry(w)
  /\ Q!RescheduleRunForRetry(worker[w].run)
  /\ claimed' = claimed \ {worker[w].run}
  /\ recorded' = recorded \ {worker[w].run}
  /\ UNCHANGED why

\* FinishRun returns the conflict to claimOnce, which logs it.
FinishConflict(w) == RetryConflict(w) /\ QueueSide /\ RowMarks

FinishCompleted(w) ==
  /\ ~MayRetry(w)
  /\ \/ /\ worker[w].result = "ok"
        /\ \/ Q!CompleteDone(worker[w].run)
           \/ \E a \in Agents : Q!CompleteChained(worker[w].run, a)
     \/ /\ worker[w].result \in {"nonzero", "timeout", "execError"}
        /\ Q!CompleteFailed(worker[w].run)
  /\ RowMarks

\* The row has ended meanwhile: ErrState, ignored.
FinishIgnored(w) ==
  /\ run[worker[w].run].status \notin Q!Active
  /\ QueueSide /\ RowMarks

\* WorkerStore.FinishRun with the result of Execute.
FinishRun(w) ==
  /\ worker[w].pc = "exited"
  /\ Step(w, "finished")
  /\ \/ FinishCancelled(w) \/ FinishRetried(w) \/ FinishConflict(w)
     \/ FinishCompleted(w) \/ FinishIgnored(w)
  /\ UNCHANGED pend /\ Ageing /\ CancelSide /\ ServerSide

\* Mutant: the worker goes back to polling without giving up its run.
CleanupKeepsRun(w) ==
  /\ worker[w].pc = "finished"
  /\ Step(w, IF server = "up" THEN "idle" ELSE "off")
  /\ QueueSide /\ UNCHANGED <<pend, dbOld, okOld, scan>> /\ RowMarks /\ CancelSide
  /\ ServerSide

\* The deferred clean-up of claimOnce leaves all three maps.
Cleanup(w) ==
  LET r == worker[w].run
  IN  /\ worker[w].pc = "finished"
      /\ worker' = [worker EXCEPT ![w] = Resting(IF server = "up" THEN "idle" ELSE "off")]
      /\ pend' = pend \ {r}
      /\ okOld' = okOld \ {r}
      /\ QueueSide /\ UNCHANGED <<dbOld, scan>> /\ RowMarks /\ CancelSide /\ ServerSide

\* The adapter or the metrics parser panics: the same clean-up comes first ...
Panic(w) ==
  LET r == worker[w].run
  IN  /\ worker[w].pc \in {"registered", "exited"}
      /\ Step(w, "panicked")
      /\ pend' = pend \ {r}
      /\ okOld' = okOld \ {r}
      /\ QueueSide /\ UNCHANGED <<dbOld, scan>> /\ RowMarks /\ CancelSide /\ ServerSide

\* ... and then FailRun.
PanicFail(w) ==
  /\ worker[w].pc = "panicked"
  /\ FailIfActive(worker[w].run)
  /\ worker' = [worker EXCEPT ![w] = Resting(IF server = "up" THEN "idle" ELSE "off")]
  /\ UNCHANGED pend /\ RowMarks /\ Ageing /\ CancelSide /\ ServerSide
-----------------------------------------------------------------------------
(* Heartbeats and the stale scan                                           *)

\* A heartbeat is due only in effect when one was missed for staleAfter; a row
\* that is no longer running refuses it with ErrState, which counts as success.
Heartbeat(w) ==
  LET r == worker[w].run
  IN  /\ server = "up"
      /\ worker[w].pc \in {"registered", "started", "executing"}
      /\ r \in dbOld \cup okOld
      /\ IF run[r].status = "running" THEN FreshHeartbeat(r) ELSE UNCHANGED <<dbOld, scan>>
      /\ okOld' = okOld \ {r}
      /\ QueueSide /\ UNCHANGED <<worker, pend>> /\ RowMarks /\ CancelSide
      /\ ServerSide

\* staleAfter passes with no heartbeat of a running row: no worker holds it,
\* its worker's heartbeats fail, or its worker is still preparing it.
Age(r) ==
  /\ server = "up"
  /\ run[r].status = "running"
  /\ r \notin dbOld
  /\ \A w \in Workers :
       worker[w].run = r =>
         \/ worker[w].pc \in {"registered", "started", "executing"}
         \/ worker[w].pc = "preparing" /\ "prepare" \in Slow
  /\ dbOld' = dbOld \cup {r}
  /\ okOld' = IF r \in Registered THEN okOld \cup {r} ELSE okOld
  /\ QueueSide /\ UNCHANGED <<worker, pend, scan>> /\ RowMarks /\ CancelSide /\ ServerSide

\* Mutant: the scan only looks at the runs of live workers.
ScanActiveOnly ==
  /\ server = "up"
  /\ scan = {}
  /\ okOld # {}
  /\ CancelContexts(okOld, "stale")
  /\ QueueSide /\ UNCHANGED <<pend, dbOld, okOld, scan>> /\ RowMarks /\ CancelSide
  /\ ServerSide

\* recoverStaleRuns up to its SQL: cancelStaleActiveRuns, then the cutoff and
\* the snapshot activeRunIDs.  A scan that finds nothing old does nothing.
CancelStaleActiveRuns ==
  /\ server = "up"
  /\ scan = {}
  /\ (dbOld \cap Q!With("running")) \cup okOld # {}
  /\ CancelContexts(okOld, "stale")
  /\ scan' = (dbOld \cap Q!With("running")) \ Registered
  /\ QueueSide /\ UNCHANGED <<pend, dbOld, okOld>> /\ RowMarks /\ CancelSide /\ ServerSide

\* The SQL: rows that are still running and as old as they were.
RecoverStaleRuns ==
  LET S == scan \cap Q!With("running")
  IN  /\ scan # {}
      /\ scan' = {}
      /\ IF S = {} THEN QueueSide ELSE Q!RecoverStaleRuns(S)
      /\ why' = [r \in RunIds |-> IF r \in S THEN "stale" ELSE why[r]]
      /\ dbOld' = dbOld \ scan
      /\ UNCHANGED <<worker, pend, claimed, recorded, okOld>> /\ CancelSide
      /\ ServerSide
-----------------------------------------------------------------------------
(* The cancel handlers                                                     *)

\* GetActiveRunByIssue: the running row first, else the oldest queued one.
ActiveRunOf(i) ==
  LET rows == {r \in Q!ActiveRows : run[r].issue = i}
      busy == {r \in rows : run[r].status = "running"}
      pick == IF busy = {} THEN rows ELSE busy
  IN  CHOOSE r \in pick : \A q \in pick : r <= q

CancelIssueRun(h, i) ==
  /\ server = "up"
  /\ "issue" \in CancelKinds
  /\ can[h] = NoCancel
  /\ Q!IssueActive(i)
  /\ can' = [can EXCEPT ![h] = [pc |-> "intent", run |-> ActiveRunOf(i), chain |-> NoRun]]
  /\ QueueSide /\ UNCHANGED <<worker, pend, asked>> /\ RowMarks /\ Ageing /\ ServerSide

\* Pool.CancelRun(r): cancel the registered context or leave a pending cancel.
PoolCancelRun(r) ==
  /\ CancelContexts({r}, "user")
  /\ pend' = IF r \in Registered THEN pend ELSE pend \cup {r}

\* A registered run is answered at once; any other goes on to the database.
CancelIntent(h) ==
  LET r == can[h].run
  IN  /\ can[h].pc = "intent"
      /\ PoolCancelRun(r)
      /\ asked' = asked \cup {r}
      /\ can' = [can EXCEPT ![h] = IF r \in Registered THEN NoCancel
                                   ELSE [@ EXCEPT !.pc = "fallback"]]
      /\ QueueSide /\ RowMarks /\ Ageing /\ ServerSide

\* CancelRunWithReason, or ErrState; a pending cancel of a run that was never
\* claimed is forgotten.
CancelFallback(h) ==
  LET r == can[h].run
      live == run[r].status \in Q!Active
  IN  /\ can[h].pc = "fallback"
      /\ IF live THEN Q!CancelRunWithReason(r) ELSE QueueSide
      /\ why' = IF live THEN [why EXCEPT ![r] = "user"] ELSE why
      /\ pend' = IF r \in claimed \cup Registered THEN pend ELSE pend \ {r}
      /\ can' = [can EXCEPT ![h] = NoCancel]
      /\ UNCHANGED <<worker, claimed, recorded, asked>> /\ Ageing /\ ServerSide

\* cancelChain: ListRunsByChain.
CancelChain(h, c) ==
  LET busy == {r \in Q!With("running") : run[r].chain = c}
  IN  /\ server = "up"
      /\ "chain" \in CancelKinds
      /\ can[h] = NoCancel
      /\ \E r \in Q!Rows : run[r].chain = c
      /\ \E r \in IF busy = {} THEN {NoRun} ELSE busy :
           can' = [can EXCEPT ![h] = [pc |-> "wake", run |-> r, chain |-> c]]
      /\ QueueSide /\ UNCHANGED <<worker, pend, asked>> /\ RowMarks /\ Ageing /\ ServerSide

\* Wake the pool for the run listed as running.
ChainWake(h) ==
  LET r == can[h].run
  IN  /\ can[h].pc = "wake"
      /\ IF r = NoRun THEN UNCHANGED <<worker, pend>> ELSE PoolCancelRun(r)
      /\ asked' = asked \cup ({r} \ {NoRun})
      /\ can' = [can EXCEPT ![h].pc = "sweep"]
      /\ QueueSide /\ RowMarks /\ Ageing /\ ServerSide

ChainSweep(h) ==
  LET rows == {r \in Q!ActiveRows : run[r].chain = can[h].chain}
  IN  /\ can[h].pc = "sweep"
      /\ IF rows = {} THEN QueueSide ELSE Q!CancelRunsByChain(can[h].chain)
      /\ why' = [r \in RunIds |-> IF r \in rows THEN "user" ELSE why[r]]
      /\ asked' = asked \cup rows
      /\ can' = [can EXCEPT ![h] = NoCancel]
      /\ UNCHANGED <<worker, pend, claimed, recorded>> /\ Ageing /\ ServerSide
-----------------------------------------------------------------------------
(* Signal, exit, crash and restart                                         *)

\* SIGTERM ends the context the pool was started with, and with it the context
\* of every run: the cause is the parent's, before Pool.Shutdown gives its own.
Signal ==
  /\ server = "up"
  /\ stops < MaxStops
  /\ server' = "stopping"
  /\ stops' = stops + 1
  /\ worker' = [w \in Workers |->
                  IF worker[w].pc = "idle" THEN Resting("off")
                  ELSE IF InCancels(w) THEN Cancelled(worker[w], "parent")
                  ELSE worker[w]]
  /\ QueueSide /\ UNCHANGED <<pend, stray>> /\ RowMarks /\ Ageing /\ CancelSide

\* Memory is gone; what is in the database and the processes remain.
MemoryLost ==
  /\ worker' = [w \in Workers |-> Resting("off")]
  /\ pend' = {} /\ okOld' = {} /\ scan' = {} /\ dbOld' = {}
  /\ can' = [h \in Cancellers |-> NoCancel]
  /\ server' = "down"

\* srv.Shutdown waited for the handlers and pool.Shutdown for the workers.
GracefulExit ==
  /\ server = "stopping"
  /\ \A w \in Workers : worker[w].pc = "off"
  /\ \A h \in Cancellers : can[h] = NoCancel
  /\ scan = {}
  /\ MemoryLost
  /\ QueueSide /\ UNCHANGED <<asked, stray, stops>> /\ RowMarks

\* The server dies, or gives up its 30 seconds of shutdown, at any point; the
\* agents' process groups live on.
Crash ==
  /\ server # "down"
  /\ stops < MaxStops \/ server = "stopping"
  /\ stops' = IF server = "stopping" THEN stops ELSE stops + 1
  /\ stray' = [r \in RunIds |->
                 IF \E w \in Workers : Alive(w) /\ worker[w].run = r
                   THEN "loose" ELSE stray[r]]
  /\ MemoryLost
  /\ QueueSide /\ UNCHANGED asked /\ RowMarks

\* ListRunningProcessGroups and the loop over it: a group recorded for a running
\* row is signalled, unless its record is older than a day or unusable, its
\* leader is gone, or the signal fails.
TerminateTrackedProcessGroups ==
  \E skip \in SUBSET (recorded \cap Q!With("running")) :
    stray' = [r \in RunIds |->
                IF stray[r] = "none" \/ r \notin recorded \cap Q!With("running")
                  THEN stray[r]
                ELSE IF r \in skip THEN "skipped" ELSE "signalled"]

\* Mutants: the rows are recovered before their process groups are listed; the
\* orphans are put back in the queue.
RestartRecoversFirst ==
  /\ server = "down"
  /\ server' = "up"
  /\ IF Q!With("running") = {} THEN QueueSide ELSE Q!RecoverOrphanRuns
  /\ why' = [r \in RunIds |-> IF run[r].status = "running" THEN "orphan" ELSE why[r]]
  /\ worker' = [w \in Workers |-> Resting("idle")]
  /\ UNCHANGED <<pend, claimed, recorded, stray, stops>> /\ Ageing /\ CancelSide

RestartRequeues ==
  /\ server = "down"
  /\ server' = "up"
  /\ TerminateTrackedProcessGroups
  /\ run' = [r \in RunIds |-> IF run[r].status = "running"
                              THEN [run[r] EXCEPT !.status = "queued"] ELSE run[r]]
  /\ worker' = [w \in Workers |-> Resting("idle")]
  /\ UNCHANGED <<nextId, issueStatus, lastFailed, req, mainAgent, worktree>>
  /\ UNCHANGED <<pend, stops>> /\ RowMarks /\ Ageing /\ CancelSide

\* RunStartupSelfCheck: first the recorded process groups of running rows, then
\* the orphan rows; then the pool starts.
Restart ==
  /\ server = "down"
  /\ server' = "up"
  /\ TerminateTrackedProcessGroups
  /\ IF Q!With("running") = {} THEN QueueSide ELSE Q!RecoverOrphanRuns
  /\ why' = [r \in RunIds |-> IF run[r].status = "running" THEN "orphan" ELSE why[r]]
  /\ worker' = [w \in Workers |-> Resting("idle")]
  /\ UNCHANGED <<pend, claimed, recorded, stops>> /\ Ageing /\ CancelSide

StrayExit(r) ==
  /\ stray[r] # "none"
  /\ stray' = [stray EXCEPT ![r] = "none"]
  /\ QueueSide /\ UNCHANGED <<worker, pend, server, stops>> /\ RowMarks /\ Ageing
  /\ CancelSide
-----------------------------------------------------------------------------
(* The rest of the system                                                  *)

\* next_retry_at is at least a second away when FinishRun sets it, so the
\* worker has cleaned up by then, and a handler is over unless it is slow.
RetryDue(r) ==
  /\ ~Held(r)
  /\ "handler" \in Slow \/ \A h \in Cancellers : can[h].run # r
  /\ Q!RetryDue(r)
  /\ UNCHANGED <<worker, pend>> /\ RowMarks /\ Ageing /\ CancelSide /\ ServerSide

UserEnqueues ==
  /\ server = "up"
  /\ \E i \in Issues, a \in Agents :
       Q!CreateIssueWithInitialRun(i, a) \/ Q!AddUserComment(i, a)
  /\ UNCHANGED <<worker, pend>> /\ RowMarks /\ Ageing /\ CancelSide /\ ServerSide

UserSwitchesWorktree ==
  /\ server = "up"
  /\ Toggles
  /\ \E x \in Workspaces, b \in BOOLEAN : Q!UpdateWorkspace(x, b)
  /\ UNCHANGED <<worker, pend>> /\ RowMarks /\ Ageing /\ CancelSide /\ ServerSide

PoolInit ==
  /\ Q!Init
  /\ worker = [w \in Workers |-> Resting("idle")]
  /\ pend = {} /\ claimed = {} /\ recorded = {}
  /\ dbOld = {} /\ okOld = {} /\ scan = {}
  /\ can = [h \in Cancellers |-> NoCancel]
  /\ asked = {}
  /\ why = [r \in RunIds |-> "none"]
  /\ server = "up" /\ stray = [r \in RunIds |-> "none"] /\ stops = 0

WorkerStep(w) ==
  \/ CancelClaimed(w) \/ PrepareLost(w) \/ Register(w) \/ StartProcess(w)
  \/ StartError(w) \/ RecordProcess(w) \/ ProcessExit(w) \/ FinishRun(w)
  \/ Cleanup(w) \/ Panic(w) \/ PanicFail(w)

CancelStep(h) == CancelIntent(h) \/ CancelFallback(h) \/ ChainWake(h) \/ ChainSweep(h)

PoolNext ==
  \/ \E w \in Workers : Claim(w) \/ WorkerStep(w) \/ Deadline(w) \/ Heartbeat(w)
  \/ \E r \in RunIds : Age(r)
  \/ CancelStaleActiveRuns \/ RecoverStaleRuns
  \/ \E h \in Cancellers, i \in Issues : CancelIssueRun(h, i)
  \/ \E h \in Cancellers, c \in RunIds : CancelChain(h, c)
  \/ \E h \in Cancellers : CancelStep(h)
  \/ Signal \/ GracefulExit \/ Crash \/ Restart
  \/ \E r \in RunIds : StrayExit(r) \/ RetryDue(r)
  \/ UserEnqueues \/ UserSwitchesWorktree

PoolSpec == PoolInit /\ [][PoolNext]_poolVars

\* The goroutines run, every process ends (its timeout kills it), time passes
\* for a row nobody holds, handlers finish, and a stopped server is restarted.
\* Heartbeats, deadlines, signals, crashes and users are under no obligation.
PoolFairSpec ==
  /\ PoolSpec
  /\ WF_poolVars(\E w \in Workers : Claim(w))
  /\ \A w \in Workers : WF_poolVars(WorkerStep(w))
  /\ \A h \in Cancellers : WF_poolVars(CancelStep(h))
  /\ \A r \in RunIds : WF_poolVars(~Held(r) /\ Age(r)) /\ WF_poolVars(RetryDue(r))
  /\ WF_poolVars(CancelStaleActiveRuns) /\ WF_poolVars(RecoverStaleRuns)
  /\ WF_poolVars(GracefulExit) /\ WF_poolVars(Restart)
-----------------------------------------------------------------------------
(* Properties                                                              *)

\* The maps, the marks and the workers' records have the shape of the code's,
\* and the keys of Pool.cancels are runs a worker really holds.
PoolTypeOK ==
  /\ worker \in [Workers -> [pc : PCs, run : RunIds \cup {NoRun}, cause : Causes,
                             late : BOOLEAN, result : Results,
                             dir : {"none", "own", "shared"}]]
  /\ \A w \in Workers : (worker[w].run = NoRun) <=> (worker[w].pc \in {"idle", "off"})
  /\ \A S \in {pend, claimed, recorded, dbOld, okOld, scan, asked} :
       S \subseteq RunIds
  /\ can \in [Cancellers -> [pc : {"idle", "intent", "fallback", "wake", "sweep"},
                             run : RunIds \cup {NoRun}, chain : RunIds \cup {NoRun}]]
  /\ why \in [RunIds -> Reasons]
  /\ server \in {"up", "stopping", "down"}
  /\ stray \in [RunIds -> Strays]
  /\ stops \in 0..MaxStops

\* The maps of the pool are keyed by run id and cleaned by whoever finishes, so
\* no run may ever be in the hands of two workers: not when it is requeued for
\* a retry while its worker still cleans up, not when the stale scan takes it.
OneWorkerPerRun ==
  \A w, v \in Workers : worker[w].run = worker[v].run /\ worker[w].run # NoRun => w = v

\* While the process of a run is alive its row says 'running', so the claim
\* guards of the queue guard the processes too: no cancel, recovery or retry
\* frees the issue or the working directory under a live process.
ProcessHasRow ==
  \A w \in Workers : Alive(w) => run[worker[w].run].status = "running"

\* "shared working_dir" is why the claim serialises a workspace: two live
\* processes are never both in the working_dir of one workspace.
WorkingDirExclusive ==
  \A w, v \in Workers :
    /\ Alive(w) /\ Alive(v)
    /\ worker[w].dir = "shared" /\ worker[v].dir = "shared"
    /\ Q!Ws(worker[w].run) = Q!Ws(worker[v].run)
    => w = v

\* As long as the server is not stopped, cancel_reason='user' is only written for
\* runs a user asked to cancel: a stale heartbeat has a reason of its own.
UserReasonIsUsers == stops = 0 => \A r \in RunIds : why[r] = "user" => r \in asked

\* A process that outlived the server and whose group was recorded is dealt with
\* by the next start-up: the rows are recovered only after their groups have
\* been looked at.  Only a chain cancel, which ends the row of a live process,
\* makes the start-up overlook one.
TrackedProcessesSeen ==
  server = "up" => \A r \in recorded : stray[r] = "loose" => why[r] = "user"

\* A run a user asked to cancel is not put back in the queue for a retry once
\* the request has been answered.
CancelHonoured ==
  \A r \in asked :
    (\A h \in Cancellers : can[h].run # r) => run[r].status # "queued"

\* What cancelChain's comment says: the process exits before the store marks
\* the row cancelled.
ChainCancelEndsProcessFirst ==
  \A w \in Workers : Alive(w) => run[worker[w].run].status # "cancelled"

\* When the worker removes the run's worktree the run is not running any more.
FinishedRunHasEnded ==
  \A w \in Workers :
    worker[w].pc = "finished" => run[worker[w].run].status # "running"

\* Every run that is queued or running ends, in spite of failures, panics,
\* refused retries, stale heartbeats, cancels and restarts.
EveryRunSettles ==
  \A r \in RunIds : run[r].status \in Q!Active ~> run[r].status \notin Q!Active

\* The pool, the handlers and the recovery only ever do to the tables what the
\* transactions of the store allow, so RunQueue's properties are theirs too.
ImplementsQueue == Q!Spec
=============================================================================
