--------------------------- MODULE WorkerPoolProofs ---------------------------
(***************************************************************************)
(* Proofs about the worker pool, for every number of workers, cancel       *)
(* requests, runs and restarts: the pool implements the run queue, inherits *)
(* the invariants proved of the queue, and keeps its own.                  *)
(***************************************************************************)
EXTENDS WorkerPool, WellFoundedInduction, TLAPS

QP == INSTANCE RunQueueProofs
-----------------------------------------------------------------------------
(* Types                                                                   *)

\* A nonempty set of numbers has a least one.
LEMMA LeastOf ==
  ASSUME NEW S, S \subseteq Nat, S # {}
  PROVE  \E m \in S : \A q \in S : m <= q
<1>. DEFINE R == {ss \in Nat \X Nat : ss[1] < ss[2]}
<1>1. IsWellFoundedOn(R, Nat)
  BY NatLessThanWellFounded, Zenon DEF OpToRel
<1>. HIDE DEF R
<1>2. PICK x \in S : \A y \in S : ~ (<<y, x>> \in R)
  BY <1>1, WFMin, Zenon
<1>3. \A y \in S : y < x => <<y, x>> \in R
  BY DEF R
<1>4. ASSUME NEW y \in S PROVE x <= y
  <2>1. x \in Nat /\ y \in Nat
    OBVIOUS
  <2>2. ~(y < x)
    BY <1>2, <1>3
  <2>. QED
    BY <2>1, <2>2
<1>. QED
  BY <1>4

\* The cancel handler of an active issue picks one of its active runs.
LEMMA ActiveRunIsActive ==
  ASSUME NEW i, Q!IssueActive(i)
  PROVE  ActiveRunOf(i) \in RunIds /\ run[ActiveRunOf(i)].status \in Q!Active
<1>. DEFINE rows == {r \in Q!ActiveRows : run[r].issue = i}
            busy == {r \in rows : run[r].status = "running"}
            pick == IF busy = {} THEN rows ELSE busy
<1>1. pick \subseteq rows /\ rows \subseteq RunIds /\ rows # {} /\ pick # {}
  BY DEF Q!IssueActive, Q!ActiveRows, RunIds
<1>2. RunIds \subseteq Nat
  BY DEF RunIds, Q!RunIds
<1>3. \A r \in rows : run[r].status \in Q!Active
  BY DEF Q!ActiveRows
<1>4. ActiveRunOf(i) = CHOOSE r \in pick : \A q \in pick : r <= q
  BY DEF ActiveRunOf
<1>. HIDE DEF pick, rows
<1>5. \E r \in pick : \A q \in pick : r <= q
  BY <1>1, <1>2, LeastOf
<1>6. ActiveRunOf(i) \in pick
  BY <1>4, <1>5
<1>. QED
  BY <1>1, <1>3, <1>6

\* The type invariant, variable by variable.
WorkerRec == [pc : PCs, run : RunIds \cup {NoRun}, cause : Causes, late : BOOLEAN,
              result : Results, dir : {"none", "own", "shared"}]

WorkerTypeOK ==
  /\ worker \in [Workers -> WorkerRec]
  /\ \A w \in Workers : (worker[w].run = NoRun) <=> (worker[w].pc \in {"idle", "off"})

MarkTypeOK ==
  /\ pend \subseteq RunIds /\ claimed \subseteq RunIds /\ recorded \subseteq RunIds
  /\ dbOld \subseteq RunIds /\ okOld \subseteq RunIds /\ scan \subseteq RunIds
  /\ asked \subseteq RunIds
  /\ why \in [RunIds -> Reasons]

\* A handler that has chosen a run or a chain holds on to it.
CancelTypeOK ==
  /\ can \in [Cancellers -> [pc : {"idle", "intent", "fallback", "wake", "sweep"},
                             run : RunIds \cup {NoRun}, chain : RunIds \cup {NoRun}]]
  /\ \A h \in Cancellers :
       /\ can[h].pc \in {"intent", "fallback"} => can[h].run \in RunIds
       /\ can[h].pc \in {"wake", "sweep"} => can[h].chain \in RunIds

ServerTypeOK ==
  /\ server \in {"up", "stopping", "down"}
  /\ stray \in [RunIds -> Strays]
  /\ stops \in 0..MaxStops

PoolTypeInv == WorkerTypeOK /\ MarkTypeOK /\ CancelTypeOK /\ ServerTypeOK

\* The parts make up the type invariant of the pool.
LEMMA TypeParts == PoolTypeInv => PoolTypeOK
  BY DEF PoolTypeInv, WorkerTypeOK, WorkerRec, MarkTypeOK, CancelTypeOK, ServerTypeOK, PoolTypeOK

\* A worker that is neither idle nor off holds a run.
LEMMA BusyWorker ==
  ASSUME WorkerTypeOK, NEW w \in Workers, worker[w].pc \notin {"idle", "off"}
  PROVE  worker[w].run \in RunIds /\ worker[w].run # NoRun
  BY DEF WorkerTypeOK, WorkerRec

\* Ending the contexts of registered runs keeps the workers' types.
LEMMA ContextsTyped ==
  ASSUME WorkerTypeOK, NEW S, NEW c \in Causes, CancelContexts(S, c)
  PROVE  WorkerTypeOK'
<1>1. \A w \in Workers : /\ worker'[w] \in WorkerRec
                         /\ worker'[w].run = worker[w].run /\ worker'[w].pc = worker[w].pc
  BY DEF WorkerTypeOK, WorkerRec, CancelContexts, Cancelled
<1>. QED
  BY <1>1 DEF WorkerTypeOK, CancelContexts

\* A worker at rest is well formed.
LEMMA RestingTyped ==
  ASSUME NEW x \in {"idle", "off"}
  PROVE  /\ Resting(x) \in WorkerRec /\ Resting(x).run = NoRun /\ Resting(x).pc = x
         /\ Resting(x).cause = "none" /\ Resting(x).result = "none"
  BY DEF Resting, WorkerRec, PCs, Causes, Results, NoRun

\* Replacing the record of one worker by a well-formed one.
LEMMA OneWorkerTyped ==
  ASSUME WorkerTypeOK, NEW w \in Workers, worker' = [worker EXCEPT ![w] = worker'[w]],
         worker'[w] \in WorkerRec,
         (worker'[w].run = NoRun) <=> (worker'[w].pc \in {"idle", "off"})
  PROVE  WorkerTypeOK'
  BY DEF WorkerTypeOK

\* Every step keeps the records of the workers well formed.
LEMMA StepWorkerTypes == PoolTypeInv /\ [PoolNext]_poolVars => WorkerTypeOK'
<1>. SUFFICES ASSUME PoolTypeInv, [PoolNext]_poolVars PROVE WorkerTypeOK'
  OBVIOUS
<1>t. WorkerTypeOK
  BY DEF PoolTypeInv
<1>n. NoRun \notin RunIds
  BY DEF NoRun, RunIds, Q!RunIds
<1>0. ASSUME UNCHANGED worker PROVE WorkerTypeOK'
  BY <1>t, <1>0 DEF WorkerTypeOK
<1>1. ASSUME NEW w \in Workers, Claim(w) PROVE WorkerTypeOK'
  <2>1. PICK r \in RunIds : worker' = [worker EXCEPT ![w] = [Resting("preparing") EXCEPT !.run = r]]
    BY <1>1 DEF Claim
  <2>2. /\ [Resting("preparing") EXCEPT !.run = r] \in WorkerRec
        /\ [Resting("preparing") EXCEPT !.run = r].run = r
        /\ [Resting("preparing") EXCEPT !.run = r].pc = "preparing"
    BY DEF Resting, WorkerRec, PCs, Causes, Results
  <2>3. worker'[w] = [Resting("preparing") EXCEPT !.run = r]
    BY <1>t, <2>1 DEF WorkerTypeOK
  <2>. QED
    BY <1>t, <1>n, <2>1, <2>2, <2>3, OneWorkerTyped
<1>2. ASSUME NEW w \in Workers,
             CancelClaimed(w) \/ PrepareLost(w) \/ Cleanup(w) \/ PanicFail(w)
      PROVE  WorkerTypeOK'
  <2>1. PICK x \in {"idle", "off"} : worker' = [worker EXCEPT ![w] = Resting(x)]
    BY <1>2 DEF CancelClaimed, PrepareLost, Cleanup, PanicFail
  <2>2. worker'[w] = Resting(x)
    BY <1>t, <2>1 DEF WorkerTypeOK
  <2>. QED
    BY <1>t, <2>1, <2>2, RestingTyped, OneWorkerTyped
<1>3. ASSUME NEW w \in Workers, Register(w) PROVE WorkerTypeOK'
  <2>. DEFINE r == worker[w].run
  <2>1. PICK c \in Causes, d \in {"own", "shared"} :
          worker' = [worker EXCEPT ![w].pc = "registered", ![w].cause = c, ![w].dir = d]
    <3>1. WorkDir(r) \in {"own", "shared"}
      BY DEF WorkDir
    <3>2. (IF server = "stopping" THEN "parent" ELSE IF r \in pend THEN "user" ELSE "none") \in Causes
      BY DEF Causes
    <3>. HIDE DEF r
    <3>3. worker' = [worker EXCEPT ![w].pc = "registered",
             ![w].cause = IF server = "stopping" THEN "parent" ELSE IF r \in pend THEN "user" ELSE "none",
             ![w].dir = WorkDir(r)]
      BY <1>3 DEF Register, r
    <3>. QED
      BY <3>1, <3>2, <3>3
  <2>2. worker[w].pc = "preparing"
    BY <1>3 DEF Register
  <2>. QED
    BY <1>t, <2>1, <2>2, OneWorkerTyped DEF WorkerTypeOK, WorkerRec, PCs
<1>4. ASSUME NEW w \in Workers, StartProcess(w) \/ RecordProcess(w) \/ FinishRun(w) \/ Panic(w)
      PROVE  WorkerTypeOK'
  BY <1>t, <1>4 DEF WorkerTypeOK, WorkerRec, StartProcess, RecordProcess, FinishRun, Panic, Step, PCs
<1>5. ASSUME NEW w \in Workers, StartError(w) \/ ProcessExit(w) \/ Deadline(w)
      PROVE  WorkerTypeOK'
  <2>1. worker[w].pc \notin {"idle", "off"}
    BY <1>5 DEF StartError, ProcessExit, Deadline, Alive
  <2>2. CASE StartError(w) \/ ProcessExit(w)
    <3>1. PICK res \in Results : worker' = [worker EXCEPT ![w].pc = "exited", ![w].result = res]
      BY <2>2 DEF StartError, ProcessExit, ExitResults, Results
    <3>. QED
      BY <1>t, <2>1, <3>1, OneWorkerTyped DEF WorkerTypeOK, WorkerRec, PCs
  <2>3. CASE Deadline(w)
    <3>1. worker' = [worker EXCEPT ![w].late = TRUE]
      BY <2>3 DEF Deadline
    <3>2. /\ worker'[w] = [worker[w] EXCEPT !.late = TRUE]
          /\ worker' = [worker EXCEPT ![w] = worker'[w]]
      BY <1>t, <3>1 DEF WorkerTypeOK
    <3>3. /\ [worker[w] EXCEPT !.late = TRUE] \in WorkerRec
          /\ [worker[w] EXCEPT !.late = TRUE].run = worker[w].run
          /\ [worker[w] EXCEPT !.late = TRUE].pc = worker[w].pc
      BY <1>t DEF WorkerTypeOK, WorkerRec
    <3>4. worker[w].run # NoRun
      BY <1>t, <2>1 DEF WorkerTypeOK
    <3>. QED
      BY <1>t, <2>1, <3>2, <3>3, <3>4, OneWorkerTyped
  <2>. QED
    BY <1>5, <2>2, <2>3
<1>6. ASSUME CancelStaleActiveRuns PROVE WorkerTypeOK'
  BY <1>t, <1>6, ContextsTyped DEF CancelStaleActiveRuns, Causes
<1>7. ASSUME NEW h \in Cancellers, CancelIntent(h) \/ ChainWake(h) PROVE WorkerTypeOK'
  <2>1. UNCHANGED worker \/ \E r : CancelContexts({r}, "user")
    BY <1>7 DEF CancelIntent, ChainWake, PoolCancelRun
  <2>. QED
    BY <1>t, <1>0, <2>1, ContextsTyped DEF Causes
<1>8. ASSUME Signal PROVE WorkerTypeOK'
  <2>1. \A w \in Workers :
          /\ worker'[w] \in WorkerRec
          /\ (worker'[w].run = NoRun) <=> (worker'[w].pc \in {"idle", "off"})
    <3>. SUFFICES ASSUME NEW w \in Workers
                  PROVE  /\ worker'[w] \in WorkerRec
                         /\ (worker'[w].run = NoRun) <=> (worker'[w].pc \in {"idle", "off"})
      OBVIOUS
    <3>1. CASE worker[w].pc = "idle"
      BY <1>8, <3>1, RestingTyped DEF Signal
    <3>2. CASE worker[w].pc # "idle" /\ worker'[w] = worker[w]
      BY <1>t, <3>2 DEF WorkerTypeOK
    <3>3. CASE worker'[w] = Cancelled(worker[w], "parent")
      BY <1>t, <3>3 DEF WorkerTypeOK, WorkerRec, Cancelled, Causes
    <3>. QED
      BY <1>8, <3>1, <3>2, <3>3 DEF Signal
  <2>. QED
    BY <1>8, <2>1 DEF WorkerTypeOK, Signal
<1>9. ASSUME GracefulExit \/ Crash \/ Restart PROVE WorkerTypeOK'
  <2>1. PICK x \in {"idle", "off"} : worker' = [w \in Workers |-> Resting(x)]
    BY <1>9 DEF GracefulExit, Crash, MemoryLost, Restart
  <2>. QED
    BY <2>1, RestingTyped DEF WorkerTypeOK
<1>10. ASSUME \/ \E w \in Workers : Heartbeat(w)
              \/ \E r \in RunIds : Age(r) \/ StrayExit(r) \/ RetryDue(r)
              \/ RecoverStaleRuns
              \/ \E h \in Cancellers, i \in Issues : CancelIssueRun(h, i)
              \/ \E h \in Cancellers, c \in RunIds : CancelChain(h, c)
              \/ \E h \in Cancellers : CancelFallback(h) \/ ChainSweep(h)
              \/ UserEnqueues \/ UserSwitchesWorktree
              \/ UNCHANGED poolVars
       PROVE  UNCHANGED worker
  BY <1>10 DEF Heartbeat, Age, StrayExit, RetryDue, RecoverStaleRuns, CancelIssueRun,
               CancelChain, CancelFallback, ChainSweep, UserEnqueues, UserSwitchesWorktree,
               poolVars
<1>. QED
  BY <1>0, <1>1, <1>2, <1>3, <1>4, <1>5, <1>6, <1>7, <1>8, <1>9, <1>10
     DEF PoolNext, WorkerStep, CancelStep

\* Every step keeps the sets of runs within the runs.
LEMMA StepMarkTypes == PoolTypeInv /\ [PoolNext]_poolVars => MarkTypeOK'
<1>. SUFFICES ASSUME PoolTypeInv, [PoolNext]_poolVars PROVE MarkTypeOK'
  OBVIOUS
<1>t. MarkTypeOK /\ WorkerTypeOK /\ CancelTypeOK
  BY DEF PoolTypeInv
<1>. USE DEF QueueSide, CancelSide, ServerSide, RowMarks, Ageing, FreshHeartbeat
<1>0. ASSUME UNCHANGED <<pend, claimed, recorded, dbOld, okOld, scan, asked, why>>
      PROVE  MarkTypeOK'
  BY <1>t, <1>0 DEF MarkTypeOK
<1>1. ASSUME NEW w \in Workers, Claim(w) PROVE MarkTypeOK'
  BY <1>t, <1>1 DEF MarkTypeOK, Claim
<1>2. ASSUME NEW w \in Workers,
             Register(w) \/ Cleanup(w) \/ Panic(w) \/ RecordProcess(w) \/ Heartbeat(w)
      PROVE  MarkTypeOK'
  <2>1. RecordProcess(w) => worker[w].run \in RunIds
    BY <1>t, BusyWorker DEF RecordProcess
  <2>. QED
    BY <1>t, <1>2, <2>1 DEF MarkTypeOK, Register, Cleanup, Panic, RecordProcess, Heartbeat
<1>3. ASSUME NEW w \in Workers, FinishRun(w) PROVE MarkTypeOK'
  <2>1. \/ UNCHANGED why
        \/ \E x \in Reasons : why' = [why EXCEPT ![worker[w].run] = x]
    BY <1>3 DEF FinishRun, FinishCancelled, FinishRetried, FinishConflict, FinishCompleted,
                FinishIgnored, CancelReasonFromCause, Reasons
  <2>2. claimed' \subseteq claimed /\ recorded' \subseteq recorded
    BY <1>3 DEF FinishRun, FinishCancelled, FinishRetried, FinishConflict, FinishCompleted,
                FinishIgnored
  <2>. QED
    BY <1>t, <1>3, <2>1, <2>2 DEF MarkTypeOK, FinishRun
<1>4. ASSUME NEW r \in RunIds, Age(r) PROVE MarkTypeOK'
  BY <1>t, <1>4 DEF MarkTypeOK, Age
<1>5. ASSUME CancelStaleActiveRuns \/ RecoverStaleRuns PROVE MarkTypeOK'
  <2>1. CASE CancelStaleActiveRuns
    BY <1>t, <2>1 DEF MarkTypeOK, CancelStaleActiveRuns
  <2>2. CASE RecoverStaleRuns
    <3>1. why' \in [RunIds -> Reasons]
      BY <1>t, <2>2 DEF MarkTypeOK, RecoverStaleRuns, Reasons
    <3>. QED
      BY <1>t, <2>2, <3>1 DEF MarkTypeOK, RecoverStaleRuns
  <2>. QED
    BY <1>5, <2>1, <2>2
<1>6. ASSUME NEW h \in Cancellers, CancelIntent(h) \/ CancelFallback(h) PROVE MarkTypeOK'
  <2>1. can[h].run \in RunIds
    BY <1>t, <1>6 DEF CancelTypeOK, CancelIntent, CancelFallback
  <2>. QED
    BY <1>t, <1>6, <2>1
       DEF MarkTypeOK, CancelIntent, CancelFallback, PoolCancelRun, Reasons
<1>7. ASSUME NEW h \in Cancellers, ChainWake(h) PROVE MarkTypeOK'
  <2>1. can[h].run \in RunIds \cup {NoRun}
    BY <1>t DEF CancelTypeOK
  <2>. QED
    BY <1>t, <1>7, <2>1 DEF MarkTypeOK, ChainWake, PoolCancelRun
<1>8. ASSUME NEW h \in Cancellers, ChainSweep(h) PROVE MarkTypeOK'
  <2>1. {r \in Q!ActiveRows : run[r].chain = can[h].chain} \subseteq RunIds
    BY DEF Q!ActiveRows, RunIds
  <2>2. why' \in [RunIds -> Reasons]
    BY <1>t, <1>8 DEF MarkTypeOK, ChainSweep, Reasons
  <2>. QED
    BY <1>t, <1>8, <2>1, <2>2 DEF MarkTypeOK, ChainSweep
<1>9. ASSUME GracefulExit \/ Crash PROVE MarkTypeOK'
  BY <1>t, <1>9 DEF MarkTypeOK, GracefulExit, Crash, MemoryLost
<1>10. ASSUME Restart PROVE MarkTypeOK'
  <2>1. why' \in [RunIds -> Reasons]
    BY <1>t, <1>10 DEF MarkTypeOK, Restart, Reasons
  <2>. QED
    BY <1>t, <1>10, <2>1 DEF MarkTypeOK, Restart
<1>11. ASSUME \/ \E w \in Workers : \/ CancelClaimed(w) \/ PrepareLost(w) \/ StartProcess(w)
                                    \/ StartError(w) \/ ProcessExit(w) \/ PanicFail(w)
                                    \/ Deadline(w)
              \/ \E r \in RunIds : StrayExit(r) \/ RetryDue(r)
              \/ \E h \in Cancellers, i \in Issues : CancelIssueRun(h, i)
              \/ \E h \in Cancellers, c \in RunIds : CancelChain(h, c)
              \/ Signal \/ UserEnqueues \/ UserSwitchesWorktree
              \/ UNCHANGED poolVars
       PROVE  UNCHANGED <<pend, claimed, recorded, dbOld, okOld, scan, asked, why>>
  BY <1>11 DEF CancelClaimed, PrepareLost, StartProcess, StartError, ProcessExit, PanicFail,
               Deadline, StrayExit, RetryDue, CancelIssueRun, CancelChain, Signal,
               UserEnqueues, UserSwitchesWorktree, poolVars
<1>. QED
  BY <1>0, <1>1, <1>2, <1>3, <1>4, <1>5, <1>6, <1>7, <1>8, <1>9, <1>10, <1>11
     DEF PoolNext, WorkerStep, CancelStep

\* Every step keeps the handlers well formed, each with its target.
LEMMA StepCancelTypes == PoolTypeInv /\ [PoolNext]_poolVars => CancelTypeOK'
<1>. SUFFICES ASSUME PoolTypeInv, [PoolNext]_poolVars PROVE CancelTypeOK'
  OBVIOUS
<1>t. CancelTypeOK
  BY DEF PoolTypeInv
<1>0. ASSUME UNCHANGED can PROVE CancelTypeOK'
  BY <1>t, <1>0 DEF CancelTypeOK
<1>1. ASSUME NEW h \in Cancellers, NEW i \in Issues, CancelIssueRun(h, i) PROVE CancelTypeOK'
  <2>1. PICK r \in RunIds : can' = [can EXCEPT ![h] = [pc |-> "intent", run |-> r, chain |-> NoRun]]
    BY <1>1, ActiveRunIsActive DEF CancelIssueRun
  <2>. QED
    BY <1>t, <2>1 DEF CancelTypeOK
<1>2. ASSUME NEW h \in Cancellers, NEW c \in RunIds, CancelChain(h, c) PROVE CancelTypeOK'
  <2>1. PICK r \in RunIds \cup {NoRun} :
          can' = [can EXCEPT ![h] = [pc |-> "wake", run |-> r, chain |-> c]]
    BY <1>2 DEF CancelChain, Q!With, RunIds
  <2>. QED
    BY <1>t, <2>1 DEF CancelTypeOK
<1>3. ASSUME NEW h \in Cancellers, CancelIntent(h) PROVE CancelTypeOK'
  <2>1. CASE can' = [can EXCEPT ![h] = NoCancel]
    BY <1>t, <2>1 DEF CancelTypeOK, NoCancel
  <2>2. CASE can' = [can EXCEPT ![h] = [@ EXCEPT !.pc = "fallback"]]
    BY <1>t, <1>3, <2>2 DEF CancelTypeOK, CancelIntent
  <2>. QED
    BY <1>3, <2>1, <2>2 DEF CancelIntent
<1>4. ASSUME NEW h \in Cancellers, CancelFallback(h) \/ ChainSweep(h) PROVE CancelTypeOK'
  BY <1>t, <1>4 DEF CancelTypeOK, CancelFallback, ChainSweep, NoCancel
<1>5. ASSUME NEW h \in Cancellers, ChainWake(h) PROVE CancelTypeOK'
  BY <1>t, <1>5 DEF CancelTypeOK, ChainWake
<1>6. ASSUME GracefulExit \/ Crash PROVE CancelTypeOK'
  BY <1>6 DEF CancelTypeOK, GracefulExit, Crash, MemoryLost, NoCancel
<1>7. ASSUME \/ \E w \in Workers : Claim(w) \/ WorkerStep(w) \/ Deadline(w) \/ Heartbeat(w)
             \/ \E r \in RunIds : Age(r) \/ StrayExit(r) \/ RetryDue(r)
             \/ CancelStaleActiveRuns \/ RecoverStaleRuns
             \/ Signal \/ Restart \/ UserEnqueues \/ UserSwitchesWorktree
             \/ UNCHANGED poolVars
      PROVE  UNCHANGED can
  BY <1>7 DEF Claim, WorkerStep, CancelClaimed, PrepareLost, Register, StartProcess, StartError,
              RecordProcess, ProcessExit, FinishRun, Cleanup, Panic, PanicFail, Deadline,
              Heartbeat, Age, StrayExit, RetryDue, CancelStaleActiveRuns, RecoverStaleRuns,
              Signal, Restart, UserEnqueues, UserSwitchesWorktree, CancelSide, poolVars
<1>. QED
  BY <1>0, <1>1, <1>2, <1>3, <1>4, <1>5, <1>6, <1>7 DEF PoolNext, CancelStep

\* Every step keeps the server's state well formed.
LEMMA StepServerTypes == PoolTypeInv /\ [PoolNext]_poolVars => ServerTypeOK'
<1>. SUFFICES ASSUME PoolTypeInv, [PoolNext]_poolVars PROVE ServerTypeOK'
  OBVIOUS
<1>t. ServerTypeOK /\ MaxStops \in Nat
  BY PoolAssumption DEF PoolTypeInv
<1>0. ASSUME UNCHANGED <<server, stray, stops>> PROVE ServerTypeOK'
  BY <1>t, <1>0 DEF ServerTypeOK
<1>1. ASSUME Signal \/ GracefulExit PROVE ServerTypeOK'
  BY <1>t, <1>1 DEF ServerTypeOK, Signal, GracefulExit, MemoryLost
<1>2. ASSUME Crash PROVE ServerTypeOK'
  <2>1. stray' \in [RunIds -> Strays]
    BY <1>t, <1>2 DEF ServerTypeOK, Crash, Strays
  <2>. QED
    BY <1>t, <1>2, <2>1 DEF ServerTypeOK, Crash, MemoryLost
<1>3. ASSUME Restart PROVE ServerTypeOK'
  <2>1. stray' \in [RunIds -> Strays]
    BY <1>t, <1>3 DEF ServerTypeOK, Restart, TerminateTrackedProcessGroups, Strays
  <2>. QED
    BY <1>t, <1>3, <2>1 DEF ServerTypeOK, Restart
<1>4. ASSUME NEW r \in RunIds, StrayExit(r) PROVE ServerTypeOK'
  BY <1>t, <1>4 DEF ServerTypeOK, StrayExit, Strays
<1>5. ASSUME \/ \E w \in Workers : Claim(w) \/ WorkerStep(w) \/ Deadline(w) \/ Heartbeat(w)
             \/ \E r \in RunIds : Age(r) \/ RetryDue(r)
             \/ CancelStaleActiveRuns \/ RecoverStaleRuns
             \/ \E h \in Cancellers, i \in Issues : CancelIssueRun(h, i)
             \/ \E h \in Cancellers, c \in RunIds : CancelChain(h, c)
             \/ \E h \in Cancellers : CancelStep(h)
             \/ UserEnqueues \/ UserSwitchesWorktree
             \/ UNCHANGED poolVars
      PROVE  UNCHANGED <<server, stray, stops>>
  BY <1>5 DEF Claim, WorkerStep, CancelClaimed, PrepareLost, Register, StartProcess, StartError,
              RecordProcess, ProcessExit, FinishRun, Cleanup, Panic, PanicFail, Deadline,
              Heartbeat, Age, RetryDue, CancelStaleActiveRuns, RecoverStaleRuns, CancelIssueRun,
              CancelChain, CancelStep, CancelIntent, CancelFallback, ChainWake, ChainSweep,
              UserEnqueues, UserSwitchesWorktree, ServerSide, poolVars
<1>. QED
  BY <1>0, <1>1, <1>2, <1>3, <1>4, <1>5 DEF PoolNext

\* The type invariant and the handlers' targets hold in every reachable state.
THEOREM PoolTypeInvariant == PoolSpec => []PoolTypeInv
<1>1. PoolInit => PoolTypeInv
  <2>. SUFFICES ASSUME PoolInit PROVE PoolTypeInv
    OBVIOUS
  <2>1. WorkerTypeOK
    BY RestingTyped DEF PoolInit, WorkerTypeOK
  <2>2. MarkTypeOK
    BY DEF PoolInit, MarkTypeOK, Reasons
  <2>3. CancelTypeOK
    BY DEF PoolInit, CancelTypeOK, NoCancel
  <2>4. ServerTypeOK
    BY PoolAssumption DEF PoolInit, ServerTypeOK, Strays
  <2>. QED
    BY <2>1, <2>2, <2>3, <2>4 DEF PoolTypeInv
<1>2. PoolTypeInv /\ [PoolNext]_poolVars => PoolTypeInv'
  BY StepWorkerTypes, StepMarkTypes, StepCancelTypes, StepServerTypes DEF PoolTypeInv
<1>. QED
  BY <1>1, <1>2, PTL DEF PoolSpec

\* Every reachable state of the pool is well formed: the maps are keyed by runs, a
\* worker holds a run exactly while it is busy.
THEOREM PoolTypeCorrect == PoolSpec => []PoolTypeOK
  BY PoolTypeInvariant, TypeParts, PTL
-----------------------------------------------------------------------------
(* The pool implements the queue                                           *)

\* What the pool does to the tables: one transaction of the store, or none.
QueueMove ==
  \/ QueueSide
  \/ \E i \in Issues, a \in Agents : Q!CreateIssueWithInitialRun(i, a) \/ Q!AddUserComment(i, a)
  \/ \E r \in RunIds :
       \/ Q!ClaimNextRun(r) \/ Q!RescheduleRunForRetry(r) \/ Q!RetryDue(r)
       \/ Q!CompleteDone(r) \/ Q!CompleteFailed(r)
       \/ \E a \in Agents : Q!CompleteChained(r, a)
       \/ Q!FailInfrastructureRun(r) \/ Q!CancelRunWithReason(r) \/ Q!CancelRunsByChain(r)
  \/ Q!RecoverOrphanRuns
  \/ \E S \in SUBSET RunIds : Q!RecoverStaleRuns(S)
  \/ Toggles /\ \E x \in Workspaces, b \in BOOLEAN : Q!UpdateWorkspace(x, b)

\* Every step of the pool is such a move.
LEMMA StepMovesQueue == PoolTypeInv /\ [PoolNext]_poolVars => QueueMove
<1>. SUFFICES ASSUME PoolTypeInv, [PoolNext]_poolVars PROVE QueueMove
  OBVIOUS
<1>t. WorkerTypeOK /\ CancelTypeOK
  BY DEF PoolTypeInv
<1>1. ASSUME NEW w \in Workers, Claim(w) PROVE QueueMove
  BY <1>1 DEF Claim, QueueMove
<1>2. ASSUME NEW w \in Workers, CancelClaimed(w) \/ PanicFail(w) PROVE QueueMove
  <2>1. worker[w].run \in RunIds
    BY <1>t, <1>2, BusyWorker DEF CancelClaimed, PanicFail
  <2>. QED
    BY <1>2, <2>1 DEF CancelClaimed, PanicFail, FailIfActive, QueueMove
<1>3. ASSUME NEW w \in Workers, FinishRun(w) PROVE QueueMove
  <2>1. worker[w].run \in RunIds
    BY <1>t, <1>3, BusyWorker DEF FinishRun
  <2>. QED
    BY <1>3, <2>1 DEF FinishRun, FinishCancelled, FinishRetried, FinishConflict, FinishCompleted,
                      FinishIgnored, QueueMove
<1>4. ASSUME RecoverStaleRuns PROVE QueueMove
  <2>. DEFINE S == scan \cap Q!With("running")
  <2>1. S \in SUBSET RunIds
    BY DEF Q!With, RunIds
  <2>2. QueueSide \/ Q!RecoverStaleRuns(scan \cap Q!With("running"))
    BY <1>4 DEF RecoverStaleRuns
  <2>3. PICK T \in SUBSET RunIds : T = scan \cap Q!With("running")
    BY <2>1
  <2>. HIDE DEF S
  <2>4. QueueSide \/ Q!RecoverStaleRuns(T)
    BY <2>2, <2>3
  <2>. QED
    BY <2>4 DEF QueueMove
<1>5. ASSUME NEW h \in Cancellers, CancelFallback(h) \/ ChainSweep(h) PROVE QueueMove
  <2>1. CASE CancelFallback(h)
    <3>1. can[h].run \in RunIds
      BY <1>t, <2>1 DEF CancelTypeOK, CancelFallback
    <3>. QED
      BY <2>1, <3>1 DEF CancelFallback, QueueMove
  <2>2. CASE ChainSweep(h)
    <3>1. can[h].chain \in RunIds
      BY <1>t, <2>2 DEF CancelTypeOK, ChainSweep
    <3>. QED
      BY <2>2, <3>1 DEF ChainSweep, QueueMove
  <2>. QED
    BY <1>5, <2>1, <2>2
<1>6. ASSUME \/ Restart \/ UserEnqueues \/ UserSwitchesWorktree
             \/ \E r \in RunIds : RetryDue(r)
      PROVE  QueueMove
  BY <1>6 DEF Restart, UserEnqueues, UserSwitchesWorktree, RetryDue, QueueMove
<1>7. ASSUME NEW w \in Workers,
             \/ PrepareLost(w) \/ Register(w) \/ StartProcess(w) \/ StartError(w)
             \/ RecordProcess(w) \/ ProcessExit(w) \/ Cleanup(w) \/ Panic(w) \/ Deadline(w)
             \/ Heartbeat(w)
      PROVE  QueueSide
  BY <1>7 DEF PrepareLost, Register, StartProcess, StartError, RecordProcess, ProcessExit,
              Cleanup, Panic, Deadline, Heartbeat
<1>9. ASSUME NEW h \in Cancellers,
             \/ \E i \in Issues : CancelIssueRun(h, i)
             \/ \E c \in RunIds : CancelChain(h, c)
             \/ CancelIntent(h) \/ ChainWake(h)
      PROVE  QueueSide
  BY <1>9 DEF CancelIssueRun, CancelChain, CancelIntent, ChainWake
<1>10. ASSUME \/ \E r \in RunIds : Age(r) \/ StrayExit(r)
              \/ CancelStaleActiveRuns \/ Signal \/ GracefulExit \/ Crash
      PROVE  QueueSide
  BY <1>10 DEF Age, StrayExit, CancelStaleActiveRuns, Signal, GracefulExit, Crash
<1>8. ASSUME UNCHANGED poolVars PROVE QueueSide
  BY <1>8 DEF QueueSide, poolVars
<1>. QED
  BY <1>1, <1>2, <1>3, <1>4, <1>5, <1>6, <1>7, <1>8, <1>9, <1>10
     DEF PoolNext, WorkerStep, CancelStep, QueueMove

\* A move is a step of the queue.
LEMMA MoveIsQueueStep == QueueMove => [Q!Next]_(Q!vars)
  BY DEF QueueMove, QueueSide, queueVars, Q!vars, Q!Next, Q!Finish, RunIds

\* The pool, the handlers and the recovery only ever do to the tables what the
\* transactions of the store allow.
THEOREM PoolImplementsQueue == PoolSpec => ImplementsQueue
<1>1. PoolInit => Q!Init
  BY DEF PoolInit
<1>2. PoolTypeInv /\ [PoolNext]_poolVars => [Q!Next]_(Q!vars)
  BY StepMovesQueue, MoveIsQueueStep
<1>. QED
  BY <1>1, <1>2, PoolTypeInvariant, PTL DEF PoolSpec, ImplementsQueue, Q!Spec
-----------------------------------------------------------------------------
(* The proofs about the queue are about the pool's queue                   *)

\* The module of proofs speaks of the same rows and statuses.
LEMMA SameRows ==
  /\ Q!RunIds = QP!RunIds /\ Q!Active = QP!Active /\ Q!Rows = QP!Rows
  /\ \A s : Q!With(s) = QP!With(s)
  /\ \A r : Q!Ws(r) = QP!Ws(r)
  BY DEF Q!RunIds, QP!RunIds, Q!Active, QP!Active, Q!Rows, QP!Rows, Q!With, QP!With, Q!Ws, QP!Ws

\* ... and of the same auto-chain transaction.
LEMMA SameChained == \A r, a : Q!CompleteChained(r, a) => QP!CompleteChained(r, a)
<1>1. \A i, a : Q!QueuedFor(i, a) <=> QP!QueuedFor(i, a)
  BY SameRows DEF Q!QueuedFor, QP!QueuedFor
<1>2. \A a : Q!IsMain(a) <=> QP!IsMain(a)
  BY DEF Q!IsMain, QP!IsMain
<1>3. \A r, a : Q!CheckAutoChainDispatchDuplicates(r, a) <=> QP!CheckAutoChainDispatchDuplicates(r, a)
  BY <1>1, <1>2, SameRows DEF Q!CheckAutoChainDispatchDuplicates, QP!CheckAutoChainDispatchDuplicates
<1>4. \A x : Q!AutoChainWithinDailyGuards(x) <=> QP!AutoChainWithinDailyGuards(x)
  <2>1. ASSUME NEW x
        PROVE  {q \in Q!Rows : Q!Ws(q) = x /\ run[q].depth > 0 /\ run[q].recent}
                 = {q \in QP!Rows : QP!Ws(q) = x /\ run[q].depth > 0 /\ run[q].recent}
    BY SameRows
  <2>2. \A S : Q!Cardinality(S) = QP!Cardinality(S)
    BY DEF Q!Cardinality, QP!Cardinality
  <2>. QED
    BY <2>1, <2>2 DEF Q!AutoChainWithinDailyGuards, QP!AutoChainWithinDailyGuards
<1>5. \A r, a : Q!CheckAutoChainGuards(r, a) <=> QP!CheckAutoChainGuards(r, a)
  BY <1>2, <1>4, SameRows DEF Q!CheckAutoChainGuards, QP!CheckAutoChainGuards
<1>6. \A i, a, c, d, v : Q!NewRow(i, a, c, d, v) = QP!NewRow(i, a, c, d, v)
  BY DEF Q!NewRow, QP!NewRow
<1>. SUFFICES ASSUME NEW r, NEW a, Q!CompleteChained(r, a) PROVE QP!CompleteChained(r, a)
  OBVIOUS
<1>. QED
  BY <1>2, <1>3, <1>5, <1>6, SameRows DEF Q!CompleteChained, QP!CompleteChained

\* Every move is a step of the queue the proofs are about.
LEMMA MoveIsProvedStep == QueueMove => [QP!Next]_(QP!vars)
<1>. SUFFICES ASSUME QueueMove PROVE [QP!Next]_(QP!vars)
  OBVIOUS
<1>1. \A i, a : Q!CreateIssueWithInitialRun(i, a) <=> QP!CreateIssueWithInitialRun(i, a)
  BY DEF Q!CreateIssueWithInitialRun, QP!CreateIssueWithInitialRun, Q!InsertRun,
         QP!InsertRun, Q!QueuedFor, QP!QueuedFor, Q!With, QP!With, Q!RunIds, QP!RunIds,
         Q!NewRow, QP!NewRow
<1>2. \A i, a : Q!AddUserComment(i, a) <=> QP!AddUserComment(i, a)
  BY DEF Q!AddUserComment, QP!AddUserComment, Q!Exists, QP!Exists, Q!InsertRun,
         QP!InsertRun, Q!QueuedFor, QP!QueuedFor, Q!With, QP!With, Q!RunIds, QP!RunIds,
         Q!NewRow, QP!NewRow
<1>3. \A r : Q!ClaimNextRun(r) <=> QP!ClaimNextRun(r)
  BY DEF Q!ClaimNextRun, QP!ClaimNextRun, Q!Claimable, QP!Claimable, Q!IssueBusy,
         QP!IssueBusy, Q!With, QP!With, Q!RunIds, QP!RunIds, Q!Ws, QP!Ws
<1>4. \A r : Q!RescheduleRunForRetry(r) <=> QP!RescheduleRunForRetry(r)
  BY DEF Q!RescheduleRunForRetry, QP!RescheduleRunForRetry, Q!QueuedFor, QP!QueuedFor,
         Q!With, QP!With, Q!RunIds, QP!RunIds
<1>5. \A r : Q!RetryDue(r) <=> QP!RetryDue(r)
  BY DEF Q!RetryDue, QP!RetryDue
<1>6. \A r : Q!CompleteDone(r) <=> QP!CompleteDone(r)
  BY DEF Q!CompleteDone, QP!CompleteDone, Q!SetStatus, QP!SetStatus, Q!RunIds, QP!RunIds,
         Q!Ws, QP!Ws
<1>7. \A r : Q!CompleteFailed(r) <=> QP!CompleteFailed(r)
  BY DEF Q!CompleteFailed, QP!CompleteFailed, Q!SetStatus, QP!SetStatus, Q!RunIds,
         QP!RunIds
<1>8. \A r : Q!FailInfrastructureRun(r) <=> QP!FailInfrastructureRun(r)
  BY DEF Q!FailInfrastructureRun, QP!FailInfrastructureRun, Q!SetStatus, QP!SetStatus,
         Q!RunIds, QP!RunIds, Q!Active, QP!Active
<1>9. \A r : Q!CancelRunWithReason(r) <=> QP!CancelRunWithReason(r)
  BY DEF Q!CancelRunWithReason, QP!CancelRunWithReason, Q!SetStatus, QP!SetStatus,
         Q!RunIds, QP!RunIds, Q!Active, QP!Active
<1>10. \A c : Q!CancelRunsByChain(c) <=> QP!CancelRunsByChain(c)
  BY DEF Q!CancelRunsByChain, QP!CancelRunsByChain, Q!ActiveRows, QP!ActiveRows, Q!Active,
         QP!Active, Q!RunIds, QP!RunIds, Q!SetStatus, QP!SetStatus
<1>11. Q!RecoverOrphanRuns <=> QP!RecoverOrphanRuns
  BY DEF Q!RecoverOrphanRuns, QP!RecoverOrphanRuns, Q!With, QP!With, Q!RunIds, QP!RunIds,
         Q!SetStatus, QP!SetStatus
<1>12. \A S : Q!RecoverStaleRuns(S) <=> QP!RecoverStaleRuns(S)
  BY DEF Q!RecoverStaleRuns, QP!RecoverStaleRuns, Q!With, QP!With, Q!RunIds, QP!RunIds,
         Q!SetStatus, QP!SetStatus
<1>13. \A x, b : Q!UpdateWorkspace(x, b) <=> QP!UpdateWorkspace(x, b)
  BY DEF Q!UpdateWorkspace, QP!UpdateWorkspace
<1>. QED
  BY <1>1, <1>2, <1>3, <1>4, <1>5, <1>6, <1>7, <1>8, <1>9, <1>10, <1>11, <1>12, <1>13, SameRows, SameChained
     DEF QueueMove, QueueSide, queueVars, QP!vars, QP!Next, QP!Finish, RunIds

\* So the pool is a queue in the sense of the proofs.
LEMMA PoolIsProvedQueue == PoolSpec => QP!Spec
<1>1. PoolInit => QP!Init
  BY DEF PoolInit, Q!Init, QP!Init, Q!RunIds, QP!RunIds, Q!NoRow, QP!NoRow, Q!NoRequest, QP!NoRequest
<1>2. PoolTypeInv /\ [PoolNext]_poolVars => [QP!Next]_(QP!vars)
  BY StepMovesQueue, MoveIsProvedStep
<1>. QED
  BY <1>1, <1>2, PoolTypeInvariant, PTL DEF PoolSpec, QP!Spec
-----------------------------------------------------------------------------
(* What a step does to one row and to one worker                           *)

\* The queue's invariants hold of the pool's tables.
QueueInv == QP!SafetyInv

\* What is proved of the queue holds of the tables under the pool: one running run
\* per issue, serialised runs alone, open issues, bounded depth.
THEOREM PoolInheritsQueue == PoolSpec => []QueueInv
  BY PoolIsProvedQueue, QP!SafetyInvariant, QueueAssumption, PTL DEF QueueInv

\* Who ends row r: the worker that holds it, the stale scan, a cancel handler, or
\* the start-up.
EndedBy(r) ==
  \/ \E w \in Workers : /\ worker[w].run = r
                        /\ worker[w].pc \in {"preparing", "exited", "panicked"}
                        /\ worker'[w].pc \in {"idle", "off", "finished"}
  \/ r \in scan
  \/ why'[r] = "user" /\ \E h \in Cancellers : can[h].pc = "fallback" /\ can[h].run = r
  \/ why'[r] = "user" /\ \E h \in Cancellers : can[h].pc = "sweep"
  \/ server = "down"

RowEnds(r) ==
  /\ run[r].status \in Q!Active /\ run'[r].status \in Q!Terminal
  /\ run'[r].issue = run[r].issue
  /\ EndedBy(r)

RowClaimed(r) ==
  /\ run[r].status = "queued" /\ run[r].due
  /\ run'[r].status = "running" /\ run'[r].serial = ~worktree[Q!Ws(r)]
  /\ run'[r].issue = run[r].issue

RowRequeued(r) ==
  /\ run[r].status = "running"
  /\ run'[r].status = "queued" /\ ~run'[r].due
  /\ run'[r].issue = run[r].issue
  /\ \E w \in Workers : /\ worker[w].run = r /\ worker[w].pc = "exited"
                        /\ worker'[w].pc = "finished"

RowDue(r) ==
  /\ run[r].status = "queued" /\ ~run[r].due /\ run'[r].status = "queued"
  /\ run'[r].issue = run[r].issue
  /\ ~Held(r)
  /\ "handler" \in Slow \/ \A h \in Cancellers : can[h].run # r
  /\ UNCHANGED <<worker, pend, claimed, can>>

RowEnters(r) == run[r].status = "none" /\ run'[r].status = "queued"

RowMove(r) ==
  run'[r] = run[r] \/ RowEnds(r) \/ RowClaimed(r) \/ RowRequeued(r) \/ RowDue(r) \/ RowEnters(r)

\* The rows of the pool are typed, and the next id is free.
LEMMA PoolRows ==
  ASSUME QueueInv
  PROVE  /\ run \in [RunIds -> Q!Row \cup {Q!NoRow}]
         /\ \A r \in RunIds : run[r].status # "none" => run[r] \in Q!Row
         /\ nextId \in 1..(MaxRuns + 1) /\ MaxRuns \in Nat
         /\ nextId \in RunIds => run[nextId].status = "none"
<1>1. QP!TypeOK /\ QP!FreshIds
  BY DEF QueueInv, QP!SafetyInv, QP!TypeInv
<1>2. QP!RunIds = RunIds /\ QP!Row = Q!Row /\ QP!NoRow = Q!NoRow
  BY DEF RunIds, Q!RunIds, QP!RunIds, Q!Row, QP!Row, Q!NoRow, QP!NoRow, Q!Active, QP!Active,
         Q!Terminal, QP!Terminal, Q!Origin, QP!Origin
<1>3. /\ run \in [RunIds -> Q!Row \cup {Q!NoRow}] /\ nextId \in 1..(MaxRuns + 1)
      /\ \A r \in RunIds : r >= nextId => run[r] = Q!NoRow
  BY <1>1, <1>2 DEF QP!TypeOK, QP!FreshIds
<1>4. MaxRuns \in Nat
  BY QueueAssumption DEF Q!BoundsAssumption
<1>5. nextId \in RunIds => run[nextId].status = "none"
  BY <1>3, <1>4 DEF Q!NoRow, RunIds, Q!RunIds
<1>6. \A r \in RunIds : run[r].status # "none" => run[r] \in Q!Row
  BY <1>3 DEF Q!NoRow
<1>. QED
  BY <1>3, <1>4, <1>5, <1>6

\* SetStatus ends active rows and leaves the others.
LEMMA SetStatusMoves ==
  ASSUME QueueInv, NEW S \in SUBSET RunIds, \A r \in S : run[r].status \in Q!Active,
         NEW s \in Q!Terminal, Q!SetStatus(S, s)
  PROVE  /\ \A r \in RunIds \ S : run'[r] = run[r]
         /\ \A r \in S : run'[r].status = s /\ run'[r].issue = run[r].issue
<1>1. \A r \in S : run[r] \in Q!Row
  BY PoolRows DEF Q!Active
<1>2. run' = [r \in RunIds |->
                IF r \in S THEN [run[r] EXCEPT !.status = s, !.due = TRUE, !.serial = FALSE]
                           ELSE run[r]]
  BY DEF Q!SetStatus, RunIds
<1>. QED
  BY <1>1, <1>2 DEF Q!Row

\* Inserting a row leaves the others.
LEMMA InsertMoves ==
  ASSUME QueueInv, NEW i, NEW a, NEW c, NEW d, NEW v, Q!InsertRun(i, a, c, d, v)
  PROVE  \A r \in RunIds : run'[r] = run[r] \/ RowEnters(r)
<1>1. nextId \in RunIds /\ run[nextId].status = "none"
  BY PoolRows DEF Q!InsertRun, RunIds, Q!RunIds
<1>2. run' = [run EXCEPT ![nextId] = Q!NewRow(i, a, c, d, v)]
  BY DEF Q!InsertRun
<1>3. Q!NewRow(i, a, c, d, v).status = "queued"
  BY DEF Q!NewRow
<1>. QED
  BY <1>1, <1>2, <1>3, PoolRows DEF RowEnters

\* Every step of the pool does one of the six things to every row.
LEMMA StepRowMoves ==
  QueueInv /\ PoolTypeInv /\ [PoolNext]_poolVars => \A r \in RunIds : RowMove(r)
<1>. SUFFICES ASSUME QueueInv, PoolTypeInv, [PoolNext]_poolVars
              PROVE  \A r \in RunIds : RowMove(r)
  OBVIOUS
<1>t. WorkerTypeOK /\ CancelTypeOK /\ MarkTypeOK
  BY DEF PoolTypeInv
<1>r. /\ run \in [RunIds -> Q!Row \cup {Q!NoRow}]
      /\ \A r \in RunIds : run[r].status # "none" => run[r] \in Q!Row
  BY PoolRows
<1>0. ASSUME QueueSide PROVE \A r \in RunIds : RowMove(r)
  BY <1>0 DEF QueueSide, queueVars, RowMove
<1>e. ASSUME NEW S \in SUBSET RunIds, \A r \in S : run[r].status \in Q!Active,
             NEW s \in Q!Terminal, Q!SetStatus(S, s), \A r \in S : EndedBy(r)
      PROVE  \A r \in RunIds : RowMove(r)
  BY <1>e, SetStatusMoves DEF RowMove, RowEnds
<1>1. ASSUME NEW w \in Workers, Claim(w) PROVE \A r \in RunIds : RowMove(r)
  <2>1. PICK r \in RunIds : Q!ClaimNextRun(r)
    BY <1>1 DEF Claim
  <2>2. /\ run[r].status = "queued" /\ run[r].due
        /\ run' = [run EXCEPT ![r].status = "running", ![r].serial = ~worktree[Q!Ws(r)]]
    BY <2>1 DEF Q!ClaimNextRun, Q!Claimable
  <2>3. run[r] \in Q!Row
    BY <1>r, <2>2
  <2>4. RowClaimed(r) /\ \A q \in RunIds \ {r} : run'[q] = run[q]
    BY <1>r, <2>2, <2>3 DEF RowClaimed, Q!Row
  <2>. QED
    BY <2>4 DEF RowMove
<1>2. ASSUME NEW w \in Workers, CancelClaimed(w) \/ PanicFail(w)
      PROVE  \A r \in RunIds : RowMove(r)
  <2>1. worker[w].run \in RunIds
    BY <1>t, <1>2, BusyWorker DEF CancelClaimed, PanicFail
  <2>2. /\ worker[w].pc \in {"preparing", "panicked"}
        /\ \E x \in {"idle", "off"} : worker' = [worker EXCEPT ![w] = Resting(x)]
    BY <1>2 DEF CancelClaimed, PanicFail
  <2>3. worker'[w].pc \in {"idle", "off"}
    BY <1>t, <2>2, RestingTyped DEF WorkerTypeOK
  <2>4. EndedBy(worker[w].run)
    BY <2>2, <2>3 DEF EndedBy
  <2>5. PICK q \in RunIds : q = worker[w].run
    BY <2>1
  <2>6. QueueSide \/ Q!FailInfrastructureRun(q)
    BY <1>2, <2>5 DEF CancelClaimed, PanicFail, FailIfActive
  <2>7. Q!FailInfrastructureRun(q) => run[q].status \in Q!Active /\ Q!SetStatus({q}, "failed")
    BY DEF Q!FailInfrastructureRun
  <2>. QED
    BY <1>0, <1>e, <2>4, <2>5, <2>6, <2>7 DEF Q!Terminal
<1>3. ASSUME NEW w \in Workers, FinishRun(w) PROVE \A r \in RunIds : RowMove(r)
  <2>1. worker[w].run \in RunIds
    BY <1>t, <1>3, BusyWorker DEF FinishRun
  <2>2. PICK q \in RunIds : q = worker[w].run
    BY <2>1
  <2>3. worker[w].pc = "exited" /\ worker'[w].pc = "finished"
    BY <1>t, <1>3 DEF FinishRun, Step, WorkerTypeOK, WorkerRec
  <2>4. EndedBy(q)
    BY <2>2, <2>3 DEF EndedBy
  <2>5. \/ Q!CancelRunWithReason(q) \/ Q!RescheduleRunForRetry(q) \/ QueueSide
        \/ Q!CompleteDone(q) \/ Q!CompleteFailed(q)
        \/ \E a \in Agents : Q!CompleteChained(q, a)
    BY <1>3, <2>2 DEF FinishRun, FinishCancelled, FinishRetried, FinishConflict, FinishCompleted,
                      FinishIgnored
  <2>6. CASE Q!CancelRunWithReason(q) \/ Q!CompleteDone(q) \/ Q!CompleteFailed(q)
    <3>1. PICK s \in Q!Terminal : run[q].status \in Q!Active /\ Q!SetStatus({q}, s)
      BY <2>6 DEF Q!CancelRunWithReason, Q!CompleteDone, Q!CompleteFailed, Q!Terminal, Q!Active
    <3>. QED
      BY <1>e, <2>4, <3>1
  <2>7. CASE Q!RescheduleRunForRetry(q)
    <3>1. /\ run[q].status = "running"
          /\ run' = [run EXCEPT ![q].status = "queued", ![q].due = FALSE,
                                ![q].serial = FALSE, ![q].attempt = @ + 1]
      BY <2>7 DEF Q!RescheduleRunForRetry
    <3>2. run[q] \in Q!Row
      BY <1>r, <3>1
    <3>3. /\ run'[q].status = "queued" /\ ~run'[q].due /\ run'[q].issue = run[q].issue
          /\ \A r \in RunIds \ {q} : run'[r] = run[r]
      BY <1>r, <3>1, <3>2 DEF Q!Row
    <3>4. RowRequeued(q)
      BY <2>2, <2>3, <3>1, <3>3 DEF RowRequeued
    <3>. QED
      BY <3>3, <3>4 DEF RowMove
  <2>8. CASE \E a \in Agents : Q!CompleteChained(q, a)
    <3>a. PICK a \in Agents : Q!CompleteChained(q, a)
      BY <2>8
    <3>b. PICK row : row = Q!NewRow(run[q].issue, a, run[q].chain,
                             IF Q!IsMain(a) THEN run[q].depth ELSE run[q].depth + 1,
                             IF Q!IsMain(a) THEN "main" ELSE "worker")
      OBVIOUS
    <3>c. row.status = "queued"
      BY <3>b DEF Q!NewRow
    <3>1. /\ run[q].status = "running" /\ nextId <= MaxRuns
          /\ run' = [run EXCEPT ![q].status = "done", ![q].serial = FALSE, ![nextId] = row]
      BY <3>a, <3>b DEF Q!CompleteChained
    <3>2. run[q] \in Q!Row /\ nextId \in RunIds /\ run[nextId].status = "none" /\ nextId # q
      BY <1>r, <3>1, PoolRows DEF RunIds, Q!RunIds
    <3>3. /\ run'[q].status = "done" /\ run'[q].issue = run[q].issue
          /\ run'[nextId] = row
          /\ \A r \in RunIds \ {q, nextId} : run'[r] = run[r]
      BY <1>r, <3>1, <3>2 DEF Q!Row
    <3>4. RowEnds(q) /\ RowEnters(nextId)
      BY <2>4, <3>c, <3>1, <3>2, <3>3 DEF RowEnds, RowEnters, Q!Active, Q!Terminal
    <3>. QED
      BY <3>3, <3>4 DEF RowMove
  <2>. QED
    BY <1>0, <2>5, <2>6, <2>7, <2>8
<1>4. ASSUME RecoverStaleRuns PROVE \A r \in RunIds : RowMove(r)
  <2>1. PICK T \in SUBSET RunIds : T = scan \cap Q!With("running")
    BY DEF Q!With, RunIds
  <2>2. QueueSide \/ Q!RecoverStaleRuns(T)
    BY <1>4, <2>1 DEF RecoverStaleRuns
  <2>3. \A r \in T : r \in scan /\ run[r].status \in Q!Active
    BY <2>1 DEF Q!With, Q!Active
  <2>4. Q!RecoverStaleRuns(T) => Q!SetStatus(T, "cancelled")
    BY DEF Q!RecoverStaleRuns
  <2>. QED
    BY <1>0, <1>e, <2>2, <2>3, <2>4 DEF Q!Terminal, EndedBy
<1>5. ASSUME NEW h \in Cancellers, CancelFallback(h) PROVE \A r \in RunIds : RowMove(r)
  <2>1. can[h].run \in RunIds /\ can[h].pc = "fallback"
    BY <1>t, <1>5 DEF CancelTypeOK, CancelFallback
  <2>2. PICK q \in RunIds : q = can[h].run
    BY <2>1
  <2>3. CASE QueueSide
    BY <1>0, <2>3
  <2>4. CASE ~QueueSide
    <3>1. run[q].status \in Q!Active /\ Q!CancelRunWithReason(q) /\ why' = [why EXCEPT ![q] = "user"]
      BY <1>5, <2>2, <2>4 DEF CancelFallback
    <3>2. EndedBy(q)
      BY <1>t, <2>1, <2>2, <3>1 DEF EndedBy, MarkTypeOK
    <3>3. Q!SetStatus({q}, "cancelled")
      BY <3>1 DEF Q!CancelRunWithReason
    <3>. QED
      BY <1>e, <3>1, <3>2, <3>3 DEF Q!Terminal
  <2>. QED
    BY <2>3, <2>4
<1>6. ASSUME NEW h \in Cancellers, ChainSweep(h) PROVE \A r \in RunIds : RowMove(r)
  <2>1. PICK T \in SUBSET RunIds : T = {r \in Q!ActiveRows : run[r].chain = can[h].chain}
    BY DEF Q!ActiveRows, RunIds
  <2>2. /\ QueueSide \/ Q!CancelRunsByChain(can[h].chain)
        /\ why' = [r \in RunIds |-> IF r \in T THEN "user" ELSE why[r]]
        /\ can[h].pc = "sweep"
    BY <1>6, <2>1 DEF ChainSweep
  <2>3. Q!CancelRunsByChain(can[h].chain) => Q!SetStatus(T, "cancelled")
    <3>1. PICK c : c = can[h].chain
      OBVIOUS
    <3>2. Q!CancelRunsByChain(c) => Q!SetStatus(T, "cancelled")
      BY <2>1, <3>1 DEF Q!CancelRunsByChain
    <3>. QED
      BY <3>1, <3>2
  <2>4. \A r \in T : run[r].status \in Q!Active /\ EndedBy(r)
    BY <2>1, <2>2 DEF Q!ActiveRows, EndedBy
  <2>. QED
    BY <1>0, <1>e, <2>2, <2>3, <2>4 DEF Q!Terminal
<1>7. ASSUME Restart PROVE \A r \in RunIds : RowMove(r)
  <2>1. PICK T \in SUBSET RunIds : T = Q!With("running")
    BY DEF Q!With, RunIds
  <2>2. QueueSide \/ Q!RecoverOrphanRuns
    BY <1>7 DEF Restart
  <2>3. Q!RecoverOrphanRuns => Q!SetStatus(T, "cancelled")
    BY <2>1 DEF Q!RecoverOrphanRuns
  <2>4. \A r \in T : run[r].status \in Q!Active /\ EndedBy(r)
    BY <1>7, <2>1 DEF Q!With, Q!Active, Restart, EndedBy
  <2>. QED
    BY <1>0, <1>e, <2>2, <2>3, <2>4 DEF Q!Terminal
<1>8. ASSUME NEW q \in RunIds, RetryDue(q) PROVE \A r \in RunIds : RowMove(r)
  <2>1. /\ run[q].status = "queued" /\ ~run[q].due
        /\ run' = [run EXCEPT ![q].due = TRUE]
    BY <1>8 DEF RetryDue, Q!RetryDue
  <2>2. run[q] \in Q!Row
    BY <1>r, <2>1
  <2>3. /\ run'[q] = [run[q] EXCEPT !.due = TRUE]
        /\ \A r \in RunIds \ {q} : run'[r] = run[r]
    BY <1>r, <2>1
  <2>4. run'[q].status = "queued" /\ run'[q].issue = run[q].issue
    BY <2>1, <2>2, <2>3 DEF Q!Row
  <2>5. RowDue(q)
    BY <1>8, <2>1, <2>4 DEF RowDue, RetryDue, RowMarks, CancelSide
  <2>. QED
    BY <2>3, <2>5 DEF RowMove
<1>9. ASSUME UserEnqueues PROVE \A r \in RunIds : RowMove(r)
  <2>1. \E i, a, c, d, v : Q!InsertRun(i, a, c, d, v)
    BY <1>9 DEF UserEnqueues, Q!CreateIssueWithInitialRun, Q!AddUserComment
  <2>. QED
    BY <2>1, InsertMoves DEF RowMove
<1>10. ASSUME UserSwitchesWorktree PROVE \A r \in RunIds : RowMove(r)
  BY <1>10 DEF UserSwitchesWorktree, Q!UpdateWorkspace, RowMove
<1>11. ASSUME NEW w \in Workers,
              \/ PrepareLost(w) \/ Register(w) \/ StartProcess(w) \/ StartError(w)
              \/ RecordProcess(w) \/ ProcessExit(w) \/ Cleanup(w) \/ Panic(w) \/ Deadline(w)
              \/ Heartbeat(w)
      PROVE  QueueSide
  BY <1>11 DEF PrepareLost, Register, StartProcess, StartError, RecordProcess, ProcessExit,
               Cleanup, Panic, Deadline, Heartbeat
<1>12. ASSUME NEW h \in Cancellers,
              \/ \E i \in Issues : CancelIssueRun(h, i)
              \/ \E c \in RunIds : CancelChain(h, c)
              \/ CancelIntent(h) \/ ChainWake(h)
      PROVE  QueueSide
  BY <1>12 DEF CancelIssueRun, CancelChain, CancelIntent, ChainWake
<1>13. ASSUME \/ \E r \in RunIds : Age(r) \/ StrayExit(r)
              \/ CancelStaleActiveRuns \/ Signal \/ GracefulExit \/ Crash
      PROVE  QueueSide
  BY <1>13 DEF Age, StrayExit, CancelStaleActiveRuns, Signal, GracefulExit, Crash
<1>14. ASSUME UNCHANGED poolVars PROVE QueueSide
  BY <1>14 DEF QueueSide, poolVars
<1>. QED
  BY <1>0, <1>1, <1>2, <1>3, <1>4, <1>5, <1>6, <1>7, <1>8, <1>9, <1>10, <1>11, <1>12, <1>13,
     <1>14 DEF PoolNext, WorkerStep, CancelStep

\* What a step does to worker w.
Takes(w) ==
  /\ server = "up" /\ worker[w].pc = "idle"
  /\ worker'[w].pc = "preparing" /\ worker'[w].cause = "none" /\ worker'[w].result = "none"
  /\ \A v \in Workers \ {w} : worker'[v] = worker[v]
  /\ \E r \in RunIds : /\ worker'[w].run = r
                       /\ run[r].status = "queued" /\ run[r].due /\ run'[r].status = "running"
                       /\ r \in claimed' /\ r \notin dbOld' \cup scan'

Rests(w) ==
  /\ worker'[w].pc \in {"idle", "off"} /\ worker'[w].run = NoRun
  /\ worker'[w].cause = "none" /\ worker'[w].result = "none"

Registers(w) ==
  /\ worker[w].pc = "preparing" /\ worker'[w].pc = "registered"
  /\ worker'[w].run = worker[w].run /\ worker'[w].result = worker[w].result
  /\ worker'[w].dir = WorkDir(worker[w].run)
  /\ \/ worker'[w].cause = "parent" /\ server = "stopping"
     \/ worker'[w].cause = "user" /\ worker[w].run \in pend
     \/ worker'[w].cause = "none" /\ worker[w].run \notin pend
  /\ worker[w].run \notin pend'
  /\ UNCHANGED <<run, worktree, scan>>

Proceeds(w) ==
  /\ worker'[w].run = worker[w].run /\ worker'[w].dir = worker[w].dir
  /\ worker'[w].cause = worker[w].cause
  /\ worker'[w].result = "cancelled" =>
       worker[w].result = "cancelled" \/ worker[w].cause # "none"
  /\ \/ /\ worker[w].pc = "registered" /\ worker'[w].pc = "started"
        /\ worker[w].cause = "none" /\ UNCHANGED run
     \/ worker[w].pc = "started" /\ worker'[w].pc = "executing" /\ UNCHANGED run
     \/ /\ worker[w].pc \in {"registered", "executing", "exited"}
        /\ worker'[w].pc \in {"exited", "finished", "panicked"}
     \/ worker'[w].pc = worker[w].pc

EndsContext(w) ==
  /\ InCancels(w) /\ worker'[w].pc = worker[w].pc
  /\ worker'[w].run = worker[w].run /\ worker'[w].dir = worker[w].dir
  /\ worker'[w].result = worker[w].result
  /\ \/ worker'[w].cause = "user" /\ worker[w].run \in asked'
     \/ worker'[w].cause = "stale"
     \/ worker'[w].cause = "parent" /\ stops' > 0

WorkerMove(w) ==
  \/ worker'[w] = worker[w]
  \/ Takes(w) \/ Rests(w) \/ Registers(w) \/ Proceeds(w) \/ EndsContext(w)

\* A context ends, or has already ended, for the runs of S.
LEMMA ContextsMove ==
  ASSUME WorkerTypeOK, NEW S, NEW c, CancelContexts(S, c), NEW w \in Workers,
         worker[w].run \in S =>
           (c = "user" /\ worker[w].run \in asked') \/ c = "stale"
  PROVE  worker'[w] = worker[w] \/ EndsContext(w)
<1>1. worker[w] \in WorkerRec
  BY DEF WorkerTypeOK
<1>2. CASE InCancels(w) /\ worker[w].run \in S /\ worker[w].cause = "none"
  <2>1. worker'[w] = [worker[w] EXCEPT !.cause = c]
    BY <1>2 DEF CancelContexts, Cancelled
  <2>. QED
    BY <1>1, <1>2, <2>1 DEF EndsContext, WorkerRec
<1>3. CASE ~(InCancels(w) /\ worker[w].run \in S /\ worker[w].cause = "none")
  BY <1>3 DEF CancelContexts, Cancelled
<1>. QED
  BY <1>2, <1>3

\* Every step of the pool does one of the six things to every worker.
LEMMA StepWorkerMoves ==
  QueueInv /\ PoolTypeInv /\ [PoolNext]_poolVars => \A w \in Workers : WorkerMove(w)
<1>. SUFFICES ASSUME QueueInv, PoolTypeInv, [PoolNext]_poolVars
              PROVE  \A w \in Workers : WorkerMove(w)
  OBVIOUS
<1>t. WorkerTypeOK /\ CancelTypeOK /\ MarkTypeOK /\ ServerTypeOK
  BY DEF PoolTypeInv
<1>r. /\ run \in [RunIds -> Q!Row \cup {Q!NoRow}]
      /\ \A r \in RunIds : run[r].status # "none" => run[r] \in Q!Row
  BY PoolRows
<1>0. ASSUME UNCHANGED worker PROVE \A v \in Workers : WorkerMove(v)
  BY <1>0 DEF WorkerMove
<1>o. ASSUME NEW w \in Workers, NEW x, worker' = [worker EXCEPT ![w] = x]
      PROVE  worker'[w] = x /\ \A v \in Workers \ {w} : worker'[v] = worker[v]
  BY <1>t, <1>o DEF WorkerTypeOK
<1>1. ASSUME NEW w \in Workers, Claim(w) PROVE \A v \in Workers : WorkerMove(v)
  <2>1. PICK r \in RunIds :
          /\ Q!ClaimNextRun(r)
          /\ worker' = [worker EXCEPT ![w] = [Resting("preparing") EXCEPT !.run = r]]
          /\ claimed' = claimed \cup {r}
          /\ dbOld' = dbOld \ {r} /\ scan' = scan \ {r}
    BY <1>1 DEF Claim, FreshHeartbeat
  <2>2. /\ run[r].status = "queued" /\ run[r].due
        /\ run' = [run EXCEPT ![r].status = "running", ![r].serial = ~worktree[Q!Ws(r)]]
    BY <2>1 DEF Q!ClaimNextRun, Q!Claimable
  <2>3. run'[r].status = "running"
    BY <1>r, <2>2 DEF Q!Row
  <2>4. /\ worker'[w] = [Resting("preparing") EXCEPT !.run = r]
        /\ \A v \in Workers \ {w} : worker'[v] = worker[v]
    BY <1>o, <2>1
  <2>5. /\ worker'[w].pc = "preparing" /\ worker'[w].cause = "none"
        /\ worker'[w].result = "none" /\ worker'[w].run = r
    BY <2>4 DEF Resting
  <2>6. Takes(w)
    BY <1>1, <2>1, <2>2, <2>3, <2>4, <2>5 DEF Takes, Claim
  <2>. QED
    BY <2>4, <2>6 DEF WorkerMove
<1>2. ASSUME NEW w \in Workers,
             CancelClaimed(w) \/ PrepareLost(w) \/ Cleanup(w) \/ PanicFail(w)
      PROVE  \A v \in Workers : WorkerMove(v)
  <2>1. PICK x \in {"idle", "off"} : worker' = [worker EXCEPT ![w] = Resting(x)]
    BY <1>2 DEF CancelClaimed, PrepareLost, Cleanup, PanicFail
  <2>. QED
    BY <1>o, <2>1, RestingTyped DEF WorkerMove, Rests
<1>3. ASSUME NEW w \in Workers, Register(w) PROVE \A v \in Workers : WorkerMove(v)
  <2>1. PICK c, d, q :
          /\ q = worker[w].run /\ d = WorkDir(worker[w].run)
          /\ c = IF server = "stopping" THEN "parent" ELSE IF q \in pend THEN "user" ELSE "none"
    OBVIOUS
  <2>2. /\ worker' = [worker EXCEPT ![w].pc = "registered", ![w].cause = c, ![w].dir = d]
        /\ worker[w].pc = "preparing" /\ pend' = pend \ {q} /\ QueueSide /\ UNCHANGED scan
    BY <1>3, <2>1 DEF Register
  <2>3. /\ worker'[w].pc = "registered" /\ worker'[w].run = q /\ worker'[w].cause = c
        /\ worker'[w].dir = d /\ worker'[w].result = worker[w].result
        /\ \A v \in Workers \ {w} : worker'[v] = worker[v]
    BY <1>t, <2>1, <2>2 DEF WorkerTypeOK, WorkerRec
  <2>4. Registers(w)
    BY <2>1, <2>2, <2>3 DEF Registers, QueueSide, queueVars
  <2>. QED
    BY <2>3, <2>4 DEF WorkerMove
<1>4. ASSUME NEW w \in Workers, StartProcess(w) \/ RecordProcess(w)
      PROVE  \A v \in Workers : WorkerMove(v)
  <2>1. PICK x \in {"started", "executing"} :
          /\ worker' = [worker EXCEPT ![w].pc = x]
          /\ \/ x = "started" /\ worker[w].pc = "registered" /\ worker[w].cause = "none"
             \/ x = "executing" /\ worker[w].pc = "started"
          /\ UNCHANGED run
    BY <1>4 DEF StartProcess, RecordProcess, Step, QueueSide, queueVars
  <2>2. /\ worker'[w].pc = x /\ worker'[w].run = worker[w].run /\ worker'[w].dir = worker[w].dir
        /\ worker'[w].cause = worker[w].cause /\ worker'[w].result = worker[w].result
        /\ \A v \in Workers \ {w} : worker'[v] = worker[v]
    BY <1>t, <2>1 DEF WorkerTypeOK, WorkerRec
  <2>. QED
    BY <2>1, <2>2 DEF WorkerMove, Proceeds
<1>5. ASSUME NEW w \in Workers, FinishRun(w) \/ Panic(w)
      PROVE  \A v \in Workers : WorkerMove(v)
  <2>1. PICK x \in {"finished", "panicked"} :
          /\ worker' = [worker EXCEPT ![w].pc = x]
          /\ worker[w].pc \in {"registered", "exited"}
    BY <1>5 DEF FinishRun, Panic, Step
  <2>2. /\ worker'[w].pc = x /\ worker'[w].run = worker[w].run /\ worker'[w].dir = worker[w].dir
        /\ worker'[w].cause = worker[w].cause /\ worker'[w].result = worker[w].result
        /\ \A v \in Workers \ {w} : worker'[v] = worker[v]
    BY <1>t, <2>1 DEF WorkerTypeOK, WorkerRec
  <2>. QED
    BY <2>1, <2>2 DEF WorkerMove, Proceeds
<1>6. ASSUME NEW w \in Workers, StartError(w) \/ ProcessExit(w)
      PROVE  \A v \in Workers : WorkerMove(v)
  <2>1. PICK res \in Results :
          /\ worker' = [worker EXCEPT ![w].pc = "exited", ![w].result = res]
          /\ worker[w].pc \in {"registered", "executing"}
          /\ res = "cancelled" => worker[w].cause # "none"
    BY <1>6 DEF StartError, ProcessExit, ExitResults, Results
  <2>2. /\ worker'[w].pc = "exited" /\ worker'[w].run = worker[w].run
        /\ worker'[w].dir = worker[w].dir /\ worker'[w].cause = worker[w].cause
        /\ worker'[w].result = res
        /\ \A v \in Workers \ {w} : worker'[v] = worker[v]
    BY <1>t, <2>1 DEF WorkerTypeOK, WorkerRec
  <2>. QED
    BY <2>1, <2>2 DEF WorkerMove, Proceeds
<1>7. ASSUME NEW w \in Workers, Deadline(w) PROVE \A v \in Workers : WorkerMove(v)
  <2>1. worker' = [worker EXCEPT ![w].late = TRUE]
    BY <1>7 DEF Deadline
  <2>2. /\ worker'[w].pc = worker[w].pc /\ worker'[w].run = worker[w].run
        /\ worker'[w].dir = worker[w].dir /\ worker'[w].cause = worker[w].cause
        /\ worker'[w].result = worker[w].result
        /\ \A v \in Workers \ {w} : worker'[v] = worker[v]
    BY <1>t, <2>1 DEF WorkerTypeOK, WorkerRec
  <2>. QED
    BY <2>2 DEF WorkerMove, Proceeds
<1>8. ASSUME CancelStaleActiveRuns PROVE \A v \in Workers : WorkerMove(v)
  BY <1>t, <1>8, ContextsMove DEF CancelStaleActiveRuns, WorkerMove
<1>9. ASSUME NEW h \in Cancellers, CancelIntent(h) \/ ChainWake(h)
      PROVE  \A v \in Workers : WorkerMove(v)
  <2>1. \/ UNCHANGED worker
        \/ \E r : CancelContexts({r}, "user") /\ r \in asked'
    BY <1>9 DEF CancelIntent, ChainWake, PoolCancelRun
  <2>. QED
    BY <1>0, <1>t, <2>1, ContextsMove DEF WorkerMove
<1>10. ASSUME Signal PROVE \A v \in Workers : WorkerMove(v)
  <2>. SUFFICES ASSUME NEW v \in Workers PROVE WorkerMove(v)
    OBVIOUS
  <2>1. worker'[v] = IF worker[v].pc = "idle" THEN Resting("off")
                     ELSE IF InCancels(v) THEN Cancelled(worker[v], "parent") ELSE worker[v]
    BY <1>10 DEF Signal
  <2>2. CASE worker[v].pc = "idle"
    BY <2>1, <2>2, RestingTyped DEF WorkerMove, Rests
  <2>3. CASE worker[v].pc # "idle" /\ InCancels(v) /\ worker[v].cause = "none"
    <3>1. worker'[v] = [worker[v] EXCEPT !.cause = "parent"]
      BY <2>1, <2>3 DEF Cancelled
    <3>2. stops' > 0
      BY <1>t, <1>10, PoolAssumption DEF Signal, ServerTypeOK
    <3>. QED
      BY <1>t, <2>3, <3>1, <3>2 DEF WorkerMove, EndsContext, WorkerTypeOK, WorkerRec
  <2>4. CASE worker[v].pc # "idle" /\ ~(InCancels(v) /\ worker[v].cause = "none")
    BY <2>1, <2>4 DEF WorkerMove, Cancelled
  <2>. QED
    BY <2>2, <2>3, <2>4
<1>11. ASSUME GracefulExit \/ Crash \/ Restart PROVE \A v \in Workers : WorkerMove(v)
  <2>1. PICK x \in {"idle", "off"} : worker' = [w \in Workers |-> Resting(x)]
    BY <1>11 DEF GracefulExit, Crash, MemoryLost, Restart
  <2>. QED
    BY <2>1, RestingTyped DEF WorkerMove, Rests
<1>12. ASSUME \/ \E w \in Workers : Heartbeat(w)
              \/ \E r \in RunIds : Age(r) \/ StrayExit(r) \/ RetryDue(r)
              \/ RecoverStaleRuns
              \/ \E h \in Cancellers, i \in Issues : CancelIssueRun(h, i)
              \/ \E h \in Cancellers, c \in RunIds : CancelChain(h, c)
              \/ \E h \in Cancellers : CancelFallback(h) \/ ChainSweep(h)
              \/ UserEnqueues \/ UserSwitchesWorktree
              \/ UNCHANGED poolVars
       PROVE  UNCHANGED worker
  BY <1>12 DEF Heartbeat, Age, StrayExit, RetryDue, RecoverStaleRuns, CancelIssueRun,
               CancelChain, CancelFallback, ChainSweep, UserEnqueues, UserSwitchesWorktree,
               poolVars
<1>. QED
  BY <1>0, <1>1, <1>2, <1>3, <1>4, <1>5, <1>6, <1>7, <1>8, <1>9, <1>10, <1>11, <1>12
     DEF PoolNext, WorkerStep, CancelStep
-----------------------------------------------------------------------------
(* One worker per run                                                      *)

\* The row of a run in a worker's hands exists and cannot be claimed: back in the
\* queue for a retry, it is not due before the worker has let go of it.
HeldRow ==
  \A w \in Workers :
    worker[w].run # NoRun =>
      /\ run[worker[w].run].status # "none"
      /\ run[worker[w].run].status = "queued" => ~run[worker[w].run].due

HoldInv == QueueInv /\ PoolTypeInv /\ HeldRow /\ OneWorkerPerRun

\* After a step a worker holds what it held, nothing, or what it just claimed.
LEMMA HeldBefore ==
  ASSUME NEW w \in Workers, WorkerMove(w)
  PROVE  worker'[w].run = worker[w].run \/ worker'[w].run = NoRun \/ Takes(w)
  BY DEF WorkerMove, Rests, Registers, Proceeds, EndsContext

\* Every step keeps the invariant.
LEMMA StepKeepsHoldInv == HoldInv /\ [PoolNext]_poolVars => HoldInv'
<1>. SUFFICES ASSUME HoldInv, [PoolNext]_poolVars PROVE HoldInv'
  OBVIOUS
<1>t. QueueInv /\ PoolTypeInv /\ HeldRow /\ OneWorkerPerRun /\ WorkerTypeOK
  BY DEF HoldInv, PoolTypeInv
<1>1. PoolTypeInv'
  BY <1>t, StepWorkerTypes, StepMarkTypes, StepCancelTypes, StepServerTypes DEF PoolTypeInv
<1>2. QueueInv'
  BY <1>t, StepMovesQueue, MoveIsProvedStep, QP!StepKeepsSafetyInv, QueueAssumption DEF QueueInv
<1>3. (\A r \in RunIds : RowMove(r)) /\ \A w \in Workers : WorkerMove(w)
  BY <1>t, StepRowMoves, StepWorkerMoves
<1>4. HeldRow'
  <2>. SUFFICES ASSUME NEW w \in Workers, worker'[w].run # NoRun
                PROVE  /\ run'[worker'[w].run].status # "none"
                       /\ run'[worker'[w].run].status = "queued" => ~run'[worker'[w].run].due
    BY DEF HeldRow
  <2>1. CASE Takes(w)
    BY <2>1 DEF Takes
  <2>2. CASE worker'[w].run = worker[w].run
    <3>1. PICK r \in RunIds : r = worker[w].run /\ r # NoRun
      BY <1>t, <2>2 DEF WorkerTypeOK, WorkerRec
    <3>2. /\ run[r].status # "none" /\ (run[r].status = "queued" => ~run[r].due)
          /\ Held(r)
      BY <1>t, <3>1 DEF HeldRow, Held
    <3>3. run'[r].status # "none" /\ (run'[r].status = "queued" => ~run'[r].due)
      BY <1>3, <3>2 DEF RowMove, RowEnds, RowClaimed, RowRequeued, RowDue, RowEnters, Q!Terminal
    <3>. QED
      BY <2>2, <3>1, <3>3
  <2>. QED
    BY <1>3, <2>1, <2>2, HeldBefore
<1>5. OneWorkerPerRun'
  <2>1. ASSUME NEW w \in Workers, NEW v \in Workers, Takes(w), v # w,
               worker'[v].run = worker'[w].run
        PROVE  FALSE
    <3>1. PICK r \in RunIds : worker'[w].run = r /\ run[r].status = "queued" /\ run[r].due
      BY <2>1 DEF Takes
    <3>2. worker[v].run = r /\ r # NoRun
      BY <2>1, <3>1 DEF Takes, NoRun, RunIds, Q!RunIds
    <3>. QED
      BY <1>t, <3>1, <3>2 DEF HeldRow
  <2>. SUFFICES ASSUME NEW w \in Workers, NEW v \in Workers, worker'[w].run = worker'[v].run,
                       worker'[w].run # NoRun
                PROVE  w = v
    BY DEF OneWorkerPerRun
  <2>2. CASE Takes(w) \/ Takes(v)
    BY <2>1, <2>2
  <2>3. CASE ~Takes(w) /\ ~Takes(v)
    BY <1>t, <1>3, <2>3, HeldBefore DEF OneWorkerPerRun
  <2>. QED
    BY <2>2, <2>3
<1>. QED
  BY <1>1, <1>2, <1>4, <1>5 DEF HoldInv

\* Types, queue and holdings together are an inductive invariant of the pool.
THEOREM HoldInvariant == PoolSpec => []HoldInv
<1>1. PoolInit => HeldRow /\ OneWorkerPerRun
  BY RestingTyped DEF PoolInit, HeldRow, OneWorkerPerRun
<1>2. PoolSpec => [](HeldRow /\ OneWorkerPerRun /\ QueueInv /\ PoolTypeInv)
  <2>1. QueueInv /\ PoolTypeInv /\ HeldRow /\ OneWorkerPerRun /\ [PoolNext]_poolVars
          => (HeldRow /\ OneWorkerPerRun)'
    BY StepKeepsHoldInv DEF HoldInv
  <2>. QED
    BY <1>1, <2>1, PoolInheritsQueue, PoolTypeInvariant, PTL DEF PoolSpec
<1>3. HeldRow /\ OneWorkerPerRun /\ QueueInv /\ PoolTypeInv => HoldInv
  BY DEF HoldInv
<1>. QED
  BY <1>2, <1>3, PTL

\* No run is ever in the hands of two workers, whatever is requeued for a retry,
\* taken by the stale scan, cancelled or recovered meanwhile (the maps of the pool
\* are keyed by run id).
THEOREM NoSharedRun == PoolSpec => []OneWorkerPerRun
<1>1. HoldInv => OneWorkerPerRun
  BY DEF HoldInv
<1>. QED
  BY <1>1, HoldInvariant, PTL
-----------------------------------------------------------------------------
(* Why a run was cancelled                                                 *)

\* A context ended by a user belongs to a run a user asked to cancel, one ended by
\* the server's own context to a server that was told to stop; nothing else passes
\* for a cancel.
CauseInv ==
  /\ \A w \in Workers :
       /\ worker[w].cause = "user" => worker[w].run \in asked
       /\ worker[w].cause = "parent" => stops > 0
       /\ worker[w].cause # "shutdown"
       /\ worker[w].result = "cancelled" => worker[w].cause # "none"
       /\ worker[w].pc = "preparing" => worker[w].cause = "none" /\ worker[w].result # "cancelled"
  /\ pend \subseteq asked
  /\ \A h \in Cancellers : can[h].pc = "fallback" => can[h].run \in asked
  /\ server # "up" => stops > 0

\* What a step does to the requests: they are only added to, a pending cancel or a
\* handler's fallback follows one, and the server does not stop unasked.
LEMMA StepAsked ==
  ASSUME PoolTypeInv, [PoolNext]_poolVars
  PROVE  /\ asked \subseteq asked' /\ pend' \subseteq pend \cup asked'
         /\ \A h \in Cancellers : can'[h].pc = "fallback" =>
                can'[h] = can[h] \/ can'[h].run \in asked'
         /\ stops' >= stops /\ (server' # "up" => server # "up" \/ stops' > 0)
<1>t. /\ CancelTypeOK /\ ServerTypeOK /\ stops \in Nat /\ stops >= stops
  BY PoolAssumption DEF PoolTypeInv, ServerTypeOK
<1>. DEFINE A == /\ asked \subseteq asked' /\ pend' \subseteq pend \cup asked'
                 /\ \A h \in Cancellers : can'[h].pc = "fallback" =>
                        can'[h] = can[h] \/ can'[h].run \in asked'
                 /\ stops' >= stops /\ (server' # "up" => server # "up" \/ stops' > 0)
<1>. USE DEF CancelSide, ServerSide
<1>1. ASSUME NEW w \in Workers, Claim(w) \/ WorkerStep(w) \/ Deadline(w) \/ Heartbeat(w)
      PROVE  A
  <2>1. UNCHANGED <<can, asked, stops, server>> /\ pend' \subseteq pend
    BY <1>1 DEF Claim, WorkerStep, CancelClaimed, PrepareLost, Register, StartProcess, StartError,
                RecordProcess, ProcessExit, FinishRun, Cleanup, Panic, PanicFail, Deadline,
                Heartbeat
  <2>. QED
    BY <1>t, <2>1
<1>2. ASSUME \/ \E r \in RunIds : Age(r) \/ StrayExit(r) \/ RetryDue(r)
             \/ CancelStaleActiveRuns \/ RecoverStaleRuns \/ UserEnqueues
             \/ UserSwitchesWorktree \/ UNCHANGED poolVars
      PROVE  A
  <2>1. UNCHANGED <<can, asked, stops, server, pend>>
    BY <1>2 DEF Age, StrayExit, RetryDue, CancelStaleActiveRuns, RecoverStaleRuns,
                UserEnqueues, UserSwitchesWorktree, poolVars
  <2>. QED
    BY <1>t, <2>1
<1>3. ASSUME NEW h \in Cancellers, NEW i \in Issues, CancelIssueRun(h, i) PROVE A
  <2>1. PICK r : can' = [can EXCEPT ![h] = [pc |-> "intent", run |-> r, chain |-> NoRun]]
    BY <1>3 DEF CancelIssueRun
  <2>. QED
    BY <1>t, <1>3, <2>1 DEF CancelIssueRun, CancelTypeOK
<1>4. ASSUME NEW h \in Cancellers, NEW c \in RunIds, CancelChain(h, c) PROVE A
  <2>1. PICK r : can' = [can EXCEPT ![h] = [pc |-> "wake", run |-> r, chain |-> c]]
    BY <1>4 DEF CancelChain
  <2>. QED
    BY <1>t, <1>4, <2>1 DEF CancelChain, CancelTypeOK
<1>5. ASSUME NEW h \in Cancellers, CancelIntent(h) PROVE A
  <2>1. /\ asked' = asked \cup {can[h].run} /\ pend' \subseteq pend \cup {can[h].run}
        /\ UNCHANGED <<stops, server>>
    BY <1>5 DEF CancelIntent, PoolCancelRun
  <2>2. CASE can' = [can EXCEPT ![h] = NoCancel]
    BY <1>t, <2>1, <2>2 DEF CancelTypeOK, NoCancel
  <2>3. CASE can' = [can EXCEPT ![h] = [@ EXCEPT !.pc = "fallback"]]
    BY <1>t, <2>1, <2>3 DEF CancelTypeOK
  <2>. QED
    BY <1>5, <2>2, <2>3 DEF CancelIntent
<1>6. ASSUME NEW h \in Cancellers, CancelFallback(h) \/ ChainSweep(h) PROVE A
  <2>1. /\ asked \subseteq asked' /\ pend' \subseteq pend /\ UNCHANGED <<stops, server>>
        /\ can' = [can EXCEPT ![h] = NoCancel]
    BY <1>6 DEF CancelFallback, ChainSweep
  <2>. QED
    BY <1>t, <2>1 DEF CancelTypeOK, NoCancel
<1>7. ASSUME NEW h \in Cancellers, ChainWake(h) PROVE A
  <2>1. /\ asked \subseteq asked' /\ pend' \subseteq pend \cup asked' /\ UNCHANGED <<stops, server>>
        /\ can' = [can EXCEPT ![h].pc = "sweep"]
    BY <1>7 DEF ChainWake, PoolCancelRun
  <2>. QED
    BY <1>t, <2>1 DEF CancelTypeOK
<1>8. ASSUME Signal PROVE A
  BY <1>t, <1>8 DEF Signal
<1>9. ASSUME GracefulExit \/ Crash PROVE A
  <2>1. can' = [h \in Cancellers |-> NoCancel] /\ pend' = {} /\ UNCHANGED asked /\ server' = "down"
    BY <1>9 DEF GracefulExit, Crash, MemoryLost
  <2>2. stops' >= stops /\ (server # "up" \/ stops' > 0)
    BY <1>t, <1>9 DEF GracefulExit, Crash
  <2>. QED
    BY <1>t, <2>1, <2>2 DEF NoCancel
<1>10. ASSUME Restart PROVE A
  BY <1>t, <1>10 DEF Restart
<1>. QED
  BY <1>1, <1>2, <1>3, <1>4, <1>5, <1>6, <1>7, <1>8, <1>9, <1>10 DEF PoolNext, CancelStep

\* What a step writes into cancel_reason, always with the end of an active row.
WhyMove(r) ==
  \/ why'[r] = why[r]
  \/ /\ run[r].status \in Q!Active
     /\ \/ why'[r] \in {"stale", "orphan"}
        \/ /\ why'[r] = "user"
           /\ r \in asked' \/ \E h \in Cancellers : can[h].pc = "fallback" /\ can[h].run = r
        \/ \E w \in Workers : /\ worker[w].run = r /\ worker[w].pc = "exited"
                              /\ worker[w].result = "cancelled"
                              /\ why'[r] = CancelReasonFromCause(worker[w].cause)

\* Every step writes no other reason.
LEMMA StepWhyMoves ==
  QueueInv /\ PoolTypeInv /\ [PoolNext]_poolVars => \A r \in RunIds : WhyMove(r)
<1>. SUFFICES ASSUME QueueInv, PoolTypeInv, [PoolNext]_poolVars, NEW r \in RunIds PROVE WhyMove(r)
  OBVIOUS
<1>t. WorkerTypeOK /\ CancelTypeOK /\ MarkTypeOK /\ why \in [RunIds -> Reasons]
  BY DEF PoolTypeInv, MarkTypeOK
<1>1. ASSUME NEW w \in Workers, FinishRun(w) PROVE WhyMove(r)
  <2>1. CASE FinishCancelled(w)
    <3>1. /\ why' = [why EXCEPT ![worker[w].run] = CancelReasonFromCause(worker[w].cause)]
          /\ worker[w].result = "cancelled" /\ run[worker[w].run].status \in Q!Active
      BY <2>1 DEF FinishCancelled, Q!CancelRunWithReason
    <3>2. worker[w].pc = "exited"
      BY <1>1 DEF FinishRun
    <3>. QED
      BY <1>t, <3>1, <3>2 DEF WhyMove
  <2>2. CASE ~FinishCancelled(w)
    BY <1>1, <2>2 DEF FinishRun, FinishRetried, FinishConflict, FinishCompleted, FinishIgnored,
                      RowMarks, WhyMove
  <2>. QED
    BY <2>1, <2>2
<1>2. ASSUME RecoverStaleRuns PROVE WhyMove(r)
  BY <1>2 DEF RecoverStaleRuns, WhyMove, Q!With, Q!Active
<1>3. ASSUME NEW h \in Cancellers, CancelFallback(h) PROVE WhyMove(r)
  BY <1>t, <1>3 DEF CancelFallback, WhyMove
<1>4. ASSUME NEW h \in Cancellers, ChainSweep(h) PROVE WhyMove(r)
  BY <1>4 DEF ChainSweep, WhyMove, Q!ActiveRows
<1>5. ASSUME Restart PROVE WhyMove(r)
  BY <1>5 DEF Restart, WhyMove, Q!Active
<1>6. ASSUME NEW w \in Workers,
             \/ Claim(w) \/ CancelClaimed(w) \/ PrepareLost(w) \/ Register(w) \/ StartProcess(w)
             \/ StartError(w) \/ RecordProcess(w) \/ ProcessExit(w) \/ Cleanup(w) \/ Panic(w)
             \/ PanicFail(w) \/ Deadline(w) \/ Heartbeat(w)
      PROVE  UNCHANGED why
  BY <1>6 DEF Claim, CancelClaimed, PrepareLost, Register, StartProcess, StartError,
              RecordProcess, ProcessExit, Cleanup, Panic, PanicFail, Deadline, Heartbeat, RowMarks
<1>7. ASSUME \/ \E q \in RunIds : Age(q) \/ StrayExit(q) \/ RetryDue(q)
             \/ CancelStaleActiveRuns
             \/ \E h \in Cancellers, i \in Issues : CancelIssueRun(h, i)
             \/ \E h \in Cancellers, c \in RunIds : CancelChain(h, c)
             \/ \E h \in Cancellers : CancelIntent(h) \/ ChainWake(h)
             \/ Signal \/ GracefulExit \/ Crash
             \/ UserEnqueues \/ UserSwitchesWorktree \/ UNCHANGED poolVars
      PROVE  UNCHANGED why
  BY <1>7 DEF Age, StrayExit, RetryDue, CancelStaleActiveRuns, CancelIssueRun, CancelChain,
              CancelIntent, ChainWake, Signal, GracefulExit, Crash, UserEnqueues,
              UserSwitchesWorktree, RowMarks, poolVars
<1>. QED
  BY <1>1, <1>2, <1>3, <1>4, <1>5, <1>6, <1>7 DEF PoolNext, WorkerStep, CancelStep, WhyMove

ReasonInv == CauseInv /\ UserReasonIsUsers

\* Every step keeps the causes and the reasons honest.
LEMMA StepKeepsReasonInv == HoldInv /\ ReasonInv /\ [PoolNext]_poolVars => ReasonInv'
<1>. SUFFICES ASSUME HoldInv, ReasonInv, [PoolNext]_poolVars PROVE ReasonInv'
  OBVIOUS
<1>t. QueueInv /\ PoolTypeInv /\ CauseInv /\ UserReasonIsUsers /\ WorkerTypeOK /\ ServerTypeOK
  BY DEF HoldInv, PoolTypeInv, ReasonInv
<1>n. stops \in Nat /\ stops' \in Nat
  BY <1>t, PoolAssumption, StepServerTypes DEF ServerTypeOK
<1>1. /\ \A w \in Workers : WorkerMove(w)
      /\ \A r \in RunIds : WhyMove(r)
  BY <1>t, StepWorkerMoves, StepWhyMoves
<1>2. /\ asked \subseteq asked' /\ pend' \subseteq pend \cup asked'
      /\ \A h \in Cancellers : can'[h].pc = "fallback" =>
             can'[h] = can[h] \/ can'[h].run \in asked'
      /\ stops' >= stops /\ (server' # "up" => server # "up" \/ stops' > 0)
  BY <1>t, StepAsked
<1>3. stops > 0 => stops' > 0
  BY <1>n, <1>2
<1>4. ASSUME NEW w \in Workers
      PROVE  /\ worker'[w].cause = "user" => worker'[w].run \in asked'
             /\ worker'[w].cause = "parent" => stops' > 0
             /\ worker'[w].cause # "shutdown"
             /\ worker'[w].result = "cancelled" => worker'[w].cause # "none"
             /\ worker'[w].pc = "preparing" =>
                  worker'[w].cause = "none" /\ worker'[w].result # "cancelled"
  <2>1. CASE worker'[w] = worker[w] \/ Takes(w) \/ Rests(w) \/ Proceeds(w)
    BY <1>t, <1>2, <1>3, <2>1 DEF CauseInv, Takes, Rests, Proceeds
  <2>2. CASE Registers(w)
    BY <1>t, <1>2, <1>3, <2>2 DEF CauseInv, Registers
  <2>3. CASE EndsContext(w)
    BY <1>t, <1>2, <1>3, <2>3 DEF CauseInv, EndsContext, InCancels
  <2>. QED
    BY <1>1, <2>1, <2>2, <2>3 DEF WorkerMove
<1>5. CauseInv'
  BY <1>t, <1>2, <1>3, <1>4 DEF CauseInv
<1>6. UserReasonIsUsers'
  <2>. SUFFICES ASSUME stops' = 0, NEW r \in RunIds, why'[r] = "user" PROVE r \in asked'
    BY DEF UserReasonIsUsers
  <2>1. stops = 0
    BY <1>n, <1>3
  <2>2. CASE why'[r] = why[r]
    BY <1>t, <1>2, <2>1, <2>2 DEF UserReasonIsUsers
  <2>3. CASE \E h \in Cancellers : can[h].pc = "fallback" /\ can[h].run = r
    BY <1>t, <1>2, <2>3 DEF CauseInv
  <2>4. ASSUME NEW w \in Workers, worker[w].run = r, worker[w].result = "cancelled",
               why'[r] = CancelReasonFromCause(worker[w].cause)
        PROVE  r \in asked'
    <3>1. worker[w].cause \in Causes /\ worker[w].cause \notin {"none", "parent", "shutdown", "stale"}
      BY <1>t, <2>1, <2>4 DEF CauseInv, WorkerTypeOK, WorkerRec, CancelReasonFromCause
    <3>. QED
      BY <1>t, <1>2, <2>4, <3>1 DEF CauseInv, Causes
  <2>. QED
    BY <1>1, <2>2, <2>3, <2>4 DEF WhyMove
<1>. QED
  BY <1>5, <1>6 DEF ReasonInv

\* As long as the server is not stopped, cancel_reason='user' is written only for runs
\* a user asked to cancel, whatever the stale scan and the shutdown end.
THEOREM UserReasonHonest == PoolSpec => []UserReasonIsUsers
<1>1. PoolInit => ReasonInv
  BY RestingTyped DEF PoolInit, ReasonInv, CauseInv, UserReasonIsUsers, NoCancel
<1>2. ReasonInv => UserReasonIsUsers
  BY DEF ReasonInv
<1>. QED
  BY <1>1, <1>2, StepKeepsReasonInv, HoldInvariant, PTL DEF PoolSpec
-----------------------------------------------------------------------------
(* The stale scan, and the processes a stopped server leaves behind        *)

\* While the server is down nothing of it is in memory.
DownInv ==
  server = "down" => /\ \A w \in Workers : worker[w].run = NoRun
                     /\ \A h \in Cancellers : can[h].pc = "idle"
                     /\ scan = {}

\* With preparations shorter than staleAfter, the scan never takes the row of a run
\* that a worker prepares or drives.
ScanInv ==
  \A w \in Workers :
    /\ worker[w].pc = "preparing" => worker[w].run \notin dbOld \cup scan
    /\ InCancels(w) => worker[w].run \notin scan

\* A down server is only restarted; processes end and retries become due.
LEMMA DownSteps ==
  ASSUME PoolTypeInv, DownInv, [PoolNext]_poolVars, server = "down"
  PROVE  Restart \/ (\E r \in RunIds : StrayExit(r) \/ RetryDue(r)) \/ UNCHANGED poolVars
<1>t. WorkerTypeOK
  BY DEF PoolTypeInv
<1>1. /\ \A w \in Workers : worker[w].pc \in {"idle", "off"}
      /\ \A h \in Cancellers : can[h].pc = "idle"
      /\ scan = {}
  BY <1>t DEF DownInv, WorkerTypeOK
<1>2. ~ \E w \in Workers : WorkerStep(w) \/ Deadline(w)
  BY <1>1 DEF WorkerStep, CancelClaimed, PrepareLost, Register, StartProcess, StartError,
              RecordProcess, ProcessExit, FinishRun, Cleanup, Panic, PanicFail, Deadline, Alive
<1>3. ~ \E w \in Workers : Claim(w) \/ Heartbeat(w)
  BY DEF Claim, Heartbeat
<1>4. ~ \E h \in Cancellers : CancelStep(h)
  BY <1>1 DEF CancelStep, CancelIntent, CancelFallback, ChainWake, ChainSweep
<1>5. /\ ~ \E h \in Cancellers, i \in Issues : CancelIssueRun(h, i)
      /\ ~ \E h \in Cancellers, c \in RunIds : CancelChain(h, c)
      /\ ~ \E r \in RunIds : Age(r)
      /\ ~CancelStaleActiveRuns /\ ~Signal /\ ~UserEnqueues /\ ~UserSwitchesWorktree
  BY DEF CancelIssueRun, CancelChain, Age, CancelStaleActiveRuns, Signal, UserEnqueues,
         UserSwitchesWorktree
<1>6. ~RecoverStaleRuns /\ ~GracefulExit /\ ~Crash
  BY <1>1 DEF RecoverStaleRuns, GracefulExit, Crash
<1>. QED
  BY <1>2, <1>3, <1>4, <1>5, <1>6 DEF PoolNext

\* Only an exit or a crash takes the server down.
LEMMA GoingDown ==
  ASSUME PoolTypeInv, [PoolNext]_poolVars, server' = "down", server # "down"
  PROVE  GracefulExit \/ Crash
<1>1. ASSUME NEW w \in Workers, Claim(w) \/ WorkerStep(w) \/ Deadline(w) \/ Heartbeat(w)
      PROVE  FALSE
  BY <1>1 DEF Claim, WorkerStep, CancelClaimed, PrepareLost, Register, StartProcess, StartError,
              RecordProcess, ProcessExit, FinishRun, Cleanup, Panic, PanicFail, Deadline,
              Heartbeat, ServerSide
<1>2. ASSUME \/ \E r \in RunIds : Age(r) \/ StrayExit(r) \/ RetryDue(r)
             \/ CancelStaleActiveRuns \/ RecoverStaleRuns
             \/ \E h \in Cancellers, i \in Issues : CancelIssueRun(h, i)
             \/ \E h \in Cancellers, c \in RunIds : CancelChain(h, c)
             \/ \E h \in Cancellers : CancelStep(h)
             \/ UserEnqueues \/ UserSwitchesWorktree \/ Signal \/ Restart \/ UNCHANGED poolVars
      PROVE  FALSE
  BY <1>2 DEF Age, StrayExit, RetryDue, CancelStaleActiveRuns, RecoverStaleRuns, CancelIssueRun,
              CancelChain, CancelStep, CancelIntent, CancelFallback, ChainWake, ChainSweep,
              UserEnqueues, UserSwitchesWorktree, Signal, Restart, ServerSide, poolVars
<1>. QED
  BY <1>1, <1>2 DEF PoolNext

\* Every step that takes the server down clears its memory, and nothing fills it until Start.
LEMMA StepKeepsDownInv == PoolTypeInv /\ DownInv /\ [PoolNext]_poolVars => DownInv'
<1>. SUFFICES ASSUME PoolTypeInv, DownInv, [PoolNext]_poolVars, server' = "down" PROVE DownInv'
  BY DEF DownInv
<1>1. CASE server = "down"
  <2>1. UNCHANGED <<worker, can, scan>>
    <3>1. Restart => server' = "up"
      BY DEF Restart
    <3>2. (\E r \in RunIds : StrayExit(r) \/ RetryDue(r)) \/ UNCHANGED poolVars
      BY <1>1, <3>1, DownSteps
    <3>. QED
      BY <3>2 DEF StrayExit, RetryDue, CancelSide, Ageing, poolVars
  <2>. QED
    BY <1>1, <2>1 DEF DownInv
<1>2. CASE server # "down"
  <2>1. /\ worker' = [w \in Workers |-> Resting("off")] /\ scan' = {}
        /\ can' = [h \in Cancellers |-> NoCancel]
    BY <1>2, GoingDown DEF GracefulExit, Crash, MemoryLost
  <2>. QED
    BY <2>1, RestingTyped DEF DownInv, NoCancel
<1>. QED
  BY <1>1, <1>2

\* What a step does to the ages: the scan in flight shrinks or a new one leaves out
\* what is registered; a heartbeat is fresh, or the age of one row passes the limit.
ScanMove ==
  \/ scan' \subseteq scan
  \/ /\ scan' \subseteq dbOld \ Registered
     /\ \A w \in Workers : worker'[w].pc = worker[w].pc /\ worker'[w].run = worker[w].run

AgeMove ==
  \/ dbOld' \subseteq dbOld
  \/ /\ UNCHANGED worker
     /\ \E q \in RunIds :
          /\ dbOld' = dbOld \cup {q}
          /\ \A w \in Workers : worker[w].run = q =>
               worker[w].pc # "preparing" \/ "prepare" \in Slow

\* Every step moves the scan and the ages in one of those ways.
LEMMA StepAges == PoolTypeInv /\ [PoolNext]_poolVars => ScanMove /\ AgeMove
<1>. SUFFICES ASSUME PoolTypeInv, [PoolNext]_poolVars PROVE ScanMove /\ AgeMove
  OBVIOUS
<1>t. WorkerTypeOK
  BY DEF PoolTypeInv
<1>1. ASSUME NEW w \in Workers, Claim(w) \/ WorkerStep(w) \/ Deadline(w) \/ Heartbeat(w)
      PROVE  scan' \subseteq scan /\ dbOld' \subseteq dbOld
  BY <1>1 DEF Claim, WorkerStep, CancelClaimed, PrepareLost, Register, StartProcess, StartError,
              RecordProcess, ProcessExit, FinishRun, Cleanup, Panic, PanicFail, Deadline,
              Heartbeat, FreshHeartbeat, Ageing
<1>2. ASSUME NEW q \in RunIds, Age(q) PROVE ScanMove /\ AgeMove
  BY <1>2 DEF Age, ScanMove, AgeMove
<1>3. ASSUME CancelStaleActiveRuns PROVE ScanMove /\ AgeMove
  <2>1. \A w \in Workers : worker'[w].pc = worker[w].pc /\ worker'[w].run = worker[w].run
    BY <1>t, <1>3 DEF CancelStaleActiveRuns, CancelContexts, Cancelled, WorkerTypeOK, WorkerRec
  <2>. QED
    BY <1>3, <2>1 DEF CancelStaleActiveRuns, ScanMove, AgeMove
<1>4. ASSUME \/ \E r \in RunIds : StrayExit(r) \/ RetryDue(r)
             \/ RecoverStaleRuns
             \/ \E h \in Cancellers, i \in Issues : CancelIssueRun(h, i)
             \/ \E h \in Cancellers, c \in RunIds : CancelChain(h, c)
             \/ \E h \in Cancellers : CancelStep(h)
             \/ Signal \/ GracefulExit \/ Crash \/ Restart
             \/ UserEnqueues \/ UserSwitchesWorktree \/ UNCHANGED poolVars
      PROVE  scan' \subseteq scan /\ dbOld' \subseteq dbOld
  BY <1>4 DEF StrayExit, RetryDue, RecoverStaleRuns, CancelIssueRun, CancelChain, CancelStep,
              CancelIntent, CancelFallback, ChainWake, ChainSweep, Signal, GracefulExit, Crash,
              MemoryLost, Restart, UserEnqueues, UserSwitchesWorktree, Ageing, poolVars
<1>. QED
  BY <1>1, <1>2, <1>3, <1>4 DEF PoolNext, ScanMove, AgeMove

\* Every step keeps the scan away from the runs of the workers.
LEMMA StepKeepsScanInv ==
  ASSUME "prepare" \notin Slow, HoldInv, ScanInv, [PoolNext]_poolVars
  PROVE  ScanInv'
<1>1. ScanMove /\ AgeMove /\ \A w \in Workers : WorkerMove(w)
  BY StepAges, StepWorkerMoves DEF HoldInv
<1>. SUFFICES ASSUME NEW w \in Workers
              PROVE  /\ worker'[w].pc = "preparing" => worker'[w].run \notin dbOld' \cup scan'
                     /\ InCancels(w)' => worker'[w].run \notin scan'
  BY DEF ScanInv
<1>2. CASE worker'[w].pc = worker[w].pc /\ worker'[w].run = worker[w].run
  <2>1. InCancels(w) => worker[w].run \in Registered
    BY DEF Registered
  <2>2. worker[w].pc = "preparing" => worker[w].run \notin dbOld'
    BY <1>1 DEF AgeMove, ScanInv
  <2>. QED
    BY <1>1, <1>2, <2>1, <2>2 DEF ScanMove, ScanInv, InCancels
<1>3. CASE Takes(w) \/ Rests(w)
  BY <1>3 DEF Takes, Rests, InCancels
<1>4. CASE Registers(w)
  BY <1>4 DEF Registers, ScanInv, InCancels
<1>5. CASE Proceeds(w) /\ worker'[w].pc # worker[w].pc
  BY <1>1, <1>5 DEF Proceeds, ScanInv, ScanMove, InCancels
<1>. QED
  BY <1>1, <1>2, <1>3, <1>4, <1>5 DEF WorkerMove, EndsContext, Proceeds

\* While a run is prepared or driven its row is running, unless a user cancelled it.
DrivenRow ==
  \A w \in Workers :
    worker[w].pc \in {"preparing", "registered", "started", "executing"} =>
      \/ run[worker[w].run].status = "running"
      \/ run[worker[w].run].status \in Q!Terminal /\ why[worker[w].run] = "user"

\* A process outlives only a server that is down or a run that has ended; one whose
\* group is recorded is dealt with, unless a user had cancelled its row.
StrayInv ==
  \A r \in RunIds : stray[r] # "none" =>
    /\ run[r].status \in Q!Terminal \/ (server = "down" /\ run[r].status = "running")
    /\ r \in recorded /\ stray[r] = "loose" =>
         why[r] = "user" \/ (server = "down" /\ run[r].status = "running")

\* No step but a user's cancel ends the row of a run that is prepared or driven.
LEMMA StepKeepsDrivenRow ==
  ASSUME HoldInv, DownInv, ScanInv, DrivenRow, [PoolNext]_poolVars
  PROVE  DrivenRow'
<1>t. WorkerTypeOK /\ OneWorkerPerRun /\ QueueInv /\ PoolTypeInv
  BY DEF HoldInv, PoolTypeInv
<1>1. /\ \A r \in RunIds : RowMove(r) /\ WhyMove(r)
      /\ \A w \in Workers : WorkerMove(w)
  BY <1>t, StepRowMoves, StepWhyMoves, StepWorkerMoves
<1>. DEFINE Driven == {"preparing", "registered", "started", "executing"}
<1>. SUFFICES ASSUME NEW w \in Workers, worker'[w].pc \in Driven
              PROVE  \/ run'[worker'[w].run].status = "running"
                     \/ run'[worker'[w].run].status \in Q!Terminal /\ why'[worker'[w].run] = "user"
  BY DEF DrivenRow
<1>2. CASE Takes(w)
  BY <1>2 DEF Takes
<1>3. CASE ~Takes(w)
  <2>1. worker[w].pc \in Driven /\ worker'[w].run = worker[w].run
    BY <1>1, <1>3 DEF WorkerMove, Rests, Registers, Proceeds, EndsContext
  <2>2. PICK r \in RunIds : r = worker[w].run /\ r # NoRun
    BY <1>t, <2>1, BusyWorker
  <2>3. \/ run[r].status = "running"
        \/ run[r].status \in Q!Terminal /\ why[r] = "user"
    BY <2>1, <2>2 DEF DrivenRow
  <2>4. \A v \in Workers : worker[v].run = r => v = w
    BY <1>t, <2>2 DEF OneWorkerPerRun
  <2>5. server # "down" /\ r \notin scan
    BY <2>1, <2>2 DEF DownInv, ScanInv, InCancels
  <2>6. RowMove(r) /\ WhyMove(r)
    BY <1>1
  <2>7. EndedBy(r) => why'[r] = "user"
    BY <2>4, <2>5 DEF EndedBy
  <2>8. ~RowRequeued(r)
    BY <2>1, <2>4 DEF RowRequeued
  <2>9. CASE run'[r] = run[r]
    BY <2>2, <2>1, <2>3, <2>6, <2>9 DEF WhyMove, Q!Active, Q!Terminal
  <2>10. CASE RowEnds(r)
    BY <2>1, <2>2, <2>7, <2>10 DEF RowEnds
  <2>. QED
    BY <2>3, <2>6, <2>8, <2>9, <2>10 DEF RowMove, RowClaimed, RowDue, RowEnters, Q!Terminal
<1>. QED
  BY <1>2, <1>3

\* A process group is recorded for a running row.
LEMMA StepRecords ==
  ASSUME PoolTypeInv, [PoolNext]_poolVars, NEW r \in recorded'
  PROVE  r \in recorded \/ run[r].status = "running"
<1>1. ASSUME NEW w \in Workers, Claim(w) \/ WorkerStep(w) \/ Deadline(w) \/ Heartbeat(w)
      PROVE  r \in recorded \/ run[r].status = "running"
  BY <1>1 DEF Claim, WorkerStep, CancelClaimed, PrepareLost, Register, StartProcess, StartError,
              RecordProcess, ProcessExit, FinishRun, FinishCancelled, FinishRetried,
              FinishConflict, FinishCompleted, FinishIgnored, Cleanup, Panic, PanicFail, Deadline,
              Heartbeat, RowMarks
<1>2. ASSUME \/ \E q \in RunIds : Age(q) \/ StrayExit(q) \/ RetryDue(q)
             \/ CancelStaleActiveRuns \/ RecoverStaleRuns
             \/ \E h \in Cancellers, i \in Issues : CancelIssueRun(h, i)
             \/ \E h \in Cancellers, c \in RunIds : CancelChain(h, c)
             \/ \E h \in Cancellers : CancelStep(h)
             \/ Signal \/ GracefulExit \/ Crash \/ Restart
             \/ UserEnqueues \/ UserSwitchesWorktree \/ UNCHANGED poolVars
      PROVE  UNCHANGED recorded
  BY <1>2 DEF Age, StrayExit, RetryDue, CancelStaleActiveRuns, RecoverStaleRuns, CancelIssueRun,
              CancelChain, CancelStep, CancelIntent, CancelFallback, ChainWake, ChainSweep, Signal,
              GracefulExit, Crash, Restart, UserEnqueues, UserSwitchesWorktree, RowMarks, poolVars
<1>. QED
  BY <1>1, <1>2 DEF PoolNext

\* Only a crash leaves a process behind; the start-up or its exit change its fate.
LEMMA StepStrays ==
  ASSUME PoolTypeInv, [PoolNext]_poolVars, ~Crash, ~Restart, NEW r \in RunIds
  PROVE  stray'[r] = stray[r] \/ stray'[r] = "none"
<1>t. stray \in [RunIds -> Strays]
  BY DEF PoolTypeInv, ServerTypeOK
<1>1. ASSUME NEW w \in Workers, Claim(w) \/ WorkerStep(w) \/ Deadline(w) \/ Heartbeat(w)
      PROVE  UNCHANGED stray
  BY <1>1 DEF Claim, WorkerStep, CancelClaimed, PrepareLost, Register, StartProcess, StartError,
              RecordProcess, ProcessExit, FinishRun, Cleanup, Panic, PanicFail, Deadline,
              Heartbeat, ServerSide
<1>2. ASSUME \/ \E q \in RunIds : Age(q) \/ RetryDue(q)
             \/ CancelStaleActiveRuns \/ RecoverStaleRuns
             \/ \E h \in Cancellers, i \in Issues : CancelIssueRun(h, i)
             \/ \E h \in Cancellers, c \in RunIds : CancelChain(h, c)
             \/ \E h \in Cancellers : CancelStep(h)
             \/ Signal \/ GracefulExit
             \/ UserEnqueues \/ UserSwitchesWorktree \/ UNCHANGED poolVars
      PROVE  UNCHANGED stray
  BY <1>2 DEF Age, RetryDue, CancelStaleActiveRuns, RecoverStaleRuns, CancelIssueRun,
              CancelChain, CancelStep, CancelIntent, CancelFallback, ChainWake, ChainSweep, Signal,
              GracefulExit, UserEnqueues, UserSwitchesWorktree, ServerSide, poolVars
<1>3. ASSUME NEW q \in RunIds, StrayExit(q) PROVE stray'[r] = stray[r] \/ stray'[r] = "none"
  BY <1>t, <1>3 DEF StrayExit
<1>. QED
  BY <1>1, <1>2, <1>3 DEF PoolNext

\* A process becomes stray only as its server goes down or its run ends, and the start-up
\* check deals with the recorded ones.
LEMMA StepKeepsStrayInv ==
  ASSUME HoldInv, DownInv, DrivenRow, StrayInv, [PoolNext]_poolVars
  PROVE  StrayInv'
<1>t. WorkerTypeOK /\ QueueInv /\ PoolTypeInv
  BY DEF HoldInv, PoolTypeInv
<1>1. \A r \in RunIds : RowMove(r) /\ WhyMove(r)
  BY <1>t, StepRowMoves, StepWhyMoves
<1>. SUFFICES ASSUME NEW r \in RunIds, stray'[r] # "none"
              PROVE  /\ run'[r].status \in Q!Terminal \/ (server' = "down" /\ run'[r].status = "running")
                     /\ r \in recorded' /\ stray'[r] = "loose" =>
                          why'[r] = "user" \/ (server' = "down" /\ run'[r].status = "running")
  BY DEF StrayInv
<1>2. CASE Crash
  <2>1. /\ UNCHANGED <<run, recorded, why>> /\ server # "down" /\ server' = "down"
        /\ stray'[r] = IF \E w \in Workers : Alive(w) /\ worker[w].run = r
                       THEN "loose" ELSE stray[r]
    BY <1>2 DEF Crash, MemoryLost, QueueSide, queueVars, RowMarks
  <2>2. CASE \E w \in Workers : Alive(w) /\ worker[w].run = r
    BY <2>1, <2>2 DEF Alive, DrivenRow
  <2>3. CASE ~ \E w \in Workers : Alive(w) /\ worker[w].run = r
    BY <2>1, <2>3 DEF StrayInv
  <2>. QED
    BY <2>2, <2>3
<1>3. CASE Restart
  <2>1. /\ server = "down" /\ UNCHANGED recorded
        /\ why' = [q \in RunIds |-> IF run[q].status = "running" THEN "orphan" ELSE why[q]]
        /\ stray'[r] = stray[r] \/ (r \in recorded /\ run[r].status = "running" /\ stray'[r] # "loose")
        /\ r \in recorded /\ run[r].status = "running" => stray'[r] # "loose"
        /\ stray[r] # "none"
    <3>1. PICK skip : stray' = [q \in RunIds |->
                        IF stray[q] = "none" \/ q \notin recorded \cap Q!With("running")
                          THEN stray[q]
                        ELSE IF q \in skip THEN "skipped" ELSE "signalled"]
      BY <1>3 DEF Restart, TerminateTrackedProcessGroups
    <3>2. r \in Q!With("running") <=> run[r].status = "running"
      BY DEF Q!With, RunIds
    <3>. QED
      BY <1>3, <3>1, <3>2 DEF Restart
  <2>2. run[r].status = "running" => run'[r].status = "cancelled"
    <3>1. PICK T \in SUBSET RunIds : T = Q!With("running")
      BY DEF Q!With, RunIds
    <3>2. T # {} => Q!SetStatus(T, "cancelled")
      BY <1>3, <3>1 DEF Restart, Q!RecoverOrphanRuns
    <3>3. \A q \in RunIds : q \in T <=> run[q].status = "running"
      BY <3>1 DEF Q!With, RunIds
    <3>. QED
      BY <1>t, <3>2, <3>3, SetStatusMoves DEF Q!Terminal, Q!Active
  <2>3. run[r].status \in Q!Terminal => run'[r].status \in Q!Terminal
    BY <1>1 DEF RowMove, RowEnds, RowClaimed, RowRequeued, RowDue, RowEnters, Q!Terminal, Q!Active
  <2>. QED
    BY <2>1, <2>2, <2>3 DEF StrayInv, Q!Terminal
<1>4. CASE ~Crash /\ ~Restart
  <2>1. stray'[r] = stray[r] /\ stray[r] # "none"
    BY <1>4, <1>t, StepStrays
  <2>2. CASE run[r].status \in Q!Terminal
    <3>1. run'[r].status \in Q!Terminal /\ why'[r] = why[r]
      BY <1>1, <2>2 DEF RowMove, RowEnds, RowClaimed, RowRequeued, RowDue, RowEnters, WhyMove,
                        Q!Terminal, Q!Active
    <3>2. r \in recorded' => r \in recorded
      BY <1>t, <2>2, StepRecords DEF Q!Terminal
    <3>. QED
      BY <2>1, <2>2, <3>1, <3>2 DEF StrayInv, Q!Terminal
  <2>3. CASE server = "down" /\ run[r].status = "running"
    <3>1. (\E q \in RunIds : StrayExit(q) \/ RetryDue(q)) \/ UNCHANGED poolVars
      BY <1>4, <1>t, <2>3, DownSteps
    <3>2. server' = "down"
      BY <2>3, <3>1 DEF StrayExit, RetryDue, ServerSide, poolVars
    <3>3. run'[r] = run[r]
      <4>1. ASSUME NEW q \in RunIds, RetryDue(q) PROVE run'[r] = run[r]
        <5>1. run[q].status = "queued" /\ run' = [run EXCEPT ![q].due = TRUE]
          BY <4>1 DEF RetryDue, Q!RetryDue
        <5>. QED
          BY <2>3, <5>1, <1>t, PoolRows
      <4>. QED
        BY <3>1, <4>1 DEF StrayExit, QueueSide, queueVars, poolVars
    <3>. QED
      BY <2>3, <3>2, <3>3
  <2>. QED
    BY <2>1, <2>2, <2>3 DEF StrayInv
<1>. QED
  BY <1>2, <1>3, <1>4

CrashInv == DownInv /\ ScanInv /\ DrivenRow /\ StrayInv

\* When preparations are shorter than staleAfter, a process that outlived the server
\* and whose group was recorded is dealt with by the next start-up, before the rows
\* are recovered; only one whose row a user had cancelled is overlooked.
THEOREM LeftoversSeen ==
  ASSUME "prepare" \notin Slow
  PROVE  PoolSpec => []TrackedProcessesSeen
<1>1. PoolInit => CrashInv
  BY RestingTyped DEF PoolInit, CrashInv, DownInv, ScanInv, DrivenRow, StrayInv, InCancels
<1>2. HoldInv /\ CrashInv /\ [PoolNext]_poolVars => CrashInv'
  BY StepKeepsDownInv, StepKeepsScanInv, StepKeepsDrivenRow, StepKeepsStrayInv
     DEF CrashInv, HoldInv
<1>3. HoldInv /\ CrashInv => TrackedProcessesSeen
  BY DEF HoldInv, PoolTypeInv, MarkTypeOK, CrashInv, StrayInv, TrackedProcessesSeen
<1>. QED
  BY <1>1, <1>2, <1>3, HoldInvariant, PTL DEF PoolSpec
-----------------------------------------------------------------------------
(* Cancel requests against live processes                                  *)

\* What a step does to the pending cancels, to the handlers and to claimed_at.
PendDrop(r) ==
  \/ server' = "down"
  \/ /\ UNCHANGED run
     /\ \E w \in Workers : /\ worker[w].run = r
                           /\ \A v \in Workers \ {w} : worker'[v] = worker[v]
                           /\ Registers(w) \/ Rests(w) \/ worker'[w].pc = "panicked"
  \/ r \notin claimed /\ run'[r].status \notin Q!Active /\ UNCHANGED worker

PendMove(r) ==
  /\ r \in pend /\ r \notin pend' => PendDrop(r)
  /\ r \notin pend /\ r \in pend' =>
       /\ r \notin Registered
       /\ \A w \in Workers : worker'[w].pc = worker[w].pc /\ worker'[w].run = worker[w].run

HandlerMove(h) ==
  \/ can'[h] = can[h]
  \/ can'[h].pc = "idle"
  \/ can'[h].pc = "intent" /\ run[can'[h].run].status \in Q!Active /\ UNCHANGED run
  \/ /\ can[h].pc = "intent" /\ can'[h].pc = "fallback"
     /\ can'[h].run = can[h].run /\ can[h].run \in pend'
  \/ can'[h].pc = "wake" /\ "chain" \in CancelKinds
  \/ can'[h].pc = "sweep" /\ can[h].pc = "wake"

ClaimedMove(r) ==
  r \in claimed /\ r \notin claimed' =>
    \E w \in Workers : worker[w].run = r /\ worker'[w].pc = "finished"

\* A cancel of run r ends the contexts of its worker and touches no other field.
LEMMA CancelRunMove ==
  ASSUME WorkerTypeOK, NEW r, PoolCancelRun(r)
  PROVE  /\ \A w \in Workers : worker'[w].pc = worker[w].pc /\ worker'[w].run = worker[w].run
         /\ pend \subseteq pend' /\ pend' \subseteq pend \cup ({r} \ Registered)
         /\ r \notin Registered => r \in pend'
<1>1. \A w \in Workers : worker'[w].pc = worker[w].pc /\ worker'[w].run = worker[w].run
  BY DEF PoolCancelRun, CancelContexts, Cancelled, WorkerTypeOK, WorkerRec
<1>. QED
  BY <1>1 DEF PoolCancelRun

\* Every step moves the pending cancel of a run in that way.
LEMMA StepPending ==
  ASSUME QueueInv, PoolTypeInv, [PoolNext]_poolVars, NEW r \in RunIds
  PROVE  PendMove(r)
<1>t. WorkerTypeOK /\ CancelTypeOK
  BY DEF PoolTypeInv
<1>m. \A w \in Workers : WorkerMove(w)
  BY StepWorkerMoves
<1>0. ASSUME UNCHANGED pend PROVE PendMove(r)
  BY <1>0 DEF PendMove
<1>1. ASSUME NEW w \in Workers, Register(w) \/ Cleanup(w) \/ Panic(w) PROVE PendMove(r)
  <2>1. pend' = pend \ {worker[w].run} /\ QueueSide
    BY <1>1 DEF Register, Cleanup, Panic
  <2>2. /\ worker' = [worker EXCEPT ![w] = worker'[w]]
        /\ worker'[w].pc \in {"registered", "idle", "off", "panicked"}
        /\ worker[w].pc \in {"preparing", "finished", "registered", "exited"}
        /\ worker'[w].pc = "registered" => worker[w].pc = "preparing"
    <3>1. CASE Register(w)
      BY <1>t, <3>1 DEF Register, WorkerTypeOK, WorkerRec
    <3>2. CASE Cleanup(w)
      <4>1. PICK x \in {"idle", "off"} : worker' = [worker EXCEPT ![w] = Resting(x)]
        BY <3>2 DEF Cleanup
      <4>2. worker'[w] = Resting(x)
        BY <1>t, <4>1 DEF WorkerTypeOK
      <4>. QED
        BY <3>2, <4>1, <4>2, RestingTyped DEF Cleanup
    <3>3. CASE Panic(w)
      BY <1>t, <3>3 DEF Panic, Step, WorkerTypeOK, WorkerRec
    <3>. QED
      BY <1>1, <3>1, <3>2, <3>3
  <2>3. \A v \in Workers \ {w} : worker'[v] = worker[v]
    BY <1>t, <2>2 DEF WorkerTypeOK
  <2>4. Registers(w) \/ Rests(w) \/ worker'[w].pc = "panicked"
    BY <1>m, <2>2 DEF WorkerMove, Takes, Proceeds, EndsContext, InCancels
  <2>. QED
    BY <2>1, <2>3, <2>4 DEF PendMove, PendDrop, QueueSide, queueVars
<1>2. ASSUME NEW h \in Cancellers, CancelIntent(h) \/ ChainWake(h) PROVE PendMove(r)
  <2>1. UNCHANGED pend \/ \E q : PoolCancelRun(q)
    BY <1>2 DEF CancelIntent, ChainWake
  <2>2. ASSUME NEW q, PoolCancelRun(q) PROVE PendMove(r)
    BY <1>t, <2>2, CancelRunMove DEF PendMove
  <2>. QED
    BY <1>0, <2>1, <2>2
<1>3. ASSUME NEW h \in Cancellers, CancelFallback(h) PROVE PendMove(r)
  <2>1. PICK q \in RunIds : q = can[h].run
    BY <1>t, <1>3 DEF CancelTypeOK, CancelFallback
  <2>2. /\ pend' = IF q \in claimed \cup Registered THEN pend ELSE pend \ {q}
        /\ UNCHANGED worker
        /\ IF run[q].status \in Q!Active THEN Q!CancelRunWithReason(q) ELSE QueueSide
    BY <1>3, <2>1 DEF CancelFallback
  <2>3. run'[q].status \notin Q!Active
    <3>1. CASE run[q].status \in Q!Active
      <4>1. Q!SetStatus({q}, "cancelled")
        BY <2>2, <3>1 DEF Q!CancelRunWithReason
      <4>. QED
        BY <3>1, <4>1, SetStatusMoves DEF Q!Terminal, Q!Active
    <3>2. CASE run[q].status \notin Q!Active
      BY <2>2, <3>2 DEF QueueSide, queueVars
    <3>. QED
      BY <3>1, <3>2
  <2>. QED
    BY <2>2, <2>3 DEF PendMove, PendDrop
<1>4. ASSUME GracefulExit \/ Crash PROVE PendMove(r)
  BY <1>4 DEF GracefulExit, Crash, MemoryLost, PendMove, PendDrop
<1>5. ASSUME NEW w \in Workers,
             \/ Claim(w) \/ CancelClaimed(w) \/ PrepareLost(w) \/ StartProcess(w)
             \/ StartError(w) \/ RecordProcess(w) \/ ProcessExit(w) \/ FinishRun(w)
             \/ PanicFail(w) \/ Deadline(w) \/ Heartbeat(w)
      PROVE  UNCHANGED pend
  BY <1>5 DEF Claim, CancelClaimed, PrepareLost, StartProcess, StartError, RecordProcess,
              ProcessExit, FinishRun, PanicFail, Deadline, Heartbeat
<1>6. ASSUME \/ \E q \in RunIds : Age(q) \/ StrayExit(q) \/ RetryDue(q)
             \/ CancelStaleActiveRuns \/ RecoverStaleRuns
             \/ \E h \in Cancellers, i \in Issues : CancelIssueRun(h, i)
             \/ \E h \in Cancellers, c \in RunIds : CancelChain(h, c)
             \/ \E h \in Cancellers : ChainSweep(h)
             \/ Signal \/ Restart \/ UserEnqueues \/ UserSwitchesWorktree \/ UNCHANGED poolVars
      PROVE  UNCHANGED pend
  BY <1>6 DEF Age, StrayExit, RetryDue, CancelStaleActiveRuns, RecoverStaleRuns, CancelIssueRun,
              CancelChain, ChainSweep, Signal, Restart, UserEnqueues, UserSwitchesWorktree, poolVars
<1>. QED
  BY <1>0, <1>1, <1>2, <1>3, <1>4, <1>5, <1>6 DEF PoolNext, WorkerStep, CancelStep

\* Every step moves a cancel handler in one of those ways.
LEMMA StepHandlers ==
  ASSUME QueueInv, PoolTypeInv, [PoolNext]_poolVars, NEW h \in Cancellers
  PROVE  HandlerMove(h)
<1>t. WorkerTypeOK /\ CancelTypeOK
  BY DEF PoolTypeInv
<1>0. ASSUME UNCHANGED can PROVE HandlerMove(h)
  BY <1>0 DEF HandlerMove
<1>o. ASSUME NEW g \in Cancellers, NEW x, can' = [can EXCEPT ![g] = x]
      PROVE  can'[g] = x /\ (h # g => can'[h] = can[h])
  BY <1>t, <1>o DEF CancelTypeOK
<1>1. ASSUME NEW g \in Cancellers, NEW i \in Issues, CancelIssueRun(g, i) PROVE HandlerMove(h)
  <2>1. PICK q : q = ActiveRunOf(i)
    OBVIOUS
  <2>2. /\ can' = [can EXCEPT ![g] = [pc |-> "intent", run |-> q, chain |-> NoRun]]
        /\ run[q].status \in Q!Active /\ UNCHANGED run
    BY <1>1, <2>1, ActiveRunIsActive DEF CancelIssueRun, QueueSide, queueVars
  <2>. QED
    BY <1>o, <2>2 DEF HandlerMove
<1>2. ASSUME NEW g \in Cancellers, NEW c \in RunIds, CancelChain(g, c) PROVE HandlerMove(h)
  <2>1. PICK q : can' = [can EXCEPT ![g] = [pc |-> "wake", run |-> q, chain |-> c]]
    BY <1>2 DEF CancelChain
  <2>2. "chain" \in CancelKinds
    BY <1>2 DEF CancelChain
  <2>. QED
    BY <1>o, <2>1, <2>2 DEF HandlerMove
<1>3. ASSUME NEW g \in Cancellers, CancelIntent(g) PROVE HandlerMove(h)
  <2>1. PICK q : q = can[g].run
    OBVIOUS
  <2>2. /\ PoolCancelRun(q) /\ can[g].pc = "intent"
        /\ can' = [can EXCEPT ![g] = IF q \in Registered THEN NoCancel
                                     ELSE [@ EXCEPT !.pc = "fallback"]]
    BY <1>3, <2>1 DEF CancelIntent
  <2>3. CASE q \in Registered
    BY <1>o, <2>2, <2>3 DEF HandlerMove, NoCancel
  <2>4. CASE q \notin Registered
    <3>1. q \in pend'
      BY <1>t, <2>2, <2>4, CancelRunMove
    <3>2. /\ can'[g].pc = "fallback" /\ can'[g].run = q
          /\ h # g => can'[h] = can[h]
      BY <1>t, <2>1, <2>2, <2>4 DEF CancelTypeOK
    <3>. QED
      BY <2>1, <2>2, <3>1, <3>2 DEF HandlerMove
  <2>. QED
    BY <2>3, <2>4
<1>4. ASSUME NEW g \in Cancellers, CancelFallback(g) \/ ChainSweep(g) PROVE HandlerMove(h)
  <2>1. can' = [can EXCEPT ![g] = NoCancel]
    BY <1>4 DEF CancelFallback, ChainSweep
  <2>. QED
    BY <1>o, <2>1 DEF HandlerMove, NoCancel
<1>5. ASSUME NEW g \in Cancellers, ChainWake(g) PROVE HandlerMove(h)
  <2>1. can' = [can EXCEPT ![g].pc = "sweep"] /\ can[g].pc = "wake"
    BY <1>5 DEF ChainWake
  <2>. QED
    BY <1>t, <2>1 DEF HandlerMove, CancelTypeOK
<1>6. ASSUME GracefulExit \/ Crash PROVE HandlerMove(h)
  BY <1>6 DEF GracefulExit, Crash, MemoryLost, HandlerMove, NoCancel
<1>7. ASSUME \/ \E w \in Workers : Claim(w) \/ WorkerStep(w) \/ Deadline(w) \/ Heartbeat(w)
             \/ \E r \in RunIds : Age(r) \/ StrayExit(r) \/ RetryDue(r)
             \/ CancelStaleActiveRuns \/ RecoverStaleRuns
             \/ Signal \/ Restart \/ UserEnqueues \/ UserSwitchesWorktree
             \/ UNCHANGED poolVars
      PROVE  UNCHANGED can
  BY <1>7 DEF Claim, WorkerStep, CancelClaimed, PrepareLost, Register, StartProcess, StartError,
              RecordProcess, ProcessExit, FinishRun, Cleanup, Panic, PanicFail, Deadline,
              Heartbeat, Age, StrayExit, RetryDue, CancelStaleActiveRuns, RecoverStaleRuns,
              Signal, Restart, UserEnqueues, UserSwitchesWorktree, CancelSide, poolVars
<1>. QED
  BY <1>0, <1>1, <1>2, <1>3, <1>4, <1>5, <1>6, <1>7 DEF PoolNext, CancelStep

\* A claim is given up only by its worker, once the run has finished.
LEMMA StepClaims ==
  ASSUME PoolTypeInv, [PoolNext]_poolVars, NEW r \in RunIds
  PROVE  ClaimedMove(r)
<1>t. WorkerTypeOK
  BY DEF PoolTypeInv
<1>1. ASSUME NEW w \in Workers, FinishRun(w) PROVE ClaimedMove(r)
  <2>1. worker'[w].pc = "finished" /\ claimed \subseteq claimed' \cup {worker[w].run}
    BY <1>t, <1>1 DEF FinishRun, FinishCancelled, FinishRetried, FinishConflict, FinishCompleted,
                      FinishIgnored, RowMarks, Step, WorkerTypeOK, WorkerRec
  <2>. QED
    BY <2>1 DEF ClaimedMove
<1>2. ASSUME NEW w \in Workers,
             \/ Claim(w) \/ CancelClaimed(w) \/ PrepareLost(w) \/ Register(w) \/ StartProcess(w)
             \/ StartError(w) \/ RecordProcess(w) \/ ProcessExit(w) \/ Cleanup(w) \/ Panic(w)
             \/ PanicFail(w) \/ Deadline(w) \/ Heartbeat(w)
      PROVE  claimed \subseteq claimed'
  BY <1>2 DEF Claim, CancelClaimed, PrepareLost, Register, StartProcess, StartError,
              RecordProcess, ProcessExit, Cleanup, Panic, PanicFail, Deadline, Heartbeat, RowMarks
<1>3. ASSUME \/ \E q \in RunIds : Age(q) \/ StrayExit(q) \/ RetryDue(q)
             \/ CancelStaleActiveRuns \/ RecoverStaleRuns
             \/ \E h \in Cancellers, i \in Issues : CancelIssueRun(h, i)
             \/ \E h \in Cancellers, c \in RunIds : CancelChain(h, c)
             \/ \E h \in Cancellers : CancelStep(h)
             \/ Signal \/ GracefulExit \/ Crash \/ Restart
             \/ UserEnqueues \/ UserSwitchesWorktree \/ UNCHANGED poolVars
      PROVE  UNCHANGED claimed
  BY <1>3 DEF Age, StrayExit, RetryDue, CancelStaleActiveRuns, RecoverStaleRuns, CancelIssueRun,
              CancelChain, CancelStep, CancelIntent, CancelFallback, ChainWake, ChainSweep, Signal,
              GracefulExit, Crash, Restart, UserEnqueues, UserSwitchesWorktree, RowMarks, poolVars
<1>. QED
  BY <1>1, <1>2, <1>3 DEF PoolNext, WorkerStep, ClaimedMove

\* A handler on its way to the database cannot end the row of a live process: the
\* cancel of run r is still pending, r has ended or waits for its retry, or r's worker
\* was told before its process could start, or has seen it exit.
Harmless(r) ==
  \/ r \in pend
  \/ run[r].status \in Q!Terminal
  \/ run[r].status = "queued" /\ ~run[r].due
  \/ /\ run[r].status = "running"
     /\ \A w \in Workers : worker[w].run = r =>
          \/ worker[w].pc = "registered" /\ worker[w].cause # "none"
          \/ worker[w].pc \in {"exited", "finished", "panicked"}

HandlersHarmless ==
  \A h \in Cancellers :
    /\ can[h].pc \in {"idle", "intent", "fallback"}
    /\ can[h].pc \in {"intent", "fallback"} => run[can[h].run].status # "none"
    /\ can[h].pc = "fallback" => Harmless(can[h].run)

\* A cancel pending for a run is taken up when the run is registered, so a process
\* starts only for a row that is still running.
PendingTaken ==
  \A w \in Workers :
    /\ InCancels(w) => worker[w].run \notin pend
    /\ worker[w].pc = "preparing" =>
         /\ worker[w].run \in claimed
         /\ run[worker[w].run].status = "running" \/ worker[w].run \in pend
    /\ worker[w].pc = "registered" =>
         run[worker[w].run].status = "running" \/ worker[w].cause # "none"

CancelInv == HandlersHarmless /\ PendingTaken /\ ProcessHasRow

\* The running row of a driven run is ended only by a handler's fallback, and then a
\* cancel is pending or its context has ended before the process started.
LEMMA DrivenStaysRunning ==
  ASSUME HoldInv, DownInv, ScanInv, CancelInv, [PoolNext]_poolVars,
         NEW w \in Workers, NEW r \in RunIds, r = worker[w].run,
         worker[w].pc \in {"preparing", "registered", "started", "executing"},
         worker'[w].pc = worker[w].pc, run[r].status = "running",
         r \notin pend, worker[w].pc = "registered" => worker[w].cause = "none"
  PROVE  run'[r].status = "running"
<1>t. WorkerTypeOK /\ OneWorkerPerRun /\ QueueInv /\ PoolTypeInv
  BY DEF HoldInv, PoolTypeInv
<1>1. r # NoRun /\ RowMove(r)
  BY <1>t, BusyWorker, StepRowMoves
<1>2. \A v \in Workers : worker[v].run = r => v = w
  BY <1>t, <1>1 DEF OneWorkerPerRun
<1>3. server # "down" /\ r \notin scan
  BY <1>1 DEF DownInv, ScanInv, InCancels
<1>4. \A h \in Cancellers : can[h].pc # "sweep"
  BY DEF CancelInv, HandlersHarmless
<1>5. \A h \in Cancellers : ~(can[h].pc = "fallback" /\ can[h].run = r)
  <2>1. ~Harmless(r)
    BY DEF Harmless, Q!Terminal
  <2>. QED
    BY <2>1 DEF CancelInv, HandlersHarmless
<1>6. ~EndedBy(r)
  BY <1>2, <1>3, <1>4, <1>5 DEF EndedBy
<1>7. ~RowRequeued(r)
  BY <1>2 DEF RowRequeued
<1>. QED
  BY <1>1, <1>6, <1>7 DEF RowMove, RowEnds, RowClaimed, RowDue, RowEnters

\* Every step keeps pending cancels with their worker, so a live process keeps its row.
LEMMA StepKeepsPendingTaken ==
  ASSUME HoldInv, DownInv, DownInv', ScanInv, CancelInv, [PoolNext]_poolVars
  PROVE  PendingTaken' /\ ProcessHasRow'
<1>t. /\ WorkerTypeOK /\ OneWorkerPerRun /\ QueueInv /\ PoolTypeInv
      /\ PendingTaken /\ ProcessHasRow
  BY DEF HoldInv, PoolTypeInv, CancelInv
<1>1. /\ \A r \in RunIds : PendMove(r) /\ ClaimedMove(r)
      /\ \A w \in Workers : WorkerMove(w)
  BY <1>t, StepPending, StepClaims, StepWorkerMoves
<1>w. WorkerTypeOK'
  BY <1>t, StepWorkerTypes
<1>2. ASSUME NEW w \in Workers, InCancels(w)' PROVE worker'[w].run \notin pend'
  <2>1. PICK r \in RunIds : r = worker'[w].run
    BY <1>2, <1>w, BusyWorker DEF InCancels, WorkerTypeOK, WorkerRec
  <2>2. CASE Registers(w)
    BY <2>2 DEF Registers
  <2>3. CASE ~Registers(w)
    <3>1. InCancels(w) /\ worker'[w].run = worker[w].run
      BY <1>1, <1>2, <2>3 DEF WorkerMove, Takes, Rests, Proceeds, EndsContext, InCancels
    <3>2. r \notin pend /\ r \in Registered
      BY <1>t, <2>1, <3>1 DEF PendingTaken, Registered
    <3>. QED
      BY <1>1, <2>1, <3>2 DEF PendMove
  <2>. QED
    BY <2>2, <2>3
<1>3. ASSUME NEW w \in Workers, worker'[w].pc = "preparing"
      PROVE  /\ worker'[w].run \in claimed'
             /\ run'[worker'[w].run].status = "running" \/ worker'[w].run \in pend'
  <2>1. CASE Takes(w)
    BY <2>1 DEF Takes
  <2>2. CASE ~Takes(w)
    <3>1. worker[w].pc = "preparing" /\ worker'[w].run = worker[w].run
      BY <1>1, <1>3, <2>2 DEF WorkerMove, Rests, Registers, Proceeds, EndsContext, InCancels
    <3>2. PICK r \in RunIds : r = worker[w].run /\ r # NoRun
      BY <1>t, <3>1, BusyWorker
    <3>3. \A v \in Workers : worker[v].run = r => v = w
      BY <1>t, <3>2 DEF OneWorkerPerRun
    <3>4. r \in claimed /\ (run[r].status = "running" \/ r \in pend)
      BY <1>t, <3>1, <3>2 DEF PendingTaken
    <3>5. r \in claimed'
      BY <1>1, <1>3, <3>3, <3>4 DEF ClaimedMove
    <3>6. server' # "down"
      BY <3>1, <3>2 DEF DownInv
    <3>7. CASE r \in pend
      <4>1. ~PendDrop(r)
        BY <1>3, <3>1, <3>3, <3>4, <3>6 DEF PendDrop, Registers, Rests
      <4>. QED
        BY <1>1, <3>1, <3>2, <3>5, <3>7, <4>1 DEF PendMove
    <3>8. CASE r \notin pend
      BY <1>3, <3>1, <3>2, <3>4, <3>5, <3>8, DrivenStaysRunning
    <3>. QED
      BY <3>7, <3>8
  <2>. QED
    BY <2>1, <2>2
<1>4. ASSUME NEW w \in Workers, worker'[w].pc = "registered"
      PROVE  run'[worker'[w].run].status = "running" \/ worker'[w].cause # "none"
  <2>1. CASE Registers(w)
    BY <1>t, <2>1 DEF Registers, PendingTaken
  <2>2. CASE ~Registers(w) /\ worker'[w].cause = "none"
    <3>1. worker[w].pc = "registered" /\ worker'[w].run = worker[w].run /\ worker[w].cause = "none"
      BY <1>1, <1>4, <2>2 DEF WorkerMove, Takes, Rests, Proceeds, EndsContext
    <3>2. PICK r \in RunIds : r = worker[w].run
      BY <1>t, <3>1, BusyWorker
    <3>3. run[r].status = "running" /\ r \notin pend
      BY <1>t, <3>1, <3>2 DEF PendingTaken, InCancels
    <3>. QED
      BY <1>4, <3>1, <3>2, <3>3, DrivenStaysRunning
  <2>. QED
    BY <2>1, <2>2
<1>5. ASSUME NEW w \in Workers, Alive(w)' PROVE run'[worker'[w].run].status = "running"
  <2>1. CASE worker'[w].pc # worker[w].pc
    BY <1>t, <1>1, <1>5, <2>1
       DEF Alive, WorkerMove, Takes, Rests, Registers, Proceeds, EndsContext, PendingTaken,
           ProcessHasRow
  <2>2. CASE worker'[w].pc = worker[w].pc
    <3>1. Alive(w) /\ worker'[w].run = worker[w].run
      BY <1>1, <1>5, <2>2
         DEF Alive, WorkerMove, Takes, Rests, Registers, Proceeds, EndsContext
    <3>2. PICK r \in RunIds : r = worker[w].run
      BY <1>t, <3>1, BusyWorker DEF Alive
    <3>3. run[r].status = "running" /\ r \notin pend
      BY <1>t, <3>1, <3>2 DEF PendingTaken, ProcessHasRow, InCancels, Alive
    <3>. QED
      BY <2>2, <3>1, <3>2, <3>3, DrivenStaysRunning DEF Alive
  <2>. QED
    BY <2>1, <2>2
<1>. QED
  BY <1>2, <1>3, <1>4, <1>5 DEF PendingTaken, ProcessHasRow

\* When no cancel is of a chain and no preparation is slow, a handler's fallback ends no
\* row under a live process.
LEMMA StepKeepsHandlersHarmless ==
  ASSUME Slow = {}, "chain" \notin CancelKinds, HoldInv, HoldInv', DownInv', CancelInv,
         [PoolNext]_poolVars
  PROVE  HandlersHarmless'
<1>t. /\ WorkerTypeOK /\ OneWorkerPerRun /\ HeldRow /\ QueueInv /\ PoolTypeInv /\ CancelTypeOK
      /\ HandlersHarmless
  BY DEF HoldInv, PoolTypeInv, CancelInv
<1>c. CancelTypeOK' /\ QueueInv'
  BY DEF HoldInv, PoolTypeInv
<1>1. /\ \A r \in RunIds : PendMove(r) /\ RowMove(r)
      /\ \A w \in Workers : WorkerMove(w)
      /\ \A h \in Cancellers : HandlerMove(h)
  BY <1>t, StepPending, StepRowMoves, StepWorkerMoves, StepHandlers
<1>. SUFFICES ASSUME NEW h \in Cancellers
              PROVE  /\ can'[h].pc \in {"idle", "intent", "fallback"}
                     /\ can'[h].pc \in {"intent", "fallback"} => run'[can'[h].run].status # "none"
                     /\ can'[h].pc = "fallback" => Harmless(can[h].run)'
  BY DEF HandlersHarmless
<1>2. can'[h].pc \in {"idle", "intent", "fallback"}
  BY <1>t, <1>1 DEF HandlerMove, HandlersHarmless
<1>3. ASSUME can'[h].pc \in {"intent", "fallback"} PROVE run'[can'[h].run].status # "none"
  <2>1. PICK r \in RunIds : r = can'[h].run
    BY <1>c, <1>3 DEF CancelTypeOK
  <2>2. CASE run[r].status # "none"
    BY <1>1, <2>1, <2>2
       DEF RowMove, RowEnds, RowClaimed, RowRequeued, RowDue, RowEnters, Q!Terminal
  <2>. QED
    BY <1>t, <1>1, <1>3, <2>1, <2>2 DEF HandlerMove, HandlersHarmless, Q!Active
<1>4. ASSUME can'[h].pc = "fallback" PROVE Harmless(can[h].run)'
  <2>1. PICK r \in RunIds : r = can'[h].run
    BY <1>c, <1>4 DEF CancelTypeOK
  <2>. SUFFICES Harmless(r)'
    BY <2>1 DEF Harmless
  <2>2. CASE r \in pend'
    BY <2>2 DEF Harmless
  <2>3. CASE r \notin pend'
    <3>1. can'[h] = can[h] /\ can[h].pc = "fallback" /\ can[h].run = r
      BY <1>1, <1>4, <2>1, <2>3 DEF HandlerMove
    <3>2. Harmless(r)
      BY <1>t, <3>1 DEF HandlersHarmless
    <3>3. server' # "down"
      BY <1>4 DEF DownInv
    <3>4. RowMove(r)
      BY <1>1
    <3>5. run'[r].status # "none" /\ run'[r].status \in Q!Active \cup Q!Terminal
      <4>1. run'[r].status # "none"
        BY <1>3, <1>4, <2>1
      <4>2. run[r].status # "none" => run[r].status \in Q!Active \cup Q!Terminal
        BY <1>t, PoolRows DEF Q!Row
      <4>. QED
        BY <3>4, <4>1, <4>2 DEF RowMove, RowEnds, RowClaimed, RowRequeued, RowDue, RowEnters,
                                Q!Active
    <3>6. ~RowDue(r)
      BY <3>1 DEF RowDue
    <3>7. CASE r \in pend
      <4>1. PendDrop(r)
        BY <1>1, <2>3, <3>7 DEF PendMove
      <4>2. CASE run'[r].status \notin Q!Active
        BY <3>5, <4>2 DEF Harmless
      <4>3. ASSUME UNCHANGED run, NEW w \in Workers, worker[w].run = r,
                   \A v \in Workers \ {w} : worker'[v] = worker[v],
                   Registers(w) \/ Rests(w) \/ worker'[w].pc = "panicked"
            PROVE  Harmless(r)'
        <5>1. r # NoRun
          BY DEF NoRun, RunIds, Q!RunIds
        <5>2. run[r].status = "queued" => ~run[r].due
          BY <1>t, <4>3, <5>1 DEF HeldRow
        <5>3. \A v \in Workers : worker'[v].run = r => v = w
          BY <1>t, <4>3, <5>1 DEF OneWorkerPerRun
        <5>4. worker'[w].run = r =>
                \/ worker'[w].pc = "registered" /\ worker'[w].cause # "none"
                \/ worker'[w].pc = "panicked"
          BY <3>7, <4>3, <5>1 DEF Registers, Rests
        <5>. QED
          BY <3>5, <4>3, <5>2, <5>3, <5>4 DEF Harmless, Q!Active, Q!Terminal
      <4>. QED
        BY <3>3, <4>1, <4>2, <4>3 DEF PendDrop
    <3>8. CASE run[r].status \in Q!Terminal
      BY <3>4, <3>8 DEF Harmless, RowMove, RowEnds, RowClaimed, RowRequeued, RowDue, RowEnters,
                        Q!Terminal, Q!Active
    <3>9. CASE run[r].status = "queued" /\ ~run[r].due
      BY <3>4, <3>6, <3>9 DEF Harmless, RowMove, RowEnds, RowClaimed, RowRequeued, RowEnters
    <3>10. ASSUME run[r].status = "running",
                  \A w \in Workers : worker[w].run = r =>
                    \/ worker[w].pc = "registered" /\ worker[w].cause # "none"
                    \/ worker[w].pc \in {"exited", "finished", "panicked"}
           PROVE  Harmless(r)'
      <4>1. CASE RowEnds(r) \/ RowRequeued(r)
        BY <4>1 DEF Harmless, RowEnds, RowRequeued
      <4>2. CASE run'[r] = run[r]
        <5>1. ASSUME NEW w \in Workers, worker'[w].run = r
              PROVE  \/ worker'[w].pc = "registered" /\ worker'[w].cause # "none"
                     \/ worker'[w].pc \in {"exited", "finished", "panicked"}
          <6>1. r # NoRun
            BY DEF NoRun, RunIds, Q!RunIds
          <6>2. ~Takes(w)
            BY <3>10, <5>1 DEF Takes
          <6>3. worker[w].run = r
            BY <1>1, <5>1, <6>1, <6>2, HeldBefore
          <6>. QED
            BY <1>1, <3>10, <5>1, <6>1, <6>2, <6>3
               DEF WorkerMove, Rests, Registers, Proceeds, EndsContext
        <5>. QED
          BY <3>10, <4>2, <5>1 DEF Harmless
      <4>. QED
        BY <3>4, <3>10, <4>1, <4>2 DEF RowMove, RowClaimed, RowDue, RowEnters
    <3>. QED
      BY <3>2, <3>7, <3>8, <3>9, <3>10 DEF Harmless
  <2>. QED
    BY <2>2, <2>3
<1>. QED
  BY <1>2, <1>3, <1>4

LiveInv == HoldInv /\ DownInv /\ ScanInv /\ CancelInv

\* Without chain cancels, and with preparations and handlers shorter than the timers
\* they race, the invariant is kept.
LEMMA StepKeepsLiveInv ==
  ASSUME Slow = {}, "chain" \notin CancelKinds, LiveInv, [PoolNext]_poolVars
  PROVE  LiveInv'
<1>1. HoldInv' /\ DownInv'
  BY StepKeepsHoldInv, StepKeepsDownInv DEF LiveInv, HoldInv
<1>2. ScanInv'
  BY StepKeepsScanInv DEF LiveInv
<1>3. CancelInv'
  BY <1>1, StepKeepsPendingTaken, StepKeepsHandlersHarmless DEF LiveInv, CancelInv
<1>. QED
  BY <1>1, <1>2, <1>3 DEF LiveInv

\* LiveInv holds in every reachable state of such a pool.
THEOREM LiveInvariant ==
  ASSUME Slow = {}, "chain" \notin CancelKinds
  PROVE  PoolSpec => []LiveInv
<1>1. PoolInit => DownInv /\ ScanInv /\ CancelInv
  BY RestingTyped DEF PoolInit, DownInv, ScanInv, CancelInv, HandlersHarmless, PendingTaken,
                      ProcessHasRow, Alive, InCancels, NoCancel
<1>2. LiveInv /\ [PoolNext]_poolVars => LiveInv'
  BY StepKeepsLiveInv
<1>3. HoldInv /\ DownInv /\ ScanInv /\ CancelInv <=> LiveInv
  BY DEF LiveInv
<1>. QED
  BY <1>1, <1>2, <1>3, HoldInvariant, PTL DEF PoolSpec

\* While the process of a run is alive its row says 'running': no issue cancel, stale
\* scan, panic or restart frees the issue or the directory under a live process.  A chain
\* cancel does, and so would a preparation or a handler that outlasts its timer.
THEOREM LiveProcessHasRow ==
  ASSUME Slow = {}, "chain" \notin CancelKinds
  PROVE  PoolSpec => []ProcessHasRow
<1>1. LiveInv => ProcessHasRow
  BY DEF LiveInv, CancelInv
<1>. QED
  BY <1>1, LiveInvariant, PTL
-----------------------------------------------------------------------------
(* One process per working directory                                       *)

\* While per_run_worktree is not switched, a run is serialised exactly when its process
\* is sent to the workspace's own directory.
DirInv ==
  /\ \A r \in RunIds : run[r].status = "running" => run[r].serial = ~worktree[Q!Ws(r)]
  /\ \A w \in Workers :
       InCancels(w) /\ worker[w].dir = "shared" => ~worktree[Q!Ws(worker[w].run)]

\* Only UpdateWorkspace writes per_run_worktree.
LEMMA StepWorktree == ~Toggles /\ QueueMove => UNCHANGED worktree
  BY DEF QueueMove, QueueSide, queueVars, Q!CreateIssueWithInitialRun, Q!AddUserComment,
         Q!ClaimNextRun, Q!RescheduleRunForRetry, Q!RetryDue, Q!CompleteDone, Q!CompleteFailed,
         Q!CompleteChained, Q!FailInfrastructureRun, Q!CancelRunWithReason, Q!CancelRunsByChain,
         Q!RecoverOrphanRuns, Q!RecoverStaleRuns

\* Every step keeps the serialisation of a row and the directory of its process together.
LEMMA StepKeepsDirInv ==
  ASSUME ~Toggles, HoldInv, DirInv, [PoolNext]_poolVars
  PROVE  DirInv'
<1>t. WorkerTypeOK /\ HeldRow /\ QueueInv /\ PoolTypeInv
  BY DEF HoldInv, PoolTypeInv
<1>1. /\ \A r \in RunIds : RowMove(r)
      /\ \A w \in Workers : WorkerMove(w)
      /\ UNCHANGED worktree
  BY <1>t, StepRowMoves, StepWorkerMoves, StepMovesQueue, StepWorktree
<1>2. \A r \in RunIds : run[r].status # "none" => run'[r].issue = run[r].issue
  BY <1>1 DEF RowMove, RowEnds, RowClaimed, RowRequeued, RowDue, RowEnters
<1>3. ASSUME NEW r \in RunIds, run'[r].status = "running"
      PROVE  run'[r].serial = ~worktree'[Q!Ws(r)']
  <2>1. CASE run'[r] = run[r]
    BY <1>1, <1>3, <2>1 DEF DirInv, Q!Ws
  <2>2. CASE RowClaimed(r)
    BY <1>1, <2>2 DEF RowClaimed, Q!Ws
  <2>. QED
    BY <1>1, <1>3, <2>1, <2>2 DEF RowMove, RowEnds, RowRequeued, RowDue, RowEnters, Q!Terminal
<1>4. ASSUME NEW w \in Workers, InCancels(w)', worker'[w].dir = "shared"
      PROVE  ~worktree'[IssueWs[run'[worker'[w].run].issue]]
  <2>1. worker'[w].run = worker[w].run /\ worker[w].pc \notin {"idle", "off"}
    BY <1>1, <1>4
       DEF WorkerMove, Takes, Rests, Registers, Proceeds, EndsContext, InCancels
  <2>2. PICK r \in RunIds : r = worker[w].run /\ r # NoRun
    BY <1>t, <2>1, BusyWorker
  <2>3. run'[r].issue = run[r].issue
    BY <1>t, <1>2, <2>2 DEF HeldRow
  <2>4. ~worktree[IssueWs[run[r].issue]]
    <3>1. CASE Registers(w)
      BY <1>4, <2>2, <3>1 DEF Registers, WorkDir, Q!Ws
    <3>2. CASE ~Registers(w)
      <4>1. InCancels(w) /\ worker[w].dir = "shared"
        BY <1>1, <1>4, <3>2 DEF WorkerMove, Takes, Rests, Proceeds, EndsContext, InCancels
      <4>. QED
        BY <2>2, <4>1 DEF DirInv, Q!Ws
    <3>. QED
      BY <3>1, <3>2
  <2>. QED
    BY <1>1, <2>1, <2>2, <2>3, <2>4
<1>. QED
  BY <1>3, <1>4 DEF DirInv, Q!Ws

\* Under the same conditions, and while per_run_worktree is not switched under running
\* runs, two live processes are never both in the working_dir of one workspace ("shared
\* working_dir" is why ClaimNextRun serialises).
THEOREM DirectoryAlone ==
  ASSUME Slow = {}, "chain" \notin CancelKinds, ~Toggles
  PROVE  PoolSpec => []WorkingDirExclusive
<1>1. PoolInit => DirInv
  <2>. SUFFICES ASSUME PoolInit PROVE DirInv
    OBVIOUS
  <2>1. \A r \in RunIds : run[r].status = "none"
    BY DEF PoolInit, Q!Init, Q!NoRow, RunIds
  <2>2. \A w \in Workers : ~InCancels(w)
    BY RestingTyped DEF PoolInit, InCancels
  <2>. QED
    BY <2>1, <2>2 DEF DirInv
<1>2. LiveInv /\ DirInv /\ [PoolNext]_poolVars => DirInv'
  BY StepKeepsDirInv DEF LiveInv
<1>3. LiveInv /\ DirInv => WorkingDirExclusive
  <2>. SUFFICES ASSUME LiveInv, DirInv, NEW w \in Workers, NEW v \in Workers,
                       Alive(w), Alive(v), worker[w].dir = "shared", worker[v].dir = "shared",
                       Q!Ws(worker[w].run) = Q!Ws(worker[v].run)
                PROVE  w = v
    BY DEF WorkingDirExclusive
  <2>1. WorkerTypeOK /\ OneWorkerPerRun /\ ProcessHasRow /\ QP!SerialRunsExclude
    BY DEF LiveInv, HoldInv, PoolTypeInv, CancelInv, QueueInv, QP!SafetyInv
  <2>2. PICK r \in RunIds, q \in RunIds : r = worker[w].run /\ q = worker[v].run /\ r # NoRun
    BY <2>1, BusyWorker DEF Alive
  <2>3. run[r].status = "running" /\ run[q].status = "running"
    BY <2>1, <2>2 DEF ProcessHasRow
  <2>4. ~worktree[Q!Ws(r)] /\ ~worktree[Q!Ws(q)]
    BY <2>2 DEF DirInv, InCancels, Alive
  <2>5. run[r].serial /\ run[q].serial
    BY <2>3, <2>4 DEF DirInv
  <2>6. r \in QP!With("running") /\ q \in QP!With("running") /\ QP!Ws(r) = QP!Ws(q)
    BY <2>2, <2>3, SameRows DEF QP!With, RunIds
  <2>7. r = q
    BY <2>1, <2>5, <2>6 DEF QP!SerialRunsExclude
  <2>. QED
    BY <2>1, <2>2, <2>7 DEF OneWorkerPerRun
<1>. QED
  BY <1>1, <1>2, <1>3, LiveInvariant, PTL DEF PoolSpec
===============================================================================
