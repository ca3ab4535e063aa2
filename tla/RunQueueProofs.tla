---------------------------- MODULE RunQueueProofs ----------------------------
(***************************************************************************)
(* Proofs that the safety properties of RunQueue hold for every number of  *)
(* runs, issues, agents, workspaces and handlers.                          *)
(***************************************************************************)
EXTENDS RunQueue, FiniteSetTheorems, TLAPS

\* Ids are handed out in order: no row exists at or above nextId.
FreshIds == \A r \in RunIds : r >= nextId => run[r] = NoRow

\* lastFailed points at rows that are still there and failed.
LastFailedIsFailed ==
  \A c \in RunIds : lastFailed[c] # 0 => run[lastFailed[c]].status = "failed"

\* The base of every other proof: the types and the two facts about ids that
\* the actions rely on when they insert a row or copy one.
TypeInv == TypeOK /\ FreshIds /\ LastFailedIsFailed
-----------------------------------------------------------------------------
\* A row that exists is a Row, any other id holds NoRow.
LEMMA RowOrNot ==
  ASSUME run \in [RunIds -> Row \cup {NoRow}], NEW r \in RunIds
  PROVE  /\ run[r].status # "none" => run[r] \in Row
         /\ run[r].status = "none" => run[r] = NoRow
  BY DEF Row, NoRow, Active, Terminal

\* What SetStatus does to each row when it ends active rows.
LEMMA SetStatusRows ==
  ASSUME run \in [RunIds -> Row \cup {NoRow}],
         NEW S \in SUBSET RunIds, \A r \in S : run[r].status \in Active,
         NEW s \in Terminal, SetStatus(S, s)
  PROVE  /\ run' \in [RunIds -> Row \cup {NoRow}]
         /\ \A r \in RunIds \ S : run'[r] = run[r]
         /\ \A r \in S : /\ run'[r].status = s
                         /\ run'[r].issue = run[r].issue
                         /\ run'[r].agent = run[r].agent
                         /\ run'[r].attempt = run[r].attempt
                         /\ run'[r].chain = run[r].chain
                         /\ run'[r].depth = run[r].depth
                         /\ run'[r].via = run[r].via
                         /\ run'[r].recent = run[r].recent
<1>1. \A r \in S : run[r] \in Row
  BY RowOrNot DEF Active
<1>2. \A r \in S : [run[r] EXCEPT !.status = s, !.due = TRUE, !.serial = FALSE] \in Row
  BY <1>1 DEF Row
<1>. QED
  BY <1>1, <1>2 DEF SetStatus, Row

\* Ending active rows keeps the invariant; lastFailed may move to an ended row.
LEMMA EndKeepsTypeInv ==
  ASSUME TypeInv, NEW S \in SUBSET RunIds, \A r \in S : run[r].status \in Active,
         NEW s \in Terminal, SetStatus(S, s),
         \/ lastFailed' = lastFailed
         \/ \E r \in S : s = "failed" /\ lastFailed' = [lastFailed EXCEPT ![run[r].chain] = r],
         issueStatus' \in [Issues -> {"none", "open", "done", "cancelled", "deleted"}],
         UNCHANGED <<nextId, req, mainAgent, worktree>>
  PROVE  TypeInv'
<1>1. run \in [RunIds -> Row \cup {NoRow}]
  BY DEF TypeInv, TypeOK
<1>2. /\ run' \in [RunIds -> Row \cup {NoRow}]
      /\ \A r \in RunIds \ S : run'[r] = run[r]
      /\ \A r \in S : /\ run'[r].status = s
                      /\ run'[r].agent = run[r].agent
                      /\ run'[r].attempt = run[r].attempt
  BY <1>1, SetStatusRows
<1>3. \A r \in S : run[r] \in Row
  BY <1>1, RowOrNot DEF Active
<1>4. lastFailed' \in [RunIds -> RunIds \cup {0}]
  BY <1>3 DEF TypeInv, TypeOK, Row
<1>5. \A r \in Rows' : run'[r].attempt <= RetryMax[run'[r].agent]
  BY <1>2, <1>3 DEF TypeInv, TypeOK, Rows, Active
<1>6. FreshIds'
  BY <1>2, <1>3 DEF TypeInv, FreshIds, Row, NoRow, Active
<1>7. LastFailedIsFailed'
  <2>1. \A r \in RunIds : run[r].status = "failed" => r \notin S
    BY DEF Active
  <2>2. CASE lastFailed' = lastFailed
    BY <1>2, <2>1, <2>2 DEF TypeInv, TypeOK, LastFailedIsFailed
  <2>3. CASE \E r \in S : s = "failed" /\ lastFailed' = [lastFailed EXCEPT ![run[r].chain] = r]
    BY <1>2, <1>3, <2>1, <2>3 DEF TypeInv, TypeOK, LastFailedIsFailed, Row
  <2>. QED
    BY <2>2, <2>3
<1>. QED
  BY <1>2, <1>4, <1>5, <1>6, <1>7 DEF TypeInv, TypeOK

\* So does inserting a row at nextId.
LEMMA InsertKeepsTypeInv ==
  ASSUME TypeInv, NEW i \in Issues, NEW a \in Agents, NEW c \in RunIds, NEW d \in Nat,
         NEW v \in Origin, InsertRun(i, a, c, d, v),
         issueStatus' \in [Issues -> {"none", "open", "done", "cancelled", "deleted"}],
         req' \in [Handlers -> Request \cup {NoRequest}],
         UNCHANGED <<lastFailed, mainAgent, worktree>>
  PROVE  TypeInv'
<1>1. nextId \in RunIds /\ nextId' \in 1..(MaxRuns + 1) /\ nextId' = nextId + 1
  BY BoundsAssumption DEF TypeInv, TypeOK, InsertRun, RunIds
<1>2. NewRow(i, a, c, d, v) \in Row
  BY DEF NewRow, Row, Active
<1>3. /\ run' \in [RunIds -> Row \cup {NoRow}]
      /\ run'[nextId] = NewRow(i, a, c, d, v)
      /\ \A r \in RunIds : r # nextId => run'[r] = run[r]
  BY <1>1, <1>2 DEF TypeInv, TypeOK, InsertRun
<1>4. run[nextId] = NoRow
  BY <1>1 DEF TypeInv, FreshIds, RunIds
<1>5. \A r \in Rows' : run'[r].attempt <= RetryMax[run'[r].agent]
  BY <1>1, <1>3, RetryAssumption DEF TypeInv, TypeOK, Rows, NewRow
<1>6. FreshIds'
  BY <1>1, <1>3 DEF TypeInv, FreshIds, RunIds
<1>7. LastFailedIsFailed'
  BY <1>3, <1>4 DEF TypeInv, TypeOK, LastFailedIsFailed, NoRow
<1>. QED
  BY <1>1, <1>3, <1>5, <1>6, <1>7 DEF TypeInv, TypeOK

\* A step that leaves the run table alone keeps the invariant.
LEMMA NoRowKeepsTypeInv ==
  ASSUME TypeInv, UNCHANGED <<run, nextId, lastFailed>>,
         issueStatus' \in [Issues -> {"none", "open", "done", "cancelled", "deleted"}],
         req' \in [Handlers -> Request \cup {NoRequest}],
         mainAgent' \in [Workspaces -> Agents],
         worktree' \in [Workspaces -> BOOLEAN]
  PROVE  TypeInv'
  BY DEF TypeInv, TypeOK, FreshIds, LastFailedIsFailed, Rows

\* Every action of the store keeps the invariant.
LEMMA StepKeepsTypeInv == TypeInv /\ [Next]_vars => TypeInv'
<1>. SUFFICES ASSUME TypeInv, [Next]_vars PROVE TypeInv'
  OBVIOUS
<1>. USE DEF Active, Terminal
<1>t. TypeOK
  BY DEF TypeInv
<1>a. \A r \in RunIds : run[r].status # "none" => run[r] \in Row
  BY <1>t, RowOrNot DEF TypeOK
<1>1. ASSUME NEW i \in Issues, NEW a \in Agents, CreateIssueWithInitialRun(i, a)
      PROVE  TypeInv'
  <2>1. nextId \in RunIds /\ InsertRun(i, a, nextId, 0, "user")
    BY <1>t, <1>1, BoundsAssumption DEF TypeOK, CreateIssueWithInitialRun, InsertRun, RunIds
  <2>. QED
    BY <1>t, <1>1, <2>1, InsertKeepsTypeInv DEF TypeOK, CreateIssueWithInitialRun, Origin
<1>2. ASSUME NEW i \in Issues, NEW a \in Agents, AddUserComment(i, a)
      PROVE  TypeInv'
  <2>1. nextId \in RunIds /\ InsertRun(i, a, nextId, 0, "user")
    BY <1>t, <1>2, BoundsAssumption DEF TypeOK, AddUserComment, InsertRun, RunIds
  <2>. QED
    BY <1>t, <1>2, <2>1, InsertKeepsTypeInv DEF TypeOK, AddUserComment, Origin
<1>3. ASSUME NEW h \in Handlers, NEW i \in Issues, NEW a \in Agents, RerunIssueCheck(h, i, a)
      PROVE  TypeInv'
  <2>1. req' \in [Handlers -> Request \cup {NoRequest}]
    BY <1>t, <1>3 DEF TypeOK, RerunIssueCheck, Request
  <2>. QED
    BY <1>t, <1>3, <2>1, NoRowKeepsTypeInv DEF TypeOK, RerunIssueCheck
<1>4. ASSUME NEW h \in Handlers, NEW c \in RunIds, RetryFailedRunInChainCheck(h, c)
      PROVE  TypeInv'
  <2>1. lastFailed[c] \in RunIds /\ run[lastFailed[c]] \in Row
    BY <1>t, <1>a, <1>4 DEF TypeInv, TypeOK, RetryFailedRunInChainCheck, LastFailedIsFailed
  <2>2. req' \in [Handlers -> Request \cup {NoRequest}]
    BY <1>t, <1>4, <2>1 DEF TypeOK, RetryFailedRunInChainCheck, Request, Row
  <2>. QED
    BY <1>t, <1>4, <2>2, NoRowKeepsTypeInv DEF TypeOK, RetryFailedRunInChainCheck
<1>5. ASSUME NEW h \in Handlers, RequestInsert(h)
      PROVE  TypeInv'
  <2>1. req[h] \in Request
    BY <1>t, <1>5 DEF TypeOK, RequestInsert
  <2>2. nextId \in RunIds
    BY <1>t, <1>5, BoundsAssumption DEF TypeOK, RequestInsert, InsertRun, RunIds
  <2>3. PICK c \in RunIds, v \in Origin : InsertRun(req[h].issue, req[h].agent, c, req[h].depth, v)
    BY <1>5, <2>1, <2>2 DEF RequestInsert, Request, Origin
  <2>4. req[h].issue \in Issues /\ req[h].agent \in Agents /\ req[h].depth \in Nat
    BY <2>1 DEF Request
  <2>. QED
    BY <1>t, <1>5, <2>3, <2>4, InsertKeepsTypeInv DEF TypeOK, RequestInsert
<1>6. ASSUME NEW h \in Handlers, RequestRefused(h)
      PROVE  TypeInv'
  BY <1>t, <1>6, NoRowKeepsTypeInv DEF TypeOK, RequestRefused
<1>7. ASSUME NEW i \in Issues, NEW s \in {"open", "done", "cancelled"}, UpdateIssue(i, s)
      PROVE  TypeInv'
  <2>1. issueStatus' \in [Issues -> {"none", "open", "done", "cancelled", "deleted"}]
    BY <1>t, <1>7 DEF TypeOK, UpdateIssue
  <2>2. CASE s = "cancelled"
    BY <1>7, <2>1, <2>2, EndKeepsTypeInv DEF UpdateIssue, With
  <2>3. CASE s # "cancelled"
    BY <1>t, <1>7, <2>1, <2>3, NoRowKeepsTypeInv DEF TypeOK, UpdateIssue
  <2>. QED
    BY <2>2, <2>3
<1>8. ASSUME NEW i \in Issues, DeleteIssue(i)
      PROVE  TypeInv'
  <2>. DEFINE gone == {r \in Rows : run[r].issue = i}
  <2>1. /\ run' = [r \in RunIds |-> IF r \in gone THEN NoRow ELSE run[r]]
        /\ lastFailed' = [c \in RunIds |-> IF lastFailed[c] \in gone THEN 0 ELSE lastFailed[c]]
        /\ UNCHANGED <<nextId, req, mainAgent, worktree>>
    BY <1>8 DEF DeleteIssue
  <2>2. run' \in [RunIds -> Row \cup {NoRow}]
    BY <1>t, <2>1 DEF TypeOK
  <2>3. issueStatus' \in [Issues -> {"none", "open", "done", "cancelled", "deleted"}]
    BY <1>t, <1>8 DEF TypeOK, DeleteIssue
  <2>4. lastFailed' \in [RunIds -> RunIds \cup {0}]
    BY <1>t, <2>1 DEF TypeOK
  <2>5. \A r \in Rows' : run'[r] = run[r] /\ r \in Rows
    BY <2>1 DEF Rows, NoRow
  <2>6. FreshIds'
    BY <2>1 DEF TypeInv, FreshIds
  <2>7. LastFailedIsFailed'
    BY <1>t, <2>1 DEF TypeInv, TypeOK, LastFailedIsFailed, Rows
  <2>. QED
    BY <1>t, <2>1, <2>2, <2>3, <2>4, <2>5, <2>6, <2>7 DEF TypeInv, TypeOK
<1>9. ASSUME NEW r \in RunIds, ClaimNextRun(r)
      PROVE  TypeInv'
  <2>1. run[r] \in Row /\ run[r].status = "queued"
    BY <1>a, <1>9 DEF ClaimNextRun, Claimable
  <2>2. (~worktree[Ws(r)]) \in BOOLEAN
    OBVIOUS
  <2>3. /\ run' \in [RunIds -> Row \cup {NoRow}]
        /\ run'[r].status = "running" /\ run'[r].agent = run[r].agent
        /\ run'[r].attempt = run[r].attempt
        /\ \A q \in RunIds : q # r => run'[q] = run[q]
    BY <1>t, <1>9, <2>1, <2>2 DEF TypeOK, ClaimNextRun, Row
  <2>4. FreshIds' /\ LastFailedIsFailed'
    BY <1>t, <1>9, <2>1, <2>3 DEF TypeInv, TypeOK, FreshIds, LastFailedIsFailed, ClaimNextRun, NoRow
  <2>5. \A q \in Rows' : run'[q].attempt <= RetryMax[run'[q].agent]
    BY <1>t, <2>1, <2>3 DEF TypeOK, Rows
  <2>. QED
    BY <1>t, <1>9, <2>3, <2>4, <2>5 DEF TypeInv, TypeOK, ClaimNextRun
<1>10. ASSUME NEW r \in RunIds, CompleteDone(r)
       PROVE  TypeInv'
  <2>1. issueStatus' \in [Issues -> {"none", "open", "done", "cancelled", "deleted"}]
    BY <1>t, <1>10 DEF TypeOK, CompleteDone
  <2>. QED
    BY <1>10, <2>1, EndKeepsTypeInv DEF CompleteDone
<1>11. ASSUME NEW r \in RunIds, CompleteFailed(r)
       PROVE  TypeInv'
  BY <1>t, <1>11, EndKeepsTypeInv DEF TypeOK, CompleteFailed
<1>12. ASSUME NEW r \in RunIds, NEW a \in Agents, CompleteChained(r, a)
       PROVE  TypeInv'
  <2>. DEFINE row == NewRow(run[r].issue, a, run[r].chain,
                            IF IsMain(a) THEN run[r].depth ELSE run[r].depth + 1,
                            IF IsMain(a) THEN "main" ELSE "worker")
  <2>1. run[r] \in Row /\ run[r].status = "running"
    BY <1>a, <1>12 DEF CompleteChained
  <2>2. nextId \in RunIds /\ nextId' = nextId + 1 /\ nextId' \in 1..(MaxRuns + 1)
    BY <1>t, <1>12, BoundsAssumption DEF TypeOK, CompleteChained, RunIds
  <2>3. row \in Row
    BY <2>1 DEF NewRow, Row, Origin
  <2>4. run[nextId] = NoRow /\ nextId # r
    BY <2>1, <2>2 DEF TypeInv, FreshIds, RunIds, NoRow
  <2>5. /\ run' \in [RunIds -> Row \cup {NoRow}]
        /\ run'[nextId] = row
        /\ run'[r].status = "done" /\ run'[r].attempt = run[r].attempt
        /\ run'[r].agent = run[r].agent
        /\ \A q \in RunIds : q # r /\ q # nextId => run'[q] = run[q]
    <3>. HIDE DEF row
    <3>1. run' = [run EXCEPT ![r].status = "done", ![r].serial = FALSE, ![nextId] = row]
      BY <1>12 DEF CompleteChained, row
    <3>. QED
      BY <1>t, <2>1, <2>2, <2>3, <2>4, <3>1 DEF TypeOK, Row
  <2>6. FreshIds'
    BY <1>t, <2>1, <2>2, <2>5 DEF TypeInv, FreshIds, RunIds, NoRow
  <2>7. LastFailedIsFailed'
    BY <1>t, <1>12, <2>1, <2>4, <2>5 DEF TypeInv, TypeOK, LastFailedIsFailed, NoRow, CompleteChained
  <2>8. \A q \in Rows' : run'[q].attempt <= RetryMax[run'[q].agent]
    BY <1>t, <2>1, <2>5, RetryAssumption DEF TypeOK, Rows, NewRow
  <2>. QED
    BY <1>t, <1>12, <2>2, <2>5, <2>6, <2>7, <2>8 DEF TypeInv, TypeOK, CompleteChained
<1>13. ASSUME NEW r \in RunIds, FailInfrastructureRun(r)
       PROVE  TypeInv'
  BY <1>t, <1>13, EndKeepsTypeInv DEF TypeOK, FailInfrastructureRun
<1>14. ASSUME NEW r \in RunIds, RescheduleRunForRetry(r)
       PROVE  TypeInv'
  <2>1. run[r] \in Row /\ run[r].status = "running"
    BY <1>a, <1>14 DEF RescheduleRunForRetry
  <2>2. /\ run' \in [RunIds -> Row \cup {NoRow}]
        /\ run'[r].status = "queued" /\ run'[r].agent = run[r].agent
        /\ run'[r].attempt = run[r].attempt + 1
        /\ \A q \in RunIds : q # r => run'[q] = run[q]
    BY <1>t, <1>14, <2>1 DEF TypeOK, RescheduleRunForRetry, Row
  <2>3. FreshIds' /\ LastFailedIsFailed'
    BY <1>t, <1>14, <2>1, <2>2
       DEF TypeInv, TypeOK, FreshIds, LastFailedIsFailed, RescheduleRunForRetry, NoRow
  <2>4. \A q \in Rows' : run'[q].attempt <= RetryMax[run'[q].agent]
    BY <1>t, <1>14, <2>1, <2>2, RetryAssumption DEF TypeOK, Rows, Row, RescheduleRunForRetry
  <2>. QED
    BY <1>t, <1>14, <2>2, <2>3, <2>4 DEF TypeInv, TypeOK, RescheduleRunForRetry
<1>15. ASSUME NEW r \in RunIds, CancelRunWithReason(r)
       PROVE  TypeInv'
  BY <1>t, <1>15, EndKeepsTypeInv DEF TypeOK, CancelRunWithReason
<1>16. ASSUME NEW c \in RunIds, CancelRunsByChain(c)
       PROVE  TypeInv'
  BY <1>t, <1>16, EndKeepsTypeInv DEF TypeOK, CancelRunsByChain, ActiveRows
<1>17. ASSUME RecoverOrphanRuns
       PROVE  TypeInv'
  BY <1>t, <1>17, EndKeepsTypeInv DEF TypeOK, RecoverOrphanRuns, With
<1>18. ASSUME NEW S \in SUBSET RunIds, RecoverStaleRuns(S)
       PROVE  TypeInv'
  BY <1>t, <1>18, EndKeepsTypeInv DEF TypeOK, RecoverStaleRuns, With
<1>19. ASSUME NEW a \in Agents, PromoteAgent(a)
       PROVE  TypeInv'
  BY <1>t, <1>19, NoRowKeepsTypeInv DEF TypeOK, PromoteAgent
<1>20. ASSUME NEW w \in Workspaces, NEW b \in BOOLEAN, UpdateWorkspace(w, b)
       PROVE  TypeInv'
  BY <1>t, <1>20, NoRowKeepsTypeInv DEF TypeOK, UpdateWorkspace
<1>21. ASSUME NEW r \in RunIds, RetryDue(r)
       PROVE  TypeInv'
  <2>1. run[r] \in Row /\ run[r].status = "queued"
    BY <1>a, <1>21 DEF RetryDue
  <2>2. /\ run' \in [RunIds -> Row \cup {NoRow}]
        /\ run'[r].status = run[r].status /\ run'[r].agent = run[r].agent
        /\ run'[r].attempt = run[r].attempt
        /\ \A q \in RunIds : q # r => run'[q] = run[q]
    BY <1>t, <1>21, <2>1 DEF TypeOK, RetryDue, Row
  <2>3. FreshIds' /\ LastFailedIsFailed'
    BY <1>t, <1>21, <2>1, <2>2 DEF TypeInv, TypeOK, FreshIds, LastFailedIsFailed, RetryDue, NoRow
  <2>4. \A q \in Rows' : run'[q].attempt <= RetryMax[run'[q].agent]
    BY <1>t, <2>1, <2>2 DEF TypeOK, Rows
  <2>. QED
    BY <1>t, <1>21, <2>2, <2>3, <2>4 DEF TypeInv, TypeOK, RetryDue
<1>22. ASSUME DayPasses
       PROVE  TypeInv'
  <2>1. \A r \in Rows : run[r] \in Row /\ [run[r] EXCEPT !.recent = FALSE] \in Row
    BY <1>a DEF Rows, Row
  <2>2. /\ run' \in [RunIds -> Row \cup {NoRow}]
        /\ \A r \in RunIds \ Rows : run'[r] = run[r]
        /\ \A r \in Rows : /\ run'[r].status = run[r].status
                           /\ run'[r].agent = run[r].agent
                           /\ run'[r].attempt = run[r].attempt
    BY <1>t, <1>22, <2>1 DEF TypeOK, DayPasses, Rows, Row
  <2>3. FreshIds' /\ LastFailedIsFailed'
    BY <1>t, <1>22, <2>2 DEF TypeInv, TypeOK, FreshIds, LastFailedIsFailed, DayPasses, NoRow, Rows
  <2>4. \A r \in Rows' : run'[r].attempt <= RetryMax[run'[r].agent]
    BY <1>t, <2>2 DEF TypeOK, Rows
  <2>. QED
    BY <1>t, <1>22, <2>2, <2>3, <2>4 DEF TypeInv, TypeOK, DayPasses
<1>23. CASE UNCHANGED vars
  BY <1>t, <1>23, NoRowKeepsTypeInv DEF TypeOK, vars
<1>. QED
  BY <1>1, <1>2, <1>3, <1>4, <1>5, <1>6, <1>7, <1>8, <1>9, <1>10, <1>11, <1>12, <1>13,
     <1>14, <1>15, <1>16, <1>17, <1>18, <1>19, <1>20, <1>21, <1>22, <1>23
     DEF Next, Finish

\* The empty tables satisfy the invariant.
LEMMA InitTypeInv == Init => TypeInv
<1>. SUFFICES ASSUME Init PROVE TypeInv
  OBVIOUS
<1>1. 1 \in 1..(MaxRuns + 1)
  BY BoundsAssumption
<1>2. Rows = {}
  BY DEF Init, Rows, NoRow
<1>3. FreshIds /\ LastFailedIsFailed
  BY DEF Init, FreshIds, LastFailedIsFailed
<1>. QED
  BY <1>1, <1>2, <1>3 DEF Init, TypeInv, TypeOK

\* The types and the two facts about ids hold in every reachable state.
THEOREM TypeInvariant == Spec => []TypeInv
  BY InitTypeInv, StepKeepsTypeInv, PTL DEF Spec

\* Every reachable state of the run queue has the types of the tables, and no
\* run is ever given more attempts than its agent's policy grants.
THEOREM TypeCorrect == Spec => []TypeOK
<1>1. TypeInv => TypeOK
  BY DEF TypeInv
<1>. QED
  BY <1>1, TypeInvariant, PTL
-----------------------------------------------------------------------------
(* What a step does to one row.                                            *)

IsChainRetry(h) == req[h] # NoRequest /\ req[h].op = "chainRetry"

\* Row r, new, was dispatched to a worker by the completion of row q.
SentToWorker(r, q) ==
  /\ run'[r].via = "worker"
  /\ run'[r].depth = run[q].depth + 1
  /\ AutoChainWithinDailyGuards(Ws(q))
  /\ \A p \in Rows : ~ /\ run[p].issue = run[q].issue
                       /\ run[p].agent = run'[r].agent
                       /\ run[p].chain = run[q].chain

\* The columns written at the insert stay; a row may only leave the daily window.
Keeps(r) ==
  /\ run'[r].issue = run[r].issue
  /\ run'[r].agent = run[r].agent
  /\ run'[r].chain = run[r].chain
  /\ run'[r].depth = run[r].depth
  /\ run'[r].via = run[r].via
  /\ run'[r].recent => run[r].recent

Unmoved(r) ==
  \/ run'[r] = run[r]
  \/ Keeps(r) /\ run'[r].status = run[r].status /\ run'[r].serial = run[r].serial

Ends(r) == run[r].status \in Active /\ run'[r].status \in Terminal /\ Keeps(r)

IsClaimed(r) ==
  /\ Claimable(r)
  /\ run'[r].status = "running"
  /\ run'[r].serial = ~worktree[Ws(r)]
  /\ Keeps(r)
  /\ \A q \in RunIds : q # r => run'[q] = run[q]
  /\ UNCHANGED issueStatus

Requeues(r) == run[r].status = "running" /\ run'[r].status = "queued" /\ Keeps(r)

\* A new row begins a chain, continues the one of a chain retry, or follows a row
\* of its chain; a worker is sent to a chain that has not met it, below the limits.
Joins(r) ==
  \/ run'[r].via = "user" /\ run'[r].chain = r
  \/ /\ run'[r].via = "retry"
     /\ \E h \in Handlers : /\ IsChainRetry(h)
                            /\ run'[r].chain = req[h].chain
                            /\ run'[r].issue = req[h].issue
  \/ \E q \in Rows : /\ run'[r].chain = run[q].chain
                     /\ run'[r].issue = run[q].issue
                     /\ run'[r].via = "main" \/ SentToWorker(r, q)

\* A new row's issue is reopened, or it follows a running row of its issue; its
\* depth is that of a request, of a row, or one more below the limit.
IsEnqueued(r) ==
  /\ r = nextId
  /\ run[r] = NoRow
  /\ Joins(r)
  /\ run'[r].status = "queued"
  /\ \/ issueStatus'[run'[r].issue] = "open"
     \/ /\ UNCHANGED issueStatus
        /\ \E q \in With("running") : run[q].issue = run'[r].issue
  /\ \/ run'[r].depth = 0
     \/ \E h \in Handlers : req[h] # NoRequest /\ run'[r].depth = req[h].depth
     \/ \E q \in Rows : run'[r].depth = run[q].depth
     \/ \E q \in Rows : run[q].depth < MaxDepth /\ run'[r].depth = run[q].depth + 1

IsRemoved(r) == run[r].status \in Terminal /\ run'[r] = NoRow

RowStep(r) ==
  Unmoved(r) \/ Ends(r) \/ IsClaimed(r) \/ Requeues(r) \/ IsEnqueued(r) \/ IsRemoved(r)

\* SetStatus ends the rows it is given and leaves the others.
LEMMA EndRowStep ==
  ASSUME TypeInv, NEW S \in SUBSET RunIds, \A r \in S : run[r].status \in Active,
         NEW s \in Terminal, SetStatus(S, s)
  PROVE  \A r \in RunIds : RowStep(r)
<1>1. run \in [RunIds -> Row \cup {NoRow}]
  BY DEF TypeInv, TypeOK
<1>2. /\ \A r \in RunIds \ S : run'[r] = run[r]
      /\ \A r \in S : run'[r].status = s /\ Keeps(r)
  BY <1>1, SetStatusRows DEF Keeps
<1>. QED
  BY <1>2 DEF RowStep, Unmoved, Ends

\* InsertRun adds one row and leaves the others.
LEMMA InsertRowStep ==
  ASSUME TypeInv, NEW i \in Issues, NEW a \in Agents, NEW c \in RunIds, NEW d \in Nat,
         NEW v \in Origin, InsertRun(i, a, c, d, v),
         issueStatus' = [issueStatus EXCEPT ![i] = "open"],
         d = 0 \/ \E h \in Handlers : req[h] # NoRequest /\ d = req[h].depth,
         \/ v = "user" /\ c = nextId
         \/ /\ v = "retry"
            /\ \E h \in Handlers : IsChainRetry(h) /\ c = req[h].chain /\ i = req[h].issue
  PROVE  \A r \in RunIds : RowStep(r)
<1>1. nextId \in RunIds
  BY BoundsAssumption DEF TypeInv, TypeOK, InsertRun, RunIds
<1>2. run[nextId] = NoRow
  BY <1>1 DEF TypeInv, FreshIds, RunIds
<1>3. /\ run'[nextId] = NewRow(i, a, c, d, v)
      /\ \A r \in RunIds : r # nextId => run'[r] = run[r]
  BY <1>1 DEF TypeInv, TypeOK, InsertRun
<1>4. issueStatus'[i] = "open"
  BY DEF TypeInv, TypeOK
<1>5. IsEnqueued(nextId)
  BY <1>2, <1>3, <1>4 DEF IsEnqueued, Joins, NewRow
<1>. QED
  BY <1>3, <1>5 DEF RowStep, Unmoved

\* Every step does one of the six things to every row.
LEMMA StepRows == TypeInv /\ [Next]_vars => \A r \in RunIds : RowStep(r)
<1>. SUFFICES ASSUME TypeInv, [Next]_vars PROVE \A r \in RunIds : RowStep(r)
  OBVIOUS
<1>t. TypeOK
  BY DEF TypeInv
<1>a. \A r \in RunIds : run[r].status # "none" => run[r] \in Row
  BY <1>t, RowOrNot DEF TypeOK
<1>b. \A r \in RunIds : run[r].status \in Active => run[r] \in Row
  BY <1>a DEF Active
<1>c. nextId <= MaxRuns => nextId \in RunIds
  BY <1>t, BoundsAssumption DEF TypeOK, RunIds
<1>0. ASSUME UNCHANGED run PROVE \A r \in RunIds : RowStep(r)
  BY <1>0 DEF RowStep, Unmoved
<1>1. ASSUME NEW i \in Issues, NEW a \in Agents,
             CreateIssueWithInitialRun(i, a) \/ AddUserComment(i, a)
      PROVE  \A r \in RunIds : RowStep(r)
  <2>1. nextId \in RunIds /\ InsertRun(i, a, nextId, 0, "user")
    BY <1>c, <1>1 DEF CreateIssueWithInitialRun, AddUserComment, InsertRun
  <2>2. issueStatus' = [issueStatus EXCEPT ![i] = "open"]
    BY <1>1 DEF CreateIssueWithInitialRun, AddUserComment
  <2>. QED
    BY <2>1, <2>2, InsertRowStep DEF Origin
<1>2. ASSUME NEW h \in Handlers, RequestInsert(h)
      PROVE  \A r \in RunIds : RowStep(r)
  <2>1. req[h] \in Request /\ req[h] # NoRequest
    BY <1>t, <1>2 DEF TypeOK, RequestInsert
  <2>2. nextId \in RunIds
    BY <1>c, <1>2 DEF RequestInsert, InsertRun
  <2>3. PICK c \in RunIds, v \in Origin :
          /\ InsertRun(req[h].issue, req[h].agent, c, req[h].depth, v)
          /\ \/ v = "user" /\ c = nextId
             \/ v = "retry" /\ IsChainRetry(h) /\ c = req[h].chain
    <3>1. CASE req[h].op = "rerun"
      BY <1>2, <2>2, <3>1 DEF RequestInsert, Origin
    <3>2. CASE req[h].op # "rerun"
      <4>1. IsChainRetry(h) /\ req[h].chain \in RunIds
        BY <2>1, <3>2 DEF Request, IsChainRetry
      <4>. QED
        BY <1>2, <3>2, <4>1 DEF RequestInsert, Origin
    <3>. QED
      BY <3>1, <3>2
  <2>4. req[h].issue \in Issues /\ req[h].agent \in Agents /\ req[h].depth \in Nat
    BY <2>1 DEF Request
  <2>5. issueStatus' = [issueStatus EXCEPT ![req[h].issue] = "open"]
    BY <1>2 DEF RequestInsert
  <2>. QED
    BY <2>1, <2>3, <2>4, <2>5, InsertRowStep
<1>3. ASSUME NEW i \in Issues, NEW s \in {"open", "done", "cancelled"}, UpdateIssue(i, s)
      PROVE  \A r \in RunIds : RowStep(r)
  <2>1. CASE s = "cancelled"
    BY <1>3, <2>1, EndRowStep DEF UpdateIssue, With, Active, Terminal
  <2>2. CASE s # "cancelled"
    BY <1>0, <1>3, <2>2 DEF UpdateIssue
  <2>. QED
    BY <2>1, <2>2
<1>4. ASSUME NEW i \in Issues, DeleteIssue(i), NEW r \in RunIds
      PROVE  RowStep(r)
  <2>1. CASE run[r].status # "none" /\ run[r].issue = i
    <3>1. run[r] \in Row /\ run[r].status \notin Active
      BY <1>a, <1>4, <2>1 DEF DeleteIssue, IssueActive, ActiveRows
    <3>2. run[r].status \in Terminal
      BY <3>1 DEF Row
    <3>3. run'[r] = NoRow
      BY <1>4, <2>1 DEF DeleteIssue, Rows
    <3>. QED
      BY <3>2, <3>3 DEF RowStep, IsRemoved
  <2>2. CASE ~(run[r].status # "none" /\ run[r].issue = i)
    <3>1. run'[r] = run[r]
      BY <1>4, <2>2 DEF DeleteIssue, Rows
    <3>. QED
      BY <3>1 DEF RowStep, Unmoved
  <2>. QED
    BY <2>1, <2>2
<1>5. ASSUME NEW r \in RunIds, ClaimNextRun(r)
      PROVE  \A q \in RunIds : RowStep(q)
  <2>1. Claimable(r) /\ run[r] \in Row
    BY <1>b, <1>5 DEF ClaimNextRun, Claimable, Active
  <2>2. /\ run'[r].status = "running" /\ run'[r].serial = ~worktree[Ws(r)]
        /\ Keeps(r)
        /\ \A q \in RunIds : q # r => run'[q] = run[q]
        /\ UNCHANGED issueStatus
    BY <1>t, <1>5, <2>1 DEF TypeOK, ClaimNextRun, Row, Keeps
  <2>. QED
    BY <2>1, <2>2 DEF RowStep, IsClaimed, Unmoved
<1>6. ASSUME NEW r \in RunIds,
             CompleteDone(r) \/ CompleteFailed(r) \/ FailInfrastructureRun(r) \/ CancelRunWithReason(r)
      PROVE  \A q \in RunIds : RowStep(q)
  BY <1>6, EndRowStep
     DEF CompleteDone, CompleteFailed, FailInfrastructureRun, CancelRunWithReason, Active, Terminal
<1>7. ASSUME NEW r \in RunIds, NEW a \in Agents, CompleteChained(r, a)
      PROVE  \A q \in RunIds : RowStep(q)
  <2>. DEFINE d == IF IsMain(a) THEN run[r].depth ELSE run[r].depth + 1
              row == NewRow(run[r].issue, a, run[r].chain, d,
                            IF IsMain(a) THEN "main" ELSE "worker")
  <2>1. run[r] \in Row /\ r \in Rows /\ r \in With("running")
    BY <1>a, <1>7 DEF CompleteChained, Rows, With
  <2>2. nextId \in RunIds
    BY <1>c, <1>7 DEF CompleteChained
  <2>3. run[nextId] = NoRow /\ nextId # r
    BY <2>1, <2>2 DEF TypeInv, FreshIds, RunIds, NoRow, Rows
  <2>4. /\ row.status = "queued" /\ row.issue = run[r].issue /\ row.depth = d
        /\ row.agent = a /\ row.chain = run[r].chain
        /\ row.via = IF IsMain(a) THEN "main" ELSE "worker"
    BY DEF NewRow
  <2>5. d = run[r].depth \/ (run[r].depth < MaxDepth /\ d = run[r].depth + 1)
    BY <1>7 DEF CompleteChained, CheckAutoChainGuards
  <2>6. /\ run'[nextId] = row
        /\ run'[r].status = "done"
        /\ Keeps(r)
        /\ \A q \in RunIds : q # r /\ q # nextId => run'[q] = run[q]
    <3>. HIDE DEF row
    <3>1. run' = [run EXCEPT ![r].status = "done", ![r].serial = FALSE, ![nextId] = row]
      BY <1>7 DEF CompleteChained, row, d
    <3>. QED
      BY <1>t, <2>1, <2>2, <2>3, <3>1 DEF TypeOK, Row, Keeps
  <2>7. UNCHANGED issueStatus
    BY <1>7 DEF CompleteChained
  <2>10. ~IsMain(a) => /\ d = run[r].depth + 1
                       /\ AutoChainWithinDailyGuards(Ws(r))
                       /\ \A p \in Rows : ~ /\ run[p].issue = run[r].issue
                                            /\ run[p].agent = a
                                            /\ run[p].chain = run[r].chain
    BY <1>7 DEF CompleteChained, CheckAutoChainGuards, CheckAutoChainDispatchDuplicates
  <2>. HIDE DEF row, d
  <2>11. Joins(nextId)
    BY <2>1, <2>4, <2>6, <2>10 DEF Joins, SentToWorker
  <2>8. IsEnqueued(nextId)
    BY <2>1, <2>3, <2>4, <2>5, <2>6, <2>7, <2>11 DEF IsEnqueued
  <2>9. Ends(r)
    BY <1>7, <2>6 DEF Ends, CompleteChained, Active, Terminal
  <2>. QED
    BY <2>6, <2>8, <2>9 DEF RowStep, Unmoved
<1>8. ASSUME NEW r \in RunIds, RescheduleRunForRetry(r)
      PROVE  \A q \in RunIds : RowStep(q)
  <2>1. run[r] \in Row /\ run[r].status = "running"
    BY <1>a, <1>8 DEF RescheduleRunForRetry
  <2>2. /\ run'[r].status = "queued"
        /\ Keeps(r)
        /\ \A q \in RunIds : q # r => run'[q] = run[q]
    BY <1>t, <1>8, <2>1 DEF TypeOK, RescheduleRunForRetry, Row, Keeps
  <2>. QED
    BY <2>1, <2>2 DEF RowStep, Unmoved, Requeues
<1>9. ASSUME NEW c \in RunIds, CancelRunsByChain(c)
      PROVE  \A q \in RunIds : RowStep(q)
  BY <1>9, EndRowStep DEF CancelRunsByChain, ActiveRows, Terminal
<1>10. ASSUME RecoverOrphanRuns \/ \E S \in SUBSET RunIds : RecoverStaleRuns(S)
       PROVE  \A q \in RunIds : RowStep(q)
  BY <1>10, EndRowStep DEF RecoverOrphanRuns, RecoverStaleRuns, With, Active, Terminal
<1>11. ASSUME NEW r \in RunIds, RetryDue(r)
       PROVE  \A q \in RunIds : RowStep(q)
  <2>1. run[r] \in Row
    BY <1>a, <1>11 DEF RetryDue
  <2>2. /\ run'[r].status = run[r].status /\ run'[r].serial = run[r].serial
        /\ Keeps(r)
        /\ \A q \in RunIds : q # r => run'[q] = run[q]
    BY <1>t, <1>11, <2>1 DEF TypeOK, RetryDue, Row, Keeps
  <2>. QED
    BY <2>2 DEF RowStep, Unmoved
<1>12. ASSUME DayPasses
       PROVE  \A q \in RunIds : RowStep(q)
  <2>1. \A r \in Rows : run[r] \in Row
    BY <1>a DEF Rows
  <2>2. /\ \A r \in RunIds \ Rows : run'[r] = run[r]
        /\ \A r \in Rows : /\ run'[r].status = run[r].status
                           /\ run'[r].serial = run[r].serial
                           /\ Keeps(r)
    BY <1>t, <1>12, <2>1 DEF TypeOK, DayPasses, Rows, Row, Keeps
  <2>. QED
    BY <2>2 DEF RowStep, Unmoved
<1>13. ASSUME \/ \E h \in Handlers, i \in Issues, a \in Agents : RerunIssueCheck(h, i, a)
              \/ \E h \in Handlers, c \in RunIds : RetryFailedRunInChainCheck(h, c)
              \/ \E h \in Handlers : RequestRefused(h)
              \/ \E a \in Agents : PromoteAgent(a)
              \/ \E w \in Workspaces, b \in BOOLEAN : UpdateWorkspace(w, b)
              \/ UNCHANGED vars
       PROVE  \A q \in RunIds : RowStep(q)
  <2>1. UNCHANGED run
    BY <1>13 DEF RerunIssueCheck, RetryFailedRunInChainCheck, RequestRefused, PromoteAgent,
                 UpdateWorkspace, vars
  <2>. QED
    BY <1>0, <2>1
<1>. QED
  BY <1>1, <1>2, <1>3, <1>4, <1>5, <1>6, <1>7, <1>8, <1>9, <1>10, <1>11, <1>12, <1>13
     DEF Next, Finish

\* A run that is done, failed or cancelled keeps that status until its issue is
\* deleted, for any number of runs and whatever finishes, cancels, retries or
\* recovers them (the "AND status='running'" guards of the store's UPDATEs).
THEOREM TerminalForGood == Spec => TerminalIsFinal
<1>1. TypeInv /\ [Next]_vars =>
        [\A r \in RunIds : run[r].status \in Terminal
                             => run'[r].status \in {run[r].status, "none"}]_run
  BY StepRows
     DEF RowStep, Unmoved, Ends, IsClaimed, Claimable, Requeues, IsEnqueued, IsRemoved,
         Active, Terminal, NoRow
<1>. QED
  BY <1>1, TypeInvariant, PTL DEF Spec, TerminalIsFinal
-----------------------------------------------------------------------------
(* The safety properties, proved together                                  *)

\* What a step does to the status of an issue: it stays, becomes open, closes an
\* issue without active runs, or auto-closes an issue of a workspace that asks for it.
IssueStep(i) ==
  \/ issueStatus'[i] = issueStatus[i]
  \/ issueStatus'[i] = "open"
  \/ \A r \in RunIds : run'[r].status \in Active => run'[r].issue # i
  \/ AutoClose[IssueWs[i]] /\ issueStatus'[i] = "done"

\* Every step does one of these to every issue.
LEMMA StepIssues == TypeInv /\ [Next]_vars => \A i \in Issues : IssueStep(i)
<1>. SUFFICES ASSUME TypeInv, [Next]_vars, NEW j \in Issues PROVE IssueStep(j)
  OBVIOUS
<1>t. TypeOK
  BY DEF TypeInv
<1>a. \A r \in RunIds : run[r].status # "none" => run[r] \in Row
  BY <1>t, RowOrNot DEF TypeOK
<1>1. ASSUME NEW i \in Issues, NEW a \in Agents,
             CreateIssueWithInitialRun(i, a) \/ AddUserComment(i, a)
      PROVE  IssueStep(j)
  BY <1>t, <1>1 DEF TypeOK, IssueStep, CreateIssueWithInitialRun, AddUserComment
<1>2. ASSUME NEW h \in Handlers, RequestInsert(h)
      PROVE  IssueStep(j)
  BY <1>t, <1>2 DEF TypeOK, IssueStep, RequestInsert
<1>3. ASSUME NEW i \in Issues, NEW s \in {"open", "done", "cancelled"}, UpdateIssue(i, s)
      PROVE  IssueStep(j)
  <2>1. CASE j # i \/ s = "open"
    BY <1>t, <1>3, <2>1 DEF TypeOK, IssueStep, UpdateIssue
  <2>2. CASE j = i /\ s = "done"
    BY <1>3, <2>2 DEF IssueStep, UpdateIssue, IssueActive, ActiveRows
  <2>3. CASE j = i /\ s = "cancelled"
    <3>. DEFINE S == {r \in With("queued") : run[r].issue = i}
    <3>1. SetStatus(S, "cancelled") /\ ~IssueBusy(i)
      BY <1>3, <2>3 DEF UpdateIssue
    <3>2. \A r \in RunIds : r \notin S => run'[r] = run[r]
      BY <3>1 DEF SetStatus
    <3>3. \A r \in S : run'[r].status = "cancelled"
      BY <1>t, <3>1, SetStatusRows DEF TypeOK, With, Active, Terminal
    <3>. QED
      BY <2>3, <3>1, <3>2, <3>3 DEF IssueStep, IssueBusy, With, Active
  <2>. QED
    BY <2>1, <2>2, <2>3
<1>4. ASSUME NEW i \in Issues, DeleteIssue(i)
      PROVE  IssueStep(j)
  <2>1. CASE j # i
    BY <1>t, <1>4, <2>1 DEF TypeOK, IssueStep, DeleteIssue
  <2>2. CASE j = i
    <3>1. \A r \in RunIds : run'[r] = NoRow \/ run'[r] = run[r]
      BY <1>4 DEF DeleteIssue
    <3>. QED
      BY <1>4, <2>2, <3>1 DEF IssueStep, DeleteIssue, IssueActive, ActiveRows, NoRow, Active
  <2>. QED
    BY <2>1, <2>2
<1>5. ASSUME NEW r \in RunIds, CompleteDone(r)
      PROVE  IssueStep(j)
  BY <1>t, <1>5 DEF TypeOK, IssueStep, CompleteDone, Ws
<1>6. ASSUME UNCHANGED issueStatus
      PROVE  IssueStep(j)
  BY <1>6 DEF IssueStep
<1>7. ASSUME \/ \E h \in Handlers, i \in Issues, a \in Agents : RerunIssueCheck(h, i, a)
             \/ \E h \in Handlers, c \in RunIds : RetryFailedRunInChainCheck(h, c)
             \/ \E h \in Handlers : RequestRefused(h)
             \/ \E a \in Agents : PromoteAgent(a)
             \/ \E w \in Workspaces, b \in BOOLEAN : UpdateWorkspace(w, b)
             \/ \E r \in RunIds : ClaimNextRun(r) \/ RetryDue(r)
             \/ \E r \in RunIds, a \in Agents : CompleteChained(r, a)
             \/ \E r \in RunIds : CompleteFailed(r) \/ FailInfrastructureRun(r)
             \/ \E r \in RunIds : RescheduleRunForRetry(r) \/ CancelRunWithReason(r)
             \/ \E c \in RunIds : CancelRunsByChain(c)
             \/ RecoverOrphanRuns
             \/ \E S \in SUBSET RunIds : RecoverStaleRuns(S)
             \/ DayPasses
             \/ UNCHANGED vars
      PROVE  UNCHANGED issueStatus
  BY <1>7 DEF RerunIssueCheck, RetryFailedRunInChainCheck, RequestRefused, PromoteAgent,
              UpdateWorkspace, ClaimNextRun, RetryDue, CompleteChained, CompleteFailed,
              FailInfrastructureRun, RescheduleRunForRetry, CancelRunWithReason,
              CancelRunsByChain, RecoverOrphanRuns, RecoverStaleRuns, DayPasses, vars
<1>. QED
  BY <1>1, <1>2, <1>3, <1>4, <1>5, <1>6, <1>7 DEF Next, Finish

\* A chain retry read its depth from a row, so it is bounded like a row's.
RequestDepthBounded == \A h \in Handlers : req[h] # NoRequest => req[h].depth <= MaxDepth

\* What a step does to a request: it stays, goes, is a rerun just checked, or a
\* chain retry just read, with the columns of the chain's latest failed row.
RequestStep(h) ==
  \/ req'[h] = req[h]
  \/ req'[h] = NoRequest
  \/ req'[h].op = "rerun" /\ req'[h].depth = 0
  \/ /\ UNCHANGED <<run, nextId>>
     /\ \A g \in Handlers : g # h => req'[g] = req[g]
     /\ \E c \in RunIds : /\ lastFailed[c] \in Rows
                          /\ req'[h].chain = c
                          /\ req'[h].issue = run[lastFailed[c]].issue
                          /\ req'[h].depth = run[lastFailed[c]].depth

\* Every step does one of these to every request.
LEMMA StepRequests == TypeInv /\ [Next]_vars => \A h \in Handlers : RequestStep(h)
<1>. SUFFICES ASSUME TypeInv, [Next]_vars PROVE \A h \in Handlers : RequestStep(h)
  OBVIOUS
<1>t. TypeOK
  BY DEF TypeInv
<1>1. ASSUME NEW h \in Handlers, NEW i \in Issues, NEW a \in Agents, RerunIssueCheck(h, i, a)
      PROVE  \A g \in Handlers : RequestStep(g)
  BY <1>t, <1>1 DEF TypeOK, RequestStep, RerunIssueCheck
<1>2. ASSUME NEW h \in Handlers, NEW c \in RunIds, RetryFailedRunInChainCheck(h, c)
      PROVE  \A g \in Handlers : RequestStep(g)
  <2>1. lastFailed[c] \in Rows
    BY <1>t, <1>2 DEF TypeInv, TypeOK, RetryFailedRunInChainCheck, LastFailedIsFailed, Rows
  <2>2. /\ req'[h].chain = c
        /\ req'[h].issue = run[lastFailed[c]].issue
        /\ req'[h].depth = run[lastFailed[c]].depth
        /\ \A g \in Handlers : g # h => req'[g] = req[g]
        /\ UNCHANGED <<run, nextId>>
    BY <1>t, <1>2 DEF TypeOK, RetryFailedRunInChainCheck
  <2>. QED
    BY <2>1, <2>2 DEF RequestStep
<1>3. ASSUME NEW h \in Handlers, RequestInsert(h) \/ RequestRefused(h)
      PROVE  \A g \in Handlers : RequestStep(g)
  BY <1>t, <1>3 DEF TypeOK, RequestStep, RequestInsert, RequestRefused
<1>4. ASSUME UNCHANGED req
      PROVE  \A g \in Handlers : RequestStep(g)
  BY <1>4 DEF RequestStep
<1>5. ASSUME \/ \E i \in Issues, a \in Agents : CreateIssueWithInitialRun(i, a) \/ AddUserComment(i, a)
             \/ \E i \in Issues, s \in {"open", "done", "cancelled"} : UpdateIssue(i, s)
             \/ \E i \in Issues : DeleteIssue(i)
             \/ \E a \in Agents : PromoteAgent(a)
             \/ \E w \in Workspaces, b \in BOOLEAN : UpdateWorkspace(w, b)
             \/ \E r \in RunIds : ClaimNextRun(r) \/ RetryDue(r)
             \/ \E r \in RunIds, a \in Agents : CompleteChained(r, a)
             \/ \E r \in RunIds : CompleteDone(r) \/ CompleteFailed(r) \/ FailInfrastructureRun(r)
             \/ \E r \in RunIds : RescheduleRunForRetry(r) \/ CancelRunWithReason(r)
             \/ \E c \in RunIds : CancelRunsByChain(c)
             \/ RecoverOrphanRuns
             \/ \E S \in SUBSET RunIds : RecoverStaleRuns(S)
             \/ DayPasses
             \/ UNCHANGED vars
      PROVE  UNCHANGED req
  BY <1>5 DEF CreateIssueWithInitialRun, AddUserComment, UpdateIssue, DeleteIssue, PromoteAgent,
              UpdateWorkspace, ClaimNextRun, RetryDue, CompleteChained, CompleteDone,
              CompleteFailed, FailInfrastructureRun, RescheduleRunForRetry,
              CancelRunWithReason, CancelRunsByChain, RecoverOrphanRuns, RecoverStaleRuns,
              DayPasses, vars
<1>. QED
  BY <1>1, <1>2, <1>3, <1>4, <1>5 DEF Next, Finish

\* The inductive invariant.
SafetyInv ==
  /\ TypeInv
  /\ OneRunningPerIssue
  /\ SerialRunsExclude
  /\ ActiveRunKeepsIssueOpen
  /\ ChainDepthBounded
  /\ RequestDepthBounded

\* A row that is running after a step was running before it, with the same issue
\* and was serialised as it is, unless it was claimed by the step.
LEMMA RunningBefore ==
  ASSUME TypeInv, NEW r \in RunIds, RowStep(r), run'[r].status = "running"
  PROVE  \/ IsClaimed(r)
         \/ /\ run[r].status = "running"
            /\ run'[r].issue = run[r].issue
            /\ run'[r].serial = run[r].serial
  BY DEF RowStep, Unmoved, Ends, Requeues, IsEnqueued, IsRemoved, Keeps, Terminal, NoRow

\* Every step keeps the inductive invariant.
LEMMA StepKeepsSafetyInv == SafetyInv /\ [Next]_vars => SafetyInv'
<1>. SUFFICES ASSUME SafetyInv, [Next]_vars PROVE SafetyInv'
  OBVIOUS
<1>1. TypeInv /\ TypeInv'
  BY StepKeepsTypeInv DEF SafetyInv
<1>2. \A r \in RunIds : RowStep(r)
  BY <1>1, StepRows
<1>3. \A i \in Issues : IssueStep(i)
  BY <1>1, StepIssues
<1>4. /\ \A r \in RunIds : run[r].status # "none" => run[r] \in Row
      /\ \A r \in RunIds : run'[r].status # "none" => run'[r] \in Row
  BY <1>1 DEF TypeInv, TypeOK, Row, NoRow, Active, Terminal
<1>5. OneRunningPerIssue'
  <2>. SUFFICES ASSUME NEW r \in RunIds, NEW q \in RunIds, r # q,
                       run'[r].status = "running", run'[q].status = "running",
                       run'[r].issue = run'[q].issue
                PROVE  FALSE
    BY DEF OneRunningPerIssue, With
  <2>1. ASSUME NEW x \in RunIds, NEW y \in RunIds, x # y, IsClaimed(x),
               run'[y].status = "running", run'[x].issue = run'[y].issue
        PROVE  FALSE
    BY <2>1 DEF IsClaimed, Claimable, IssueBusy, With, Keeps
  <2>2. CASE ~IsClaimed(r) /\ ~IsClaimed(q)
    BY <1>1, <1>2, <2>2, RunningBefore DEF SafetyInv, OneRunningPerIssue, With
  <2>. QED
    BY <2>1, <2>2
<1>6. SerialRunsExclude'
  <2>. SUFFICES ASSUME NEW r \in RunIds, NEW q \in RunIds, r # q,
                       run'[r].status = "running", run'[q].status = "running",
                       run'[r].serial, run'[q].serial,
                       IssueWs[run'[r].issue] = IssueWs[run'[q].issue]
                PROVE  FALSE
    BY DEF SerialRunsExclude, With, Ws
  <2>1. ASSUME NEW x \in RunIds, NEW y \in RunIds, x # y, IsClaimed(x),
               run'[y].status = "running", run'[x].serial,
               IssueWs[run'[x].issue] = IssueWs[run'[y].issue]
        PROVE  FALSE
    <3>1. ~worktree[Ws(x)] /\ run[y].status = "running" /\ Ws(y) = Ws(x)
      BY <2>1 DEF IsClaimed, Ws, Keeps
    <3>. QED
      BY <2>1, <3>1 DEF IsClaimed, Claimable, With
  <2>2. CASE ~IsClaimed(r) /\ ~IsClaimed(q)
    BY <1>1, <1>2, <2>2, RunningBefore DEF SafetyInv, SerialRunsExclude, With, Ws
  <2>. QED
    BY <2>1, <2>2
<1>7. ActiveRunKeepsIssueOpen'
  <2>. SUFFICES ASSUME NEW r \in RunIds, run'[r].status \in Active
                PROVE  \/ issueStatus'[run'[r].issue] = "open"
                       \/ /\ AutoClose[IssueWs[run'[r].issue]]
                          /\ issueStatus'[run'[r].issue] = "done"
    BY DEF ActiveRunKeepsIssueOpen, ActiveRows, Ws
  <2>. DEFINE Fine(i) == \/ issueStatus[i] = "open"
                         \/ AutoClose[IssueWs[i]] /\ issueStatus[i] = "done"
  <2>1. \A q \in RunIds : run[q].status \in Active => Fine(run[q].issue)
    BY DEF SafetyInv, ActiveRunKeepsIssueOpen, ActiveRows, Ws
  <2>2. run'[r].issue \in Issues
    BY <1>4 DEF Row, Active
  <2>3. CASE IsEnqueued(r)
    BY <2>1, <2>3 DEF IsEnqueued, With, Active
  <2>4. CASE ~IsEnqueued(r)
    <3>1. run[r].status \in Active /\ run'[r].issue = run[r].issue
      BY <1>2, <2>4 DEF RowStep, Unmoved, Ends, IsClaimed, Claimable, Requeues, IsRemoved,
                        Keeps, Active, Terminal, NoRow
    <3>2. Fine(run'[r].issue)
      BY <2>1, <3>1
    <3>. QED
      BY <1>3, <2>2, <3>2 DEF IssueStep
  <2>. QED
    BY <2>3, <2>4
<1>8. ChainDepthBounded'
  <2>. SUFFICES ASSUME NEW r \in RunIds, run'[r].status # "none" PROVE run'[r].depth <= MaxDepth
    BY DEF ChainDepthBounded, Rows
  <2>1. CASE IsEnqueued(r)
    <3>1. \A q \in Rows : run[q].depth \in Nat /\ run[q].depth <= MaxDepth
      BY <1>4 DEF SafetyInv, ChainDepthBounded, Rows, Row
    <3>2. \A h \in Handlers : req[h] # NoRequest => req[h].depth <= MaxDepth
      BY DEF SafetyInv, RequestDepthBounded
    <3>. QED
      BY <2>1, <3>1, <3>2, BoundsAssumption DEF IsEnqueued
  <2>2. CASE ~IsEnqueued(r)
    <3>1. run[r].status # "none" /\ run'[r].depth = run[r].depth
      BY <1>2, <2>2 DEF RowStep, Unmoved, Ends, IsClaimed, Claimable, Requeues, IsRemoved,
                        Keeps, Active, NoRow
    <3>. QED
      BY <3>1 DEF SafetyInv, ChainDepthBounded, Rows
  <2>. QED
    BY <2>1, <2>2
<1>9. RequestDepthBounded'
  <2>1. \A r \in Rows : run[r].depth <= MaxDepth
    BY DEF SafetyInv, ChainDepthBounded
  <2>2. \A h \in Handlers : RequestStep(h)
    BY <1>1, StepRequests
  <2>. QED
    BY <2>1, <2>2, BoundsAssumption DEF SafetyInv, RequestDepthBounded, RequestStep
<1>. QED
  BY <1>1, <1>5, <1>6, <1>7, <1>8, <1>9 DEF SafetyInv

\* The inductive invariant holds in every reachable state.
THEOREM SafetyInvariant == Spec => []SafetyInv
<1>1. Init => SafetyInv
  <2>. SUFFICES ASSUME Init PROVE SafetyInv
    OBVIOUS
  <2>1. TypeInv
    BY InitTypeInv
  <2>2. \A r \in RunIds : run[r].status = "none"
    BY DEF Init, NoRow
  <2>3. /\ OneRunningPerIssue /\ SerialRunsExclude
        /\ ActiveRunKeepsIssueOpen /\ ChainDepthBounded
    BY <2>2 DEF OneRunningPerIssue, SerialRunsExclude, ActiveRunKeepsIssueOpen,
                ChainDepthBounded, With, ActiveRows, Rows, Active
  <2>4. RequestDepthBounded
    BY DEF Init, RequestDepthBounded
  <2>. QED
    BY <2>1, <2>3, <2>4 DEF SafetyInv
<1>. QED
  BY <1>1, StepKeepsSafetyInv, PTL DEF Spec

\* No retry, rerun, chain retry, auto-chain dispatch, cancel or recovery ever
\* leaves two runs of one issue running (the NOT EXISTS of ClaimNextRun).
THEOREM OneRunPerIssue == Spec => []OneRunningPerIssue
<1>1. SafetyInv => OneRunningPerIssue
  BY DEF SafetyInv
<1>. QED
  BY <1>1, SafetyInvariant, PTL

\* Two runs the claim serialised never run at the same time, however often
\* per_run_worktree is switched (the second NOT EXISTS of ClaimNextRun).
THEOREM SerialRunsAlone == Spec => []SerialRunsExclude
<1>1. SafetyInv => SerialRunsExclude
  BY DEF SafetyInv
<1>. QED
  BY <1>1, SafetyInvariant, PTL

\* An active run's issue is open, or done where the workspace auto-closes
\* (UpdateIssue's guards against every enqueue that may interleave with it).
THEOREM ActiveIssueOpen == Spec => []ActiveRunKeepsIssueOpen
<1>1. SafetyInv => ActiveRunKeepsIssueOpen
  BY DEF SafetyInv
<1>. QED
  BY <1>1, SafetyInvariant, PTL

\* chain_depth never exceeds the workspace's limit, for dispatches, re-entries
\* of the main agent and chain retries alike.
THEOREM DepthBounded == Spec => []ChainDepthBounded
<1>1. SafetyInv => ChainDepthBounded
  BY DEF SafetyInv
<1>. QED
  BY <1>1, SafetyInvariant, PTL
-----------------------------------------------------------------------------
(* Chains: who visits them, and how many dispatches a day allows           *)

\* The rows of a chain and the chain retries about to join it have one issue.
ChainHasOneIssue ==
  /\ \A r, q \in Rows : run[r].chain = run[q].chain => run[r].issue = run[q].issue
  /\ \A h \in Handlers : IsChainRetry(h) =>
       \A r \in Rows : run[r].chain = req[h].chain => run[r].issue = req[h].issue
  /\ \A h, g \in Handlers :
       IsChainRetry(h) /\ IsChainRetry(g) /\ req[h].chain = req[g].chain
         => req[h].issue = req[g].issue

\* A chain is named after its first run, so no chain is named nextId yet.
ChainBegun ==
  /\ \A r \in Rows : run[r].chain < nextId
  /\ \A h \in Handlers : IsChainRetry(h) => req[h].chain < nextId

\* The latest failed run of a chain is a run of that chain.
LastFailedOfChain ==
  \A c \in RunIds : lastFailed[c] # 0 => run[lastFailed[c]].chain = c

\* A dispatch to a worker counts for the daily guard.
WorkersAreDeep == \A r \in Rows : run[r].via = "worker" => run[r].depth > 0

ChainInv ==
  /\ TypeInv
  /\ ChainHasOneIssue
  /\ ChainBegun
  /\ LastFailedOfChain
  /\ WorkersAreDeep
  /\ WorkerVisitedOnce
  /\ WorkerDispatchBudget

\* A row that is there after a step was there before it, with the same columns,
\* unless the step inserted it.
LEMMA RowBefore ==
  ASSUME TypeInv, NEW r \in RunIds, RowStep(r), run'[r].status # "none"
  PROVE  IsEnqueued(r) \/ (r \in Rows /\ Keeps(r))
  BY DEF RowStep, Unmoved, Ends, IsClaimed, Claimable, Requeues, IsRemoved, Keeps, Rows,
         Active, Terminal, NoRow

\* nextId moves when a row is inserted and never goes back.
LEMMA StepNextId ==
  ASSUME TypeInv, [Next]_vars
  PROVE  /\ nextId' \in {nextId, nextId + 1}
         /\ \A r \in RunIds : IsEnqueued(r) => nextId' = nextId + 1
<1>1. TypeInv'
  BY StepKeepsTypeInv
<1>2. nextId' \in {nextId, nextId + 1}
  BY DEF Next, Finish, vars, InsertRun, CreateIssueWithInitialRun, AddUserComment,
         RerunIssueCheck, RetryFailedRunInChainCheck, RequestInsert, RequestRefused,
         UpdateIssue, DeleteIssue, ClaimNextRun, CompleteDone, CompleteFailed,
         CompleteChained, FailInfrastructureRun, RescheduleRunForRetry,
         CancelRunWithReason, CancelRunsByChain, RecoverOrphanRuns, RecoverStaleRuns,
         PromoteAgent, UpdateWorkspace, RetryDue, DayPasses
<1>3. ASSUME NEW r \in RunIds, IsEnqueued(r) PROVE nextId' # nextId
  BY <1>1, <1>3 DEF IsEnqueued, TypeInv, FreshIds, NoRow, RunIds
<1>. QED
  BY <1>2, <1>3

\* lastFailed of a chain stays, is cleared, or moves to a row of the chain.
LEMMA StepLastFailed ==
  ASSUME TypeInv, [Next]_vars, NEW c \in RunIds
  PROVE  \/ lastFailed'[c] \in {lastFailed[c], 0}
         \/ lastFailed'[c] \in Rows /\ run[lastFailed'[c]].chain = c
<1>t. TypeOK
  BY DEF TypeInv
<1>1. ASSUME NEW r \in RunIds, CompleteFailed(r) \/ FailInfrastructureRun(r)
      PROVE  \/ lastFailed'[c] \in {lastFailed[c], 0}
             \/ lastFailed'[c] \in Rows /\ run[lastFailed'[c]].chain = c
  BY <1>t, <1>1 DEF TypeOK, CompleteFailed, FailInfrastructureRun, Rows, Active
<1>2. ASSUME NEW i \in Issues, DeleteIssue(i)
      PROVE  lastFailed'[c] \in {lastFailed[c], 0}
  BY <1>2 DEF DeleteIssue
<1>3. ASSUME \/ \E i \in Issues, a \in Agents : CreateIssueWithInitialRun(i, a) \/ AddUserComment(i, a)
             \/ \E h \in Handlers, i \in Issues, a \in Agents : RerunIssueCheck(h, i, a)
             \/ \E h \in Handlers, d \in RunIds : RetryFailedRunInChainCheck(h, d)
             \/ \E h \in Handlers : RequestInsert(h) \/ RequestRefused(h)
             \/ \E i \in Issues, s \in {"open", "done", "cancelled"} : UpdateIssue(i, s)
             \/ \E a \in Agents : PromoteAgent(a)
             \/ \E w \in Workspaces, b \in BOOLEAN : UpdateWorkspace(w, b)
             \/ \E r \in RunIds : ClaimNextRun(r) \/ RetryDue(r)
             \/ \E r \in RunIds, a \in Agents : CompleteChained(r, a)
             \/ \E r \in RunIds : CompleteDone(r)
             \/ \E r \in RunIds : RescheduleRunForRetry(r) \/ CancelRunWithReason(r)
             \/ \E d \in RunIds : CancelRunsByChain(d)
             \/ RecoverOrphanRuns
             \/ \E S \in SUBSET RunIds : RecoverStaleRuns(S)
             \/ DayPasses
             \/ UNCHANGED vars
      PROVE  UNCHANGED lastFailed
  BY <1>3 DEF CreateIssueWithInitialRun, AddUserComment, RerunIssueCheck,
              RetryFailedRunInChainCheck, RequestInsert, RequestRefused, UpdateIssue,
              PromoteAgent, UpdateWorkspace, ClaimNextRun, RetryDue, CompleteChained,
              CompleteDone, RescheduleRunForRetry, CancelRunWithReason, CancelRunsByChain,
              RecoverOrphanRuns, RecoverStaleRuns, DayPasses, vars
<1>. QED
  BY <1>1, <1>2, <1>3 DEF Next, Finish

\* The worker runs of workspace w in the daily window.
WorkerRuns(w) ==
  {r \in Rows : Ws(r) = w /\ run[r].via = "worker" /\ run[r].recent}

\* The daily guard counts at least the worker runs, so a dispatch it lets through
\* fills the budget at most.
LEMMA DispatchFitsBudget ==
  ASSUME TypeInv, WorkersAreDeep, DailyRunLimit > 0, NEW w \in Workspaces,
         AutoChainWithinDailyGuards(w), NEW n
  PROVE  /\ IsFiniteSet(WorkerRuns(w) \cup {n})
         /\ Cardinality(WorkerRuns(w) \cup {n}) \in Nat
         /\ Cardinality(WorkerRuns(w) \cup {n}) <= DailyRunLimit
<1>. DEFINE counted == {q \in Rows : Ws(q) = w /\ run[q].depth > 0 /\ run[q].recent}
<1>1. IsFiniteSet(RunIds)
  BY FS_Interval, BoundsAssumption DEF RunIds
<1>2. counted \in SUBSET RunIds /\ WorkerRuns(w) \in SUBSET counted
  BY DEF WorkerRuns, WorkersAreDeep, Rows
<1>3. IsFiniteSet(counted) /\ Cardinality(counted) \in Nat
  BY <1>1, <1>2, FS_Subset, FS_CardinalityType
<1>4. Cardinality(counted) < DailyRunLimit
  BY BoundsAssumption DEF AutoChainWithinDailyGuards
<1>. HIDE DEF counted
<1>5. /\ IsFiniteSet(WorkerRuns(w)) /\ Cardinality(WorkerRuns(w)) \in Nat
      /\ Cardinality(WorkerRuns(w)) <= Cardinality(counted)
  BY <1>2, <1>3, FS_Subset, FS_CardinalityType
<1>6. /\ IsFiniteSet(WorkerRuns(w) \cup {n})
      /\ Cardinality(WorkerRuns(w) \cup {n}) \in Nat
      /\ Cardinality(WorkerRuns(w) \cup {n}) <= Cardinality(WorkerRuns(w)) + 1
  <2>1. /\ IsFiniteSet(WorkerRuns(w) \cup {n})
        /\ Cardinality(WorkerRuns(w) \cup {n}) =
             IF n \in WorkerRuns(w) THEN Cardinality(WorkerRuns(w))
                                    ELSE Cardinality(WorkerRuns(w)) + 1
    BY <1>5, FS_AddElement
  <2>2. Cardinality(WorkerRuns(w) \cup {n}) \in Nat
    BY <2>1, FS_CardinalityType
  <2>. QED
    BY <1>5, <2>1, <2>2
<1>. QED
  BY <1>3, <1>4, <1>5, <1>6, BoundsAssumption

\* Every step keeps the chain invariant.
LEMMA StepKeepsChainInv == ChainInv /\ [Next]_vars => ChainInv'
<1>. SUFFICES ASSUME ChainInv, [Next]_vars PROVE ChainInv'
  OBVIOUS
<1>1. TypeInv /\ TypeInv'
  BY StepKeepsTypeInv DEF ChainInv
<1>2. \A r \in RunIds : RowStep(r)
  BY <1>1, StepRows
<1>3. \A r \in Rows' : r \in RunIds /\ (IsEnqueued(r) \/ (r \in Rows /\ Keeps(r)))
  BY <1>1, <1>2, RowBefore DEF Rows
<1>4. \A h \in Handlers : RequestStep(h)
  BY <1>1, StepRequests
<1>5. /\ nextId \in Nat /\ nextId' \in {nextId, nextId + 1}
      /\ \A r \in RunIds : IsEnqueued(r) => nextId' = nextId + 1
  BY <1>1, StepNextId DEF TypeInv, TypeOK
<1>6. /\ \A r \in Rows : run[r].chain \in Nat /\ run[r].depth \in Nat /\ r \in Nat /\ r < nextId
      /\ \A r \in Rows' : run'[r].chain \in Nat /\ run'[r].issue \in Issues
      /\ \A h \in Handlers : IsChainRetry(h) => req[h].chain \in Nat
  <2>1. \A r \in Rows : run[r] \in Row /\ r \in RunIds /\ r < nextId
    BY <1>1 DEF TypeInv, TypeOK, FreshIds, Rows, Row, NoRow, RunIds
  <2>2. \A r \in Rows' : run'[r] \in Row
    BY <1>1 DEF TypeInv, TypeOK, Rows, Row, NoRow, RunIds
  <2>3. \A h \in Handlers : IsChainRetry(h) => req[h] \in Request
    BY <1>1 DEF TypeInv, TypeOK, IsChainRetry
  <2>. QED
    BY <2>1, <2>2, <2>3, BoundsAssumption DEF Row, Request, RunIds
\* A row's chain after the step is new, a request's or an older row's.
<1>7. ASSUME NEW r \in Rows'
      PROVE  \/ run'[r].chain = nextId /\ r = nextId
             \/ \E q \in Rows : run'[r].chain = run[q].chain /\ run'[r].issue = run[q].issue
             \/ \E h \in Handlers : /\ IsChainRetry(h) /\ run'[r].chain = req[h].chain
                                    /\ run'[r].issue = req[h].issue
  BY <1>3, <1>7 DEF IsEnqueued, Joins, Keeps
<1>8. LastFailedOfChain'
  <2>. SUFFICES ASSUME NEW c \in RunIds, lastFailed'[c] # 0
                PROVE  run'[lastFailed'[c]].chain = c
    BY DEF LastFailedOfChain
  <2>1. lastFailed'[c] \in Rows' /\ lastFailed'[c] \in RunIds
    BY <1>1 DEF TypeInv, TypeOK, LastFailedIsFailed, Rows
  <2>2. lastFailed'[c] \in Rows /\ run[lastFailed'[c]].chain = c
    <3>1. lastFailed'[c] = lastFailed[c] \/ (lastFailed'[c] \in Rows /\ run[lastFailed'[c]].chain = c)
      BY <1>1, StepLastFailed
    <3>2. lastFailed[c] # 0 => lastFailed[c] \in Rows /\ run[lastFailed[c]].chain = c
      BY <1>1 DEF ChainInv, LastFailedOfChain, TypeInv, TypeOK, LastFailedIsFailed, Rows
    <3>. QED
      BY <3>1, <3>2
  <2>. QED
    BY <1>3, <2>1, <2>2 DEF IsEnqueued, Keeps, Rows, NoRow
\* A chain retry after the step was pending before it, or read a row just now.
<1>9. ASSUME NEW h \in Handlers, IsChainRetry(h)'
      PROVE  \/ IsChainRetry(h) /\ req'[h] = req[h]
             \/ /\ UNCHANGED <<run, nextId>>
                /\ \A g \in Handlers : g # h => req'[g] = req[g]
                /\ \E q \in Rows : req'[h].chain = run[q].chain /\ req'[h].issue = run[q].issue
  <2>1. \A c \in RunIds : lastFailed[c] \in Rows => run[lastFailed[c]].chain = c
    BY DEF ChainInv, LastFailedOfChain, Rows, RunIds
  <2>. QED
    BY <1>4, <1>9, <2>1 DEF RequestStep, IsChainRetry
<1>10. ChainBegun'
  <2>1. \A r \in Rows : run[r].chain < nextId
    BY DEF ChainInv, ChainBegun
  <2>2. \A h \in Handlers : IsChainRetry(h) => req[h].chain < nextId
    BY DEF ChainInv, ChainBegun
  <2>3. ASSUME NEW r \in Rows' PROVE run'[r].chain < nextId'
    <3>1. run'[r].chain = nextId /\ r = nextId => nextId' = nextId + 1
      <4>1. nextId \notin Rows
        BY <1>6
      <4>. QED
        BY <1>3, <1>5, <4>1
    <3>. QED
      BY <1>5, <1>6, <1>7, <2>1, <2>2, <3>1
  <2>4. ASSUME NEW h \in Handlers, IsChainRetry(h)' PROVE req'[h].chain < nextId'
    BY <1>5, <1>6, <1>9, <2>1, <2>2, <2>4
  <2>. QED
    BY <2>3, <2>4 DEF ChainBegun
<1>11. ChainHasOneIssue'
  <2>1. /\ \A r, q \in Rows : run[r].chain = run[q].chain => run[r].issue = run[q].issue
        /\ \A h \in Handlers : IsChainRetry(h) =>
             \A r \in Rows : run[r].chain = req[h].chain => run[r].issue = req[h].issue
        /\ \A h, g \in Handlers :
             IsChainRetry(h) /\ IsChainRetry(g) /\ req[h].chain = req[g].chain
               => req[h].issue = req[g].issue
    BY DEF ChainInv, ChainHasOneIssue
  <2>2. /\ \A r \in Rows : run[r].chain # nextId
        /\ \A h \in Handlers : IsChainRetry(h) => req[h].chain # nextId
    BY <1>5, <1>6 DEF ChainInv, ChainBegun
  <2>3. ASSUME NEW r \in Rows', NEW q \in Rows', run'[r].chain = run'[q].chain
        PROVE  run'[r].issue = run'[q].issue
    BY <1>7, <2>1, <2>2, <2>3
  <2>4. ASSUME NEW h \in Handlers, IsChainRetry(h)', NEW r \in Rows', run'[r].chain = req'[h].chain
        PROVE  run'[r].issue = req'[h].issue
    <3>1. CASE IsChainRetry(h) /\ req'[h] = req[h]
      BY <1>7, <2>1, <2>2, <2>4, <3>1
    <3>2. CASE UNCHANGED run /\ \E q \in Rows : req'[h].chain = run[q].chain /\ req'[h].issue = run[q].issue
      <4>1. r \in Rows /\ run'[r] = run[r]
        BY <3>2 DEF Rows
      <4>. QED
        BY <2>1, <2>4, <3>2, <4>1
    <3>. QED
      BY <1>9, <2>4, <3>1, <3>2
  <2>5. ASSUME NEW h \in Handlers, NEW g \in Handlers, IsChainRetry(h)', IsChainRetry(g)',
               req'[h].chain = req'[g].chain
        PROVE  req'[h].issue = req'[g].issue
    BY <1>9, <2>1, <2>5 DEF IsChainRetry
  <2>. QED
    BY <2>3, <2>4, <2>5 DEF ChainHasOneIssue
<1>12. WorkersAreDeep'
  <2>. SUFFICES ASSUME NEW r \in Rows', run'[r].via = "worker" PROVE run'[r].depth > 0
    BY DEF WorkersAreDeep
  <2>1. CASE IsEnqueued(r)
    BY <1>6, <2>1 DEF IsEnqueued, Joins, SentToWorker
  <2>2. CASE r \in Rows /\ Keeps(r)
    BY <2>2 DEF ChainInv, WorkersAreDeep, Keeps
  <2>. QED
    BY <1>3, <2>1, <2>2
<1>13. WorkerVisitedOnce'
  <2>. SUFFICES ASSUME NEW r \in Rows', NEW q \in Rows', run'[r].via = "worker",
                       run'[q].chain = run'[r].chain, run'[q].agent = run'[r].agent
                PROVE  q >= r
    BY DEF WorkerVisitedOnce
  <2>1. CASE r \in Rows /\ q \in Rows /\ Keeps(r) /\ Keeps(q)
    BY <2>1 DEF ChainInv, WorkerVisitedOnce, Keeps
  <2>2. CASE IsEnqueued(q) /\ r \in Rows
    <3>1. q = nextId
      BY <2>2 DEF IsEnqueued
    <3>2. r \in Nat /\ r < nextId
      BY <1>6, <2>2
    <3>. QED
      BY <1>5, <3>1, <3>2
  <2>3. CASE IsEnqueued(q) /\ IsEnqueued(r)
    BY <1>5, <2>3 DEF IsEnqueued
  <2>4. CASE IsEnqueued(r) /\ q \in Rows /\ Keeps(q)
    <3>1. PICK p \in Rows : run'[r].chain = run[p].chain /\ SentToWorker(r, p)
      BY <2>4 DEF IsEnqueued, Joins
    <3>2. run[q].chain = run[p].chain /\ run[q].agent = run'[r].agent
      BY <2>4, <3>1 DEF Keeps
    <3>3. run[q].issue = run[p].issue
      BY <2>4, <3>2 DEF ChainInv, ChainHasOneIssue
    <3>. QED
      BY <2>4, <3>1, <3>2, <3>3 DEF SentToWorker
  <2>. QED
    BY <1>3, <2>1, <2>2, <2>3, <2>4
<1>14. WorkerDispatchBudget'
  <2>. SUFFICES ASSUME DailyRunLimit > 0, NEW w \in Workspaces
                PROVE  Cardinality(WorkerRuns(w)') <= DailyRunLimit
    BY DEF WorkerDispatchBudget, WorkerRuns
  <2>1. /\ IsFiniteSet(WorkerRuns(w)) /\ Cardinality(WorkerRuns(w)) \in Nat
        /\ Cardinality(WorkerRuns(w)) <= DailyRunLimit
    <3>1. IsFiniteSet(RunIds) /\ WorkerRuns(w) \in SUBSET RunIds
      BY FS_Interval, BoundsAssumption DEF RunIds, WorkerRuns, Rows
    <3>2. IsFiniteSet(WorkerRuns(w)) /\ Cardinality(WorkerRuns(w)) \in Nat
      BY <3>1, FS_Subset, FS_CardinalityType
    <3>. QED
      BY <3>2 DEF ChainInv, WorkerDispatchBudget, WorkerRuns
  <2>2. ASSUME NEW r \in WorkerRuns(w)', r \notin WorkerRuns(w)
        PROVE  r = nextId /\ AutoChainWithinDailyGuards(w)
    <3>1. r \in Rows' /\ IssueWs[run'[r].issue] = w /\ run'[r].via = "worker" /\ run'[r].recent
      BY <2>2 DEF WorkerRuns, Ws
    <3>2. IsEnqueued(r)
      BY <1>3, <2>2, <3>1 DEF WorkerRuns, Ws, Keeps
    <3>. QED
      BY <3>1, <3>2 DEF IsEnqueued, Joins, SentToWorker, Ws
  <2>3. CASE WorkerRuns(w)' \subseteq WorkerRuns(w)
    <3>1. Cardinality(WorkerRuns(w)') \in Nat /\ Cardinality(WorkerRuns(w)') <= Cardinality(WorkerRuns(w))
      BY <2>1, <2>3, FS_Subset, FS_CardinalityType
    <3>. QED
      BY <2>1, <3>1, BoundsAssumption
  <2>4. CASE ~(WorkerRuns(w)' \subseteq WorkerRuns(w))
    <3>1. AutoChainWithinDailyGuards(w) /\ WorkerRuns(w)' \in SUBSET (WorkerRuns(w) \cup {nextId})
      BY <2>2, <2>4
    <3>2. /\ IsFiniteSet(WorkerRuns(w) \cup {nextId})
          /\ Cardinality(WorkerRuns(w) \cup {nextId}) \in Nat
          /\ Cardinality(WorkerRuns(w) \cup {nextId}) <= DailyRunLimit
      BY <1>1, <3>1, DispatchFitsBudget DEF ChainInv
    <3>3. /\ Cardinality(WorkerRuns(w)') \in Nat
          /\ Cardinality(WorkerRuns(w)') <= Cardinality(WorkerRuns(w) \cup {nextId})
      BY <3>1, <3>2, FS_Subset, FS_CardinalityType
    <3>. QED
      BY <3>2, <3>3, BoundsAssumption
  <2>. QED
    BY <2>3, <2>4
<1>. QED
  BY <1>1, <1>8, <1>10, <1>11, <1>12, <1>13, <1>14 DEF ChainInv

\* The chain invariant holds in every reachable state.
THEOREM ChainInvariant == Spec => []ChainInv
<1>1. Init => ChainInv
  <2>. SUFFICES ASSUME Init PROVE ChainInv
    OBVIOUS
  <2>1. TypeInv
    BY InitTypeInv
  <2>2. Rows = {} /\ \A h \in Handlers : ~IsChainRetry(h)
    BY DEF Init, Rows, NoRow, IsChainRetry
  <2>3. ChainHasOneIssue /\ ChainBegun /\ WorkersAreDeep /\ WorkerVisitedOnce
    BY <2>2 DEF ChainHasOneIssue, ChainBegun, WorkersAreDeep, WorkerVisitedOnce
  <2>4. LastFailedOfChain
    BY DEF Init, LastFailedOfChain
  <2>5. WorkerDispatchBudget
    <3>1. \A w \in Workspaces : WorkerRuns(w) = {}
      BY <2>2 DEF WorkerRuns
    <3>2. \A w \in Workspaces : Cardinality(WorkerRuns(w)) = 0
      BY <3>1, FS_EmptySet
    <3>. QED
      BY <3>2, BoundsAssumption DEF WorkerDispatchBudget, WorkerRuns
  <2>. QED
    BY <2>1, <2>3, <2>4, <2>5 DEF ChainInv
<1>. QED
  BY <1>1, StepKeepsChainInv, PTL DEF Spec

\* Auto-chain never sends a chain to a worker it has met before, whatever chain
\* retries, promotions and deletions fall in between (checkAutoChainDispatchDuplicates
\* compares issue and chain; ChainHasOneIssue is why that is enough).
THEOREM NoSecondVisit == Spec => []WorkerVisitedOnce
<1>1. ChainInv => WorkerVisitedOnce
  BY DEF ChainInv
<1>. QED
  BY <1>1, ChainInvariant, PTL

\* Within one 24-hour window auto-chain queues at most DailyRunLimit worker runs
\* in a workspace, whatever the number of chains completing at the same time.
THEOREM DispatchBudgetKept == Spec => []WorkerDispatchBudget
<1>1. ChainInv => WorkerDispatchBudget
  BY DEF ChainInv
<1>. QED
  BY <1>1, ChainInvariant, PTL
-----------------------------------------------------------------------------
(* The run table implements one slot per issue                             *)

\* The refinement mapping of Slots, named.
Serving ==
  [i \in Issues |-> IF IssueBusy(i)
                      THEN CHOOSE r \in With("running") : run[r].issue = i
                      ELSE 0]

Closed == {r \in RunIds : r < nextId /\ run[r].status \notin Active}

\* A slot serves run r exactly when r is the running row of its issue.
SlotView ==
  \A i \in Issues :
    /\ Serving[i] \in RunIds \cup {0}
    /\ \A r \in RunIds : Serving[i] = r <=> run[r].status = "running" /\ run[r].issue = i

\* OneRunningPerIssue is what makes the mapping a function of the table.
LEMMA SlotViewHolds == OneRunningPerIssue => SlotView
<1>. SUFFICES ASSUME OneRunningPerIssue, NEW i \in Issues
              PROVE  /\ Serving[i] \in RunIds \cup {0}
                     /\ \A r \in RunIds :
                          Serving[i] = r <=> run[r].status = "running" /\ run[r].issue = i
  BY DEF SlotView
<1>1. 0 \notin RunIds
  BY DEF RunIds
<1>2. CASE IssueBusy(i)
  <2>1. Serving[i] \in With("running") /\ run[Serving[i]].issue = i
    BY <1>2 DEF Serving, IssueBusy
  <2>. QED
    BY <2>1 DEF OneRunningPerIssue, With
<1>3. CASE ~IssueBusy(i)
  BY <1>1, <1>3 DEF Serving, IssueBusy, With
<1>. QED
  BY <1>2, <1>3

\* Two slot assignments that serve the same runs are equal.
LEMMA SameSlots ==
  ASSUME NEW f, f = [i \in Issues |-> f[i]], \A i \in Issues : f[i] \in RunIds \cup {0},
         NEW g, g = [i \in Issues |-> g[i]], \A i \in Issues : g[i] \in RunIds \cup {0},
         \A i \in Issues, r \in RunIds : f[i] = r <=> g[i] = r
  PROVE  f = g
<1>1. \A i \in Issues : f[i] = g[i]
  OBVIOUS
<1>. QED
  BY <1>1

\* Ending active rows withdraws their runs from the queue and from the slots.
LEMMA EndIsWithdraw ==
  ASSUME TypeInv, SlotView, SlotView',
         NEW S \in SUBSET RunIds, \A r \in S : run[r].status \in Active,
         NEW s \in Terminal, SetStatus(S, s), UNCHANGED nextId
  PROVE  Slots!SlotNext
<1>. DEFINE W == S \cap With("queued")
            I == {i \in Issues : Serving[i] \in S}
<1>t. run \in [RunIds -> Row \cup {NoRow}]
  BY DEF TypeInv, TypeOK
<1>1. /\ \A r \in RunIds \ S : run'[r] = run[r]
      /\ \A r \in S : run'[r].status = s
  BY <1>t, SetStatusRows
<1>2. \A r \in S : run[r].issue \in Issues /\ r < nextId
  BY <1>t DEF TypeInv, TypeOK, FreshIds, Row, NoRow, Active, RunIds
<1>3. With("queued")' = With("queued") \ W
  BY <1>1 DEF With, Terminal
<1>4. Serving' = [i \in Issues |-> IF i \in I THEN 0 ELSE Serving[i]]
  <2>. DEFINE g == [i \in Issues |-> IF i \in I THEN 0 ELSE Serving[i]]
  <2>1. \A i \in Issues : g[i] \in RunIds \cup {0} /\ Serving'[i] \in RunIds \cup {0}
    BY DEF SlotView
  <2>2. \A i \in Issues, r \in RunIds : Serving'[i] = r <=> g[i] = r
    <3>. SUFFICES ASSUME NEW i \in Issues, NEW r \in RunIds PROVE Serving'[i] = r <=> g[i] = r
      OBVIOUS
    <3>1. Serving'[i] = r <=> run'[r].status = "running" /\ run'[r].issue = i
      BY DEF SlotView
    <3>2. Serving[i] = r <=> run[r].status = "running" /\ run[r].issue = i
      BY DEF SlotView
    <3>3. 0 # r
      BY DEF RunIds
    <3>4. CASE r \in S
      BY <1>1, <3>1, <3>2, <3>3, <3>4 DEF Terminal
    <3>5. CASE r \notin S
      BY <1>1, <3>1, <3>2, <3>3, <3>5 DEF Terminal
    <3>. QED
      BY <3>4, <3>5
  <2>3. Serving' = [i \in Issues |-> Serving'[i]] /\ g = [i \in Issues |-> g[i]]
    BY DEF Serving
  <2>. HIDE DEF g
  <2>4. Serving' = g
    BY <2>1, <2>2, <2>3, SameSlots
  <2>. QED
    BY <2>4 DEF g
<1>5. Closed' = Closed \cup W \cup {Serving[i] : i \in I}
  <2>1. \A r \in RunIds : r \in {Serving[i] : i \in I} <=> r \in S /\ run[r].status = "running"
    BY <1>2 DEF SlotView
  <2>2. {Serving[i] : i \in I} \subseteq RunIds
    OBVIOUS
  <2>3. \A r \in RunIds : r \in Closed' <=> r \in Closed \/ r \in S
    BY <1>1, <1>2 DEF Closed, Active, Terminal
  <2>4. \A r \in S : r \in W \/ run[r].status = "running"
    BY DEF With, Active
  <2>. HIDE DEF I
  <2>. QED
    BY <2>1, <2>2, <2>3, <2>4 DEF Closed
<1>6. W \in SUBSET With("queued") /\ I \in SUBSET {i \in Issues : Serving[i] # 0}
  BY DEF RunIds
<1>. HIDE DEF W, I
<1>7. PICK w, j : w = W /\ j = I
  OBVIOUS
<1>8. Slots!Withdraw(w, j)
  <2>1. /\ With("queued")' = With("queued") \ w
        /\ Serving' = [i \in Issues |-> IF i \in j THEN 0 ELSE Serving[i]]
        /\ Closed' = Closed \cup w \cup {Serving[i] : i \in j}
    BY <1>3, <1>4, <1>5, <1>7
  <2>. QED
    BY <2>1 DEF Slots!Withdraw, Slots!Idle, Serving, Closed
<1>9. w \in SUBSET With("queued") /\ j \in SUBSET Slots!Busy
  BY <1>6, <1>7 DEF Slots!Busy, Slots!Idle, Serving
<1>. QED
  BY <1>8, <1>9 DEF Slots!SlotNext

\* The slots a row r of issue i leaves alone are the ones of other runs: the
\* mapping after a step that only moved row r and rows that do not run.
LEMMA SlotOfOneRow ==
  ASSUME SlotView, SlotView', NEW r \in RunIds, NEW i \in Issues,
         \A q \in RunIds : q # r =>
           (run'[q].status = "running" <=> run[q].status = "running")
           /\ (run[q].status = "running" => run'[q].issue = run[q].issue),
         run[r].status = "running" => run[r].issue = i,
         run'[r].status = "running" => run'[r].issue = i,
         run[r].status = "running" \/ \A q \in RunIds : run[q].status = "running" => run[q].issue # i
  PROVE  Serving' = [Serving EXCEPT ![i] = IF run'[r].status = "running" THEN r ELSE 0]
<1>. DEFINE g == [Serving EXCEPT ![i] = IF run'[r].status = "running" THEN r ELSE 0]
<1>0. 0 \notin RunIds
  BY DEF RunIds
<1>1. Serving' = [j \in Issues |-> Serving'[j]] /\ Serving = [j \in Issues |-> Serving[j]]
  BY DEF Serving
<1>5. g = [j \in Issues |-> g[j]] /\ \A j \in Issues \ {i} : g[j] = Serving[j]
  BY <1>1
<1>6. g[i] = IF run'[r].status = "running" THEN r ELSE 0
  BY <1>1
<1>2. \A j \in Issues : g[j] \in RunIds \cup {0} /\ Serving'[j] \in RunIds \cup {0}
  BY <1>5, <1>6 DEF SlotView
<1>3. ASSUME NEW j \in Issues, NEW q \in RunIds PROVE Serving'[j] = q <=> g[j] = q
  <2>1. Serving'[j] = q <=> run'[q].status = "running" /\ run'[q].issue = j
    BY DEF SlotView
  <2>2. \A k \in RunIds : Serving[j] = k <=> run[k].status = "running" /\ run[k].issue = j
    BY DEF SlotView
  <2>3. CASE j = i
    <3>1. g[j] = IF run'[r].status = "running" THEN r ELSE 0
      BY <1>6, <2>3
    <3>2. q # r /\ run[q].status = "running" => run[q].issue # i
      <4>1. Serving[i] = r /\ Serving[i] = q => q = r
        OBVIOUS
      <4>. QED
        BY <2>2, <2>3, <4>1
    <3>. QED
      BY <1>0, <2>1, <2>3, <3>1, <3>2
  <2>4. CASE j # i
    <3>1. g[j] = Serving[j]
      BY <1>5, <2>4
    <3>. QED
      BY <2>1, <2>2, <2>4, <3>1
  <2>. QED
    BY <2>3, <2>4
<1>. HIDE DEF g
<1>4. Serving' = g
  BY <1>1, <1>2, <1>3, <1>5, SameSlots
<1>. QED
  BY <1>4 DEF g

\* A step that moves no run in or out of the queue or a slot is a stutter.
LEMMA SlotStutter ==
  ASSUME SlotView, SlotView', UNCHANGED nextId,
         \A q \in RunIds : \/ run'[q].status = run[q].status /\ run'[q].issue = run[q].issue
                           \/ run'[q].status \notin Active /\ run[q].status \notin Active
  PROVE  UNCHANGED Slots!slotVars
<1>1. With("queued")' = With("queued") /\ Closed' = Closed
  BY DEF With, Closed, Active
<1>2. Serving' = Serving
  <2>1. Serving' = [j \in Issues |-> Serving'[j]] /\ Serving = [j \in Issues |-> Serving[j]]
    BY DEF Serving
  <2>2. \A j \in Issues : Serving[j] \in RunIds \cup {0} /\ Serving'[j] \in RunIds \cup {0}
    BY DEF SlotView
  <2>3. \A j \in Issues, q \in RunIds : Serving'[j] = q <=> Serving[j] = q
    BY DEF SlotView, Active
  <2>. QED
    BY <2>1, <2>2, <2>3, SameSlots
<1>. QED
  BY <1>1, <1>2 DEF Slots!slotVars, Serving, Closed

\* A new row, whoever queues it, is a submitted run.
LEMMA InsertIsSubmit ==
  ASSUME TypeInv, SlotView, SlotView', NEW i \in Issues, NEW a \in Agents, NEW c, NEW d, NEW v,
         InsertRun(i, a, c, d, v)
  PROVE  Slots!SlotNext
<1>1. nextId \in RunIds /\ nextId' = nextId + 1
  BY BoundsAssumption DEF TypeInv, TypeOK, InsertRun, RunIds
<1>2. run[nextId] = NoRow
  BY <1>1 DEF TypeInv, FreshIds, RunIds
<1>3. /\ run'[nextId].status = "queued"
      /\ \A q \in RunIds : q # nextId => run'[q] = run[q]
  BY <1>1 DEF TypeInv, TypeOK, InsertRun, NewRow
<1>4. With("queued")' = With("queued") \cup {nextId}
  BY <1>1, <1>3 DEF With
<1>5. Closed' = Closed
  BY <1>1, <1>2, <1>3 DEF Closed, Active, RunIds
<1>6. Serving' = Serving
  <2>1. Serving' = [j \in Issues |-> Serving'[j]] /\ Serving = [j \in Issues |-> Serving[j]]
    BY DEF Serving
  <2>2. \A j \in Issues : Serving[j] \in RunIds \cup {0} /\ Serving'[j] \in RunIds \cup {0}
    BY DEF SlotView
  <2>3. \A j \in Issues, q \in RunIds : Serving'[j] = q <=> Serving[j] = q
    BY <1>2, <1>3 DEF SlotView, NoRow
  <2>. QED
    BY <2>1, <2>2, <2>3, SameSlots
<1>7. nextId \notin With("queued") /\ nextId \notin Closed /\ \A j \in Issues : Serving[j] # nextId
  <2>1. nextId \notin With("queued") /\ nextId \notin Closed
    BY <1>1, <1>2 DEF With, Closed, NoRow, RunIds
  <2>2. run[nextId].status # "running"
    BY <1>2 DEF NoRow
  <2>. QED
    BY <1>1, <2>1, <2>2 DEF SlotView
<1>8. PICK n \in RunIds : n = nextId
  BY <1>1
<1>9. Slots!Submit(n)
  <2>1. n \in Slots!Fresh
    BY <1>7, <1>8 DEF Slots!Fresh, Slots!Served, Serving, Closed
  <2>2. With("queued")' = With("queued") \cup {n}
    BY <1>4, <1>8
  <2>. QED
    BY <1>5, <1>6, <2>1, <2>2 DEF Slots!Submit, Serving, Closed
<1>. QED
  BY <1>9 DEF Slots!SlotNext

\* The claim serves the run in the slot of its issue, which was idle.
LEMMA ClaimIsServe ==
  ASSUME TypeInv, SlotView, SlotView', NEW r \in RunIds, ClaimNextRun(r)
  PROVE  Slots!SlotNext
<1>1. run[r] \in Row /\ run[r].status = "queued" /\ ~IssueBusy(run[r].issue) /\ UNCHANGED nextId
  BY RowOrNot DEF TypeInv, TypeOK, ClaimNextRun, Claimable
<1>2. /\ run'[r].status = "running" /\ run'[r].issue = run[r].issue
      /\ \A q \in RunIds : q # r => run'[q] = run[q]
  BY <1>1 DEF TypeInv, TypeOK, ClaimNextRun, Row
<1>3. PICK i \in Issues : i = run[r].issue
  BY <1>1 DEF Row
<1>4. \A q \in RunIds : run[q].status = "running" => run[q].issue # i
  BY <1>1, <1>3 DEF IssueBusy, With
<1>5. Serving' = [Serving EXCEPT ![i] = r]
  BY <1>1, <1>2, <1>3, <1>4, SlotOfOneRow
<1>6. With("queued")' = With("queued") \ {r} /\ Closed' = Closed /\ r \in With("queued")
  BY <1>1, <1>2 DEF With, Closed, Active
<1>7. Serving[i] = 0
  BY <1>4 DEF SlotView
<1>8. Slots!Serve(i, r)
  BY <1>5, <1>6, <1>7 DEF Slots!Serve, Slots!Idle, Serving, Closed
<1>. QED
  BY <1>8 DEF Slots!SlotNext

\* A reschedule puts the served run back in the queue.
LEMMA RescheduleIsRequeue ==
  ASSUME TypeInv, SlotView, SlotView', NEW r \in RunIds, RescheduleRunForRetry(r)
  PROVE  Slots!SlotNext
<1>1. run[r] \in Row /\ run[r].status = "running" /\ UNCHANGED nextId
  BY RowOrNot DEF TypeInv, TypeOK, RescheduleRunForRetry
<1>2. /\ run'[r].status = "queued" /\ run'[r].issue = run[r].issue
      /\ \A q \in RunIds : q # r => run'[q] = run[q]
  BY <1>1 DEF TypeInv, TypeOK, RescheduleRunForRetry, Row
<1>3. PICK i \in Issues : i = run[r].issue
  BY <1>1 DEF Row
<1>4. Serving' = [Serving EXCEPT ![i] = 0]
  BY <1>1, <1>2, <1>3, SlotOfOneRow
<1>5. Serving[i] = r /\ r # 0
  BY <1>1, <1>3 DEF SlotView, RunIds
<1>6. With("queued")' = With("queued") \cup {Serving[i]} /\ Closed' = Closed
  BY <1>1, <1>2, <1>5 DEF With, Closed, Active
<1>7. Serving[i] # 0
  BY <1>5
<1>8. Slots!Requeue(i)
  BY <1>4, <1>6, <1>7 DEF Slots!Requeue, Slots!Idle, Serving, Closed
<1>. QED
  BY <1>8 DEF Slots!SlotNext

\* A completion that chains closes the slot's run and submits one follow-up.
LEMMA ChainedIsClose ==
  ASSUME TypeInv, SlotView, SlotView', NEW r \in RunIds, NEW a \in Agents, CompleteChained(r, a)
  PROVE  Slots!SlotNext
<1>. DEFINE row == NewRow(run[r].issue, a, run[r].chain,
                          IF IsMain(a) THEN run[r].depth ELSE run[r].depth + 1,
                          IF IsMain(a) THEN "main" ELSE "worker")
<1>1. run[r] \in Row /\ run[r].status = "running"
  BY RowOrNot DEF TypeInv, TypeOK, CompleteChained
<1>2. nextId \in RunIds /\ nextId' = nextId + 1
  BY BoundsAssumption DEF TypeInv, TypeOK, CompleteChained, RunIds
<1>3. run[nextId] = NoRow /\ nextId # r /\ r < nextId
  BY <1>1, <1>2 DEF TypeInv, FreshIds, RunIds, NoRow
<1>4. row.status = "queued"
  BY DEF NewRow
<1>5. /\ run'[nextId].status = "queued"
      /\ run'[r].status = "done"
      /\ \A q \in RunIds : q # r /\ q # nextId => run'[q] = run[q]
  <2>. HIDE DEF row
  <2>1. run' = [run EXCEPT ![r].status = "done", ![r].serial = FALSE, ![nextId] = row]
    BY DEF CompleteChained, row
  <2>. QED
    BY <1>1, <1>2, <1>3, <1>4, <2>1 DEF TypeInv, TypeOK, Row
<1>6. PICK i \in Issues : i = run[r].issue
  BY <1>1 DEF Row
<1>7. Serving' = [Serving EXCEPT ![i] = 0]
  <2>1. run[nextId].status # "running" /\ run'[nextId].status # "running"
    BY <1>3, <1>5 DEF NoRow
  <2>2. \A q \in RunIds : q # r =>
          (run'[q].status = "running" <=> run[q].status = "running")
          /\ (run[q].status = "running" => run'[q].issue = run[q].issue)
    BY <1>5, <2>1
  <2>. QED
    BY <1>1, <1>5, <1>6, <2>2, SlotOfOneRow
<1>8. Serving[i] = r /\ r # 0
  BY <1>1, <1>6 DEF SlotView, RunIds
<1>9. PICK n \in RunIds : n = nextId
  BY <1>2
<1>10. With("queued")' = With("queued") \cup {n}
  BY <1>1, <1>2, <1>5, <1>9 DEF With
<1>11. Closed' = Closed \cup {Serving[i]}
  <2>1. \A q \in RunIds : q \in Closed' <=> q \in Closed \/ q = r
    BY <1>1, <1>2, <1>3, <1>5 DEF Closed, Active, RunIds
  <2>. QED
    BY <1>8, <2>1 DEF Closed
<1>12. n \notin With("queued") /\ n \notin Closed /\ \A j \in Issues : Serving[j] # n
  <2>1. n \notin With("queued") /\ n \notin Closed
    BY <1>2, <1>3, <1>9 DEF With, Closed, NoRow, RunIds
  <2>2. run[n].status # "running"
    BY <1>3, <1>9 DEF NoRow
  <2>. QED
    BY <2>1, <2>2 DEF SlotView
<1>13. {n} \subseteq Slots!Fresh
  BY <1>12 DEF Slots!Fresh, Slots!Served, Serving, Closed
<1>14. Serving[i] # 0
  BY <1>8
<1>15. Slots!Close(i, {n})
  BY <1>7, <1>10, <1>11, <1>13, <1>14 DEF Slots!Close, Slots!Idle, Serving, Closed
<1>. QED
  BY <1>15 DEF Slots!SlotNext

\* Every step of the store is a step of the slots, or none.
LEMMA StepIsSlotStep ==
  TypeInv /\ SlotView /\ SlotView' /\ [Next]_vars => [Slots!SlotNext]_(Slots!slotVars)
<1>. SUFFICES ASSUME TypeInv, SlotView, SlotView', [Next]_vars
              PROVE  Slots!SlotNext \/ UNCHANGED Slots!slotVars
  OBVIOUS
<1>t. TypeOK
  BY DEF TypeInv
<1>1. ASSUME NEW i \in Issues, NEW a \in Agents,
             CreateIssueWithInitialRun(i, a) \/ AddUserComment(i, a)
      PROVE  Slots!SlotNext
  <2>1. InsertRun(i, a, nextId, 0, "user")
    BY <1>1 DEF CreateIssueWithInitialRun, AddUserComment
  <2>2. PICK c : c = nextId
    OBVIOUS
  <2>3. InsertRun(i, a, c, 0, "user")
    BY <2>1, <2>2 DEF InsertRun
  <2>. QED
    BY <2>3, InsertIsSubmit
<1>2. ASSUME NEW h \in Handlers, RequestInsert(h)
      PROVE  Slots!SlotNext
  <2>1. PICK i, a, c, d, v : /\ i = req[h].issue /\ a = req[h].agent /\ d = req[h].depth
                             /\ c = IF req[h].op = "rerun" THEN nextId ELSE req[h].chain
                             /\ v = IF req[h].op = "rerun" THEN "user" ELSE "retry"
    OBVIOUS
  <2>2. i \in Issues /\ a \in Agents
    BY <1>t, <1>2, <2>1 DEF TypeOK, RequestInsert, Request
  <2>3. InsertRun(i, a, c, d, v)
    BY <1>2, <2>1 DEF RequestInsert, InsertRun
  <2>. QED
    BY <2>2, <2>3, InsertIsSubmit
<1>3. ASSUME NEW i \in Issues, NEW s \in {"open", "done", "cancelled"}, UpdateIssue(i, s)
      PROVE  Slots!SlotNext \/ UNCHANGED Slots!slotVars
  <2>1. CASE s = "cancelled"
    <3>1. PICK S : S = {r \in With("queued") : run[r].issue = i}
      OBVIOUS
    <3>2. S \in SUBSET RunIds /\ \A r \in S : run[r].status \in Active
      BY <3>1 DEF With, Active
    <3>3. SetStatus(S, "cancelled") /\ UNCHANGED nextId
      BY <1>3, <2>1, <3>1 DEF UpdateIssue, SetStatus
    <3>. QED
      BY <3>2, <3>3, EndIsWithdraw DEF Terminal
  <2>2. CASE s # "cancelled"
    BY <1>3, <2>2, SlotStutter DEF UpdateIssue
  <2>. QED
    BY <2>1, <2>2
<1>4. ASSUME NEW i \in Issues, DeleteIssue(i)
      PROVE  UNCHANGED Slots!slotVars
  <2>1. \A q \in RunIds : run'[q] = run[q] \/ (run'[q] = NoRow /\ run[q].status \notin Active)
    BY <1>4 DEF DeleteIssue, IssueActive, ActiveRows
  <2>2. \A q \in RunIds : \/ run'[q].status = run[q].status /\ run'[q].issue = run[q].issue
                          \/ run'[q].status \notin Active /\ run[q].status \notin Active
    BY <2>1 DEF NoRow, Active
  <2>. QED
    BY <1>4, <2>2, SlotStutter DEF DeleteIssue
<1>5. ASSUME NEW r \in RunIds,
             CompleteDone(r) \/ CompleteFailed(r) \/ FailInfrastructureRun(r) \/ CancelRunWithReason(r)
      PROVE  Slots!SlotNext
  BY <1>5, EndIsWithdraw
     DEF CompleteDone, CompleteFailed, FailInfrastructureRun, CancelRunWithReason, Active, Terminal
<1>6. ASSUME NEW c \in RunIds, CancelRunsByChain(c)
      PROVE  Slots!SlotNext
  <2>1. PICK S : S = {r \in ActiveRows : run[r].chain = c}
    OBVIOUS
  <2>2. S \in SUBSET RunIds /\ \A r \in S : run[r].status \in Active
    BY <2>1 DEF ActiveRows
  <2>3. SetStatus(S, "cancelled") /\ UNCHANGED nextId
    BY <1>6, <2>1 DEF CancelRunsByChain, SetStatus
  <2>. QED
    BY <2>2, <2>3, EndIsWithdraw DEF Terminal
<1>7. ASSUME RecoverOrphanRuns \/ \E S \in SUBSET RunIds : RecoverStaleRuns(S)
      PROVE  Slots!SlotNext
  <2>1. PICK S \in SUBSET RunIds :
          /\ \A r \in S : run[r].status \in Active
          /\ SetStatus(S, "cancelled") /\ UNCHANGED nextId
    <3>1. CASE RecoverOrphanRuns
      <4>1. PICK S : S = With("running")
        OBVIOUS
      <4>. QED
        BY <3>1, <4>1 DEF RecoverOrphanRuns, SetStatus, With, Active
    <3>2. CASE \E S \in SUBSET RunIds : RecoverStaleRuns(S)
      BY <3>2 DEF RecoverStaleRuns, With, Active
    <3>. QED
      BY <1>7, <3>1, <3>2
  <2>. QED
    BY <2>1, EndIsWithdraw DEF Terminal
<1>8. ASSUME NEW r \in RunIds, RetryDue(r)
      PROVE  UNCHANGED Slots!slotVars
  <2>1. run[r] \in Row
    BY <1>t, <1>8, RowOrNot DEF TypeOK, RetryDue
  <2>2. \A q \in RunIds : run'[q].status = run[q].status /\ run'[q].issue = run[q].issue
    BY <1>t, <1>8, <2>1 DEF TypeOK, RetryDue, Row
  <2>. QED
    BY <1>8, <2>2, SlotStutter DEF RetryDue
<1>9. ASSUME DayPasses
      PROVE  UNCHANGED Slots!slotVars
  <2>1. \A r \in Rows : run[r] \in Row
    BY <1>t, RowOrNot DEF TypeOK, Rows
  <2>2. \A q \in RunIds : run'[q].status = run[q].status /\ run'[q].issue = run[q].issue
    BY <1>t, <1>9, <2>1 DEF TypeOK, DayPasses, Row
  <2>. QED
    BY <1>9, <2>2, SlotStutter DEF DayPasses
<1>10. ASSUME \/ \E h \in Handlers, i \in Issues, a \in Agents : RerunIssueCheck(h, i, a)
              \/ \E h \in Handlers, c \in RunIds : RetryFailedRunInChainCheck(h, c)
              \/ \E h \in Handlers : RequestRefused(h)
              \/ \E a \in Agents : PromoteAgent(a)
              \/ \E w \in Workspaces, b \in BOOLEAN : UpdateWorkspace(w, b)
              \/ UNCHANGED vars
       PROVE  UNCHANGED Slots!slotVars
  <2>1. UNCHANGED <<run, nextId>>
    BY <1>10 DEF RerunIssueCheck, RetryFailedRunInChainCheck, RequestRefused, PromoteAgent,
                 UpdateWorkspace, vars
  <2>. QED
    BY <2>1, SlotStutter
<1>11. ASSUME NEW r \in RunIds, ClaimNextRun(r) PROVE Slots!SlotNext
  BY <1>11, ClaimIsServe
<1>12. ASSUME NEW r \in RunIds, RescheduleRunForRetry(r) PROVE Slots!SlotNext
  BY <1>12, RescheduleIsRequeue
<1>13. ASSUME NEW r \in RunIds, NEW a \in Agents, CompleteChained(r, a) PROVE Slots!SlotNext
  BY <1>13, ChainedIsClose
<1>. QED
  BY <1>1, <1>2, <1>3, <1>4, <1>5, <1>6, <1>7, <1>8, <1>9, <1>10, <1>11, <1>12, <1>13
     DEF Next, Finish

\* The run table implements one slot per issue: whatever the store does to its
\* rows, seen from outside a run is submitted, served, requeued or closed, one at
\* a time per issue and closed for good.
THEOREM QueueImplementsSlots == Spec => ImplementsSlots
<1>1. Init => Slots!SlotInit
  <2>. SUFFICES ASSUME Init PROVE Slots!SlotInit
    OBVIOUS
  <2>1. \A r \in RunIds : run[r].status = "none" /\ ~(r < nextId)
    BY DEF Init, NoRow, RunIds
  <2>2. With("queued") = {} /\ Closed = {}
    BY <2>1 DEF With, Closed
  <2>3. Serving = [i \in Issues |-> 0]
    BY <2>1 DEF Serving, IssueBusy, With
  <2>. QED
    BY <2>2, <2>3 DEF Slots!SlotInit, Slots!Idle, Serving, Closed
<1>2. SafetyInv => SlotView
  BY SlotViewHolds DEF SafetyInv
<1>3. SafetyInv => TypeInv
  BY DEF SafetyInv
<1>. QED
  BY <1>1, <1>2, <1>3, StepIsSlotStep, SafetyInvariant, PTL DEF Spec, ImplementsSlots, Slots!SlotSpec
=============================================================================
