----------------------------- MODULE ViewProofs -----------------------------
(***************************************************************************)
(* What the views of an issue and the board's filters promise, proved for  *)
(* every number of agents, runs and attempts.                              *)
(***************************************************************************)
EXTENDS IssueConsole, BoardFilters, WellFoundedInduction, TLAPS

-----------------------------------------------------------------------------
(* First and last                                                          *)

\* A non-empty set of numbers has a least one.
LEMMA LeastExists ==
  ASSUME NEW T \in SUBSET Nat, T # {}
  PROVE  \E x \in T : \A y \in T : x <= y
<1>. DEFINE R == {ss \in Nat \X Nat : ss[1] < ss[2]}
<1>1. IsWellFoundedOn(R, Nat)
  BY NatLessThanWellFounded, Zenon DEF OpToRel
<1>2. \A x, y \in Nat : y < x => <<y, x>> \in R
  OBVIOUS
<1>. HIDE DEF R
<1>3. PICK x \in T : \A y \in T : ~(<<y, x>> \in R)
  BY <1>1, WFMin, Zenon
<1>4. ASSUME NEW y \in T PROVE x <= y
  <2>1. x \in Nat /\ y \in Nat /\ ~(y < x)
    BY <1>2, <1>3
  <2>. QED
    BY <2>1
<1>. QED
  BY <1>4

\* First and Last of the runs of a non-empty set are runs of it.
LEMMA FirstIsFirst ==
  ASSUME NEW I \in SUBSET Indices, I # {}, Len(runs) \in Nat
  PROVE  First(I) \in I /\ \A j \in I : First(I) <= j
<1>1. \E i \in I : \A j \in I : i <= j
  BY LeastExists DEF Indices
<1>. QED
  BY <1>1 DEF First

\* Last is the greatest index of a set of runs.
LEMMA LastIsLast ==
  ASSUME NEW I \in SUBSET Indices, I # {}, Len(runs) \in Nat
  PROVE  Last(I) \in I /\ \A j \in I : j <= Last(I)
<1>. DEFINE M == {Len(runs) - i : i \in I}
<1>1. M \in SUBSET Nat /\ M # {}
  <2>1. \A i \in I : Len(runs) - i \in Nat
    BY DEF Indices
  <2>. QED
    BY <2>1
<1>2. PICK m \in M : \A k \in M : m <= k
  BY <1>1, LeastExists
<1>3. PICK i \in I : m = Len(runs) - i
  BY <1>2
<1>4. ASSUME NEW j \in I PROVE j <= i
  <2>1. m <= Len(runs) - j
    BY <1>2
  <2>2. i \in Int /\ j \in Int
    BY DEF Indices
  <2>. QED
    BY <1>3, <2>1, <2>2
<1>. QED
  BY <1>3, <1>4 DEF Last

-----------------------------------------------------------------------------
(* The invariant                                                           *)

RunRec ==
  [agent : Staff, status : {"queued", "running", "done", "failed", "cancelled"},
   chain : Nat, parent : Nat, try : Nat]

ConsoleTypeInv ==
  /\ status \in {"open", "done", "cancelled"}
  /\ runs \in Seq(RunRec) /\ Len(runs) \in 1..MaxRuns
  /\ lastFailed \in [1..MaxRuns -> Nat]

Waits(r) == r.status \in {"queued", "running"}

\* A chain is named after its first run; unless retries of it overtook each other, only
\* its last run can be queued or running.
ChainsInv ==
  \A i \in Indices :
    /\ runs[i].chain \in 1..i
    /\ runs[i].chain \notin raced =>
         \A j \in Indices : j < i /\ runs[j].chain = runs[i].chain => ~Waits(runs[j])

\* A chain with a failed run has a last failed one, which is a failed run of it; what a
\* retry has picked stays failed.
FailedInv ==
  /\ \A i \in Indices : runs[i].status = "failed" => lastFailed[runs[i].chain] # 0
  /\ \A c \in 1..MaxRuns : lastFailed[c] # 0 => lastFailed[c] \in InChain(c) \cap With("failed")
  /\ found \subseteq With("failed")

\* The parent of a run is an earlier run that is over; a failed one is retried by its
\* own agent.
ParentsInv ==
  \A i \in Indices :
    runs[i].parent # 0 =>
      /\ runs[i].parent \in Indices /\ runs[i].parent < i
      /\ \/ runs[runs[i].parent].status = "done"
         \/ runs[runs[i].parent].status = "failed" /\ runs[runs[i].parent].agent = runs[i].agent

ConsoleInv == ConsoleTypeInv /\ ChainsInv /\ FailedInv /\ ParentsInv

-----------------------------------------------------------------------------
(* One step                                                                *)

\* What a step does to a run: only one that is queued or running changes, in its status
\* and its attempts.
KeepsRun(i) ==
  /\ runs'[i].agent = runs[i].agent /\ runs'[i].chain = runs[i].chain
  /\ runs'[i].parent = runs[i].parent
  /\ runs'[i].status = runs[i].status \/ Waits(runs[i])

\* The run a step adds waits: in a chain of its own, or after a run p that is over, in
\* a chain that is idle or marked as raced.
AddsRun ==
  LET n == Len(runs) + 1
  IN  /\ runs'[n].status = "queued"
      /\ \/ runs'[n].chain = n /\ runs'[n].parent = 0
         \/ \E p \in Indices :
              /\ runs'[n].parent = p /\ runs'[n].chain = runs[p].chain
              /\ runs[p].chain \notin raced' =>
                   \A j \in Indices : runs[j].chain = runs[p].chain => ~Waits(runs'[j])
              /\ \/ runs'[p].status = "done"
                 \/ runs'[p].status = "failed" /\ runs[p].agent = runs'[n].agent

HistoryMove ==
  /\ runs' \in Seq(RunRec) /\ Len(runs') \in {Len(runs), Len(runs) + 1} /\ Len(runs') <= MaxRuns
  /\ \A i \in Indices : KeepsRun(i)
  /\ Len(runs') = Len(runs) + 1 => AddsRun

\* The mark of a chain goes only while the chain is idle.
RacedMove == \A i \in Indices : runs[i].chain \in raced \ raced' => ~Waits(runs[i])

\* At most one run k fails, and then it is its chain's last failed one.
FailsOnly(K) == \A i \in Indices \ K : runs'[i].status = "failed" => runs[i].status = "failed"

FailureMove ==
  /\ \/ lastFailed' = lastFailed /\ FailsOnly({})
     \/ \E k \in Indices :
          /\ lastFailed' = [lastFailed EXCEPT ![runs[k].chain] = k]
          /\ runs'[k].status = "failed" /\ FailsOnly({k})
  /\ found' \subseteq found \cup With("failed")

Move == HistoryMove /\ RacedMove /\ FailureMove

\* The history with one run r at its end.
LEMMA AppendMove ==
  ASSUME NEW s \in Seq(RunRec), NEW r \in RunRec
  PROVE  /\ Append(s, r) \in Seq(RunRec) /\ Len(Append(s, r)) = Len(s) + 1
         /\ \A i \in 1..Len(s) : Append(s, r)[i] = s[i]
         /\ Append(s, r)[Len(s) + 1] = r
  OBVIOUS

\* The history with run k replaced by r.
LEMMA ReplaceMove ==
  ASSUME NEW s \in Seq(RunRec), NEW k \in 1..Len(s), NEW r \in RunRec
  PROVE  /\ [s EXCEPT ![k] = r] \in Seq(RunRec) /\ Len([s EXCEPT ![k] = r]) = Len(s)
         /\ \A i \in 1..Len(s) : [s EXCEPT ![k] = r][i] = IF i = k THEN r ELSE s[i]
  OBVIOUS

\* A run that is over keeps its agent, its chain and its parent.
LEMMA EndedRun ==
  ASSUME NEW i, runs[i] \in RunRec, NEW outcome \in {"done", "failed", "cancelled"}
  PROVE  /\ Ended(i, outcome) \in RunRec /\ Ended(i, outcome).status = outcome
         /\ Ended(i, outcome).agent = runs[i].agent /\ Ended(i, outcome).chain = runs[i].chain
         /\ Ended(i, outcome).parent = runs[i].parent
<1>1. ASSUME NEW r \in RunRec
      PROVE  LET e == [r EXCEPT !.status = outcome, !.try = 1]
             IN  /\ e \in RunRec /\ e.status = outcome /\ e.agent = r.agent
                 /\ e.chain = r.chain /\ e.parent = r.parent
  BY DEF RunRec
<1>. QED
  BY <1>1 DEF Ended

\* Cancelling active runs changes their status only.
LEMMA CancelledMove ==
  ASSUME ConsoleTypeInv, NEW I \in SUBSET Active, runs' = Cancelled(I),
         UNCHANGED <<lastFailed, retryVars>>
  PROVE  Move
<1>1. runs \in Seq(RunRec) /\ Indices = 1..Len(runs) /\ Len(runs) \in Nat /\ Len(runs) <= MaxRuns
  BY DEF ConsoleTypeInv, Indices
<1>2. \A i \in Indices : runs[i] \in RunRec /\ Ended(i, "cancelled") \in RunRec
  <2>1. \A i \in Indices : runs[i] \in RunRec
    BY <1>1
  <2>. QED
    BY <2>1, EndedRun
<1>3. runs' \in Seq(RunRec) /\ Len(runs') = Len(runs)
  BY <1>1, <1>2 DEF Cancelled
<1>4. \A i \in Indices : runs'[i] = IF i \in I THEN Ended(i, "cancelled") ELSE runs[i]
  BY <1>1 DEF Cancelled
<1>5. \A i \in Indices : KeepsRun(i)
  BY <1>2, <1>4, EndedRun DEF KeepsRun, Waits, Active
<1>6. FailsOnly({})
  BY <1>2, <1>4, EndedRun DEF FailsOnly
<1>. QED
  BY <1>1, <1>3, <1>5, <1>6 DEF Move, HistoryMove, RacedMove, FailureMove, retryVars

\* The actions that change one run, those that add one, and the reads.
LEMMA StepMoves ==
  ASSUME ConsoleInv, ConsoleNext
  PROVE  Move /\ status' \in {"open", "done", "cancelled"}
<1>t. /\ runs \in Seq(RunRec) /\ Len(runs) \in Nat /\ Len(runs) \in 1..MaxRuns /\ Indices = 1..Len(runs)
      /\ MaxRuns \in Nat /\ \A i \in Indices : runs[i] \in RunRec
  BY ConsoleAssumption DEF ConsoleInv, ConsoleTypeInv, Indices
<1>q. ASSUME NEW a \in Staff, NEW c \in Nat, NEW p \in Nat
      PROVE  /\ Queued(a, c, p) \in RunRec /\ Queued(a, c, p).agent = a
             /\ Queued(a, c, p).chain = c /\ Queued(a, c, p).parent = p
             /\ Queued(a, c, p).status = "queued"
  BY DEF Queued, RunRec
<1>u. ASSUME NEW i \in Indices, NEW r \in RunRec, Waits(runs[i]), runs' = [runs EXCEPT ![i] = r],
             r.agent = runs[i].agent, r.chain = runs[i].chain, r.parent = runs[i].parent,
             r.status # "failed", UNCHANGED <<lastFailed, retryVars>>
      PROVE  Move
  BY <1>t, <1>u, ReplaceMove
     DEF Move, HistoryMove, KeepsRun, RacedMove, FailureMove, FailsOnly, retryVars
<1>k. ASSUME NEW r \in RunRec, runs' = Append(runs, r), AddsRun, Len(runs) < MaxRuns,
             UNCHANGED <<lastFailed, found>>, RacedMove
      PROVE  Move
  <2>1. \A i \in Indices : runs'[i] = runs[i]
    BY <1>t, <1>k, AppendMove
  <2>2. runs' \in Seq(RunRec) /\ Len(runs') = Len(runs) + 1
    BY <1>t, <1>k, AppendMove
  <2>3. HistoryMove
    BY <1>t, <1>k, <2>1, <2>2 DEF HistoryMove, KeepsRun
  <2>. QED
    BY <1>k, <2>1, <2>3 DEF Move, FailureMove, FailsOnly
<1>s. ASSUME runs' = runs, lastFailed' = lastFailed, raced' = raced,
             found' \subseteq found \cup With("failed")
      PROVE  Move
  BY <1>t, <1>s DEF Move, HistoryMove, KeepsRun, RacedMove, FailureMove, FailsOnly
<1>1. ASSUME NEW a \in Staff, AddMention(a)
      PROVE  Move
  <2>. DEFINE r == Queued(a, Len(runs) + 1, 0)
  <2>1. /\ r \in RunRec /\ r.chain = Len(runs) + 1 /\ r.parent = 0 /\ r.status = "queued"
        /\ runs' = Append(runs, r)
    BY <1>t, <1>q, <1>1 DEF AddMention
  <2>. HIDE DEF r
  <2>2. runs'[Len(runs) + 1] = r
    BY <1>t, <2>1, AppendMove
  <2>3. Len(runs) < MaxRuns /\ UNCHANGED <<lastFailed, found>> /\ RacedMove
    BY <1>1 DEF AddMention, retryVars, RacedMove
  <2>. QED
    BY <1>k, <2>1, <2>2, <2>3 DEF AddsRun
<1>e. ASSUME NEW i \in Indices, NEW s \in {"queued", "running"}
      PROVE  LET r == [runs[i] EXCEPT !.status = s]
             IN  r \in RunRec /\ r.agent = runs[i].agent /\ r.chain = runs[i].chain
                 /\ r.parent = runs[i].parent /\ r.status = s
  BY <1>t DEF RunRec
<1>2. ASSUME NEW i \in Indices, Claim(i)
      PROVE  Move
  <2>1. PICK r : r = [runs[i] EXCEPT !.status = "running"]
    OBVIOUS
  <2>2. runs' = [runs EXCEPT ![i] = r] /\ Waits(runs[i]) /\ UNCHANGED <<lastFailed, retryVars>>
    BY <1>2, <2>1 DEF Claim, Waits
  <2>3. /\ r \in RunRec /\ r.agent = runs[i].agent /\ r.chain = runs[i].chain
        /\ r.parent = runs[i].parent /\ r.status # "failed"
    BY <1>e, <2>1
  <2>. QED
    BY <1>u, <2>2, <2>3
<1>3. ASSUME NEW i \in Indices, Reschedule(i)
      PROVE  Move
  <2>1. PICK r : r = [runs[i] EXCEPT !.status = "queued", !.try = @ + 1]
    OBVIOUS
  <2>2. runs' = [runs EXCEPT ![i] = r] /\ Waits(runs[i]) /\ UNCHANGED <<lastFailed, retryVars>>
    BY <1>3, <2>1 DEF Reschedule, Waits
  <2>3. r \in RunRec /\ r.agent = runs[i].agent /\ r.chain = runs[i].chain
        /\ r.parent = runs[i].parent /\ r.status # "failed"
    <3>1. PICK x : x = [runs[i] EXCEPT !.status = "queued"]
      OBVIOUS
    <3>4. x \in RunRec /\ x.agent = runs[i].agent /\ x.chain = runs[i].chain
          /\ x.parent = runs[i].parent /\ x.status = "queued"
      BY <1>e, <3>1
    <3>2. \A n \in Nat : /\ [x EXCEPT !.try = n] \in RunRec
                         /\ [x EXCEPT !.try = n].agent = x.agent
                         /\ [x EXCEPT !.try = n].chain = x.chain
                         /\ [x EXCEPT !.try = n].parent = x.parent
                         /\ [x EXCEPT !.try = n].status = x.status
      BY <3>4 DEF RunRec
    <3>3. runs[i].try + 1 \in Nat /\ r = [x EXCEPT !.try = runs[i].try + 1]
      BY <1>t, <2>1, <3>1 DEF RunRec
    <3>. QED
      BY <3>2, <3>3, <3>4
  <2>. QED
    BY <1>u, <2>2, <2>3
<1>4. ASSUME NEW i \in Indices, NEW outcome \in {"done", "failed"}, Complete(i, outcome)
      PROVE  Move
  <2>1. PICK r : r = Ended(i, outcome)
    OBVIOUS
  <2>2. runs' = [runs EXCEPT ![i] = r] /\ Waits(runs[i]) /\ UNCHANGED retryVars
    BY <1>4, <2>1 DEF Complete, Waits
  <2>3. /\ r \in RunRec /\ r.agent = runs[i].agent /\ r.chain = runs[i].chain
        /\ r.parent = runs[i].parent /\ r.status = outcome
    BY <1>t, <2>1, EndedRun
  <2>4. CASE outcome = "done"
    BY <1>4, <1>u, <2>2, <2>3, <2>4 DEF Complete
  <2>5. CASE outcome = "failed"
    <3>1. lastFailed' = [lastFailed EXCEPT ![runs[i].chain] = i]
      BY <1>4, <2>5 DEF Complete
    <3>2. runs'[i].status = "failed" /\ FailsOnly({i}) /\ HistoryMove
      BY <1>t, <2>2, <2>3, <2>5, ReplaceMove DEF FailsOnly, HistoryMove, KeepsRun
    <3>. QED
      BY <2>2, <3>1, <3>2 DEF Move, RacedMove, FailureMove, retryVars
  <2>. QED
    BY <2>4, <2>5
<1>5. ASSUME NEW i \in Indices, NEW a \in Staff, ChainOn(i, a)
      PROVE  Move
  <2>1. PICK d : d = Ended(i, "done")
    OBVIOUS
  <2>2. PICK s : s = [runs EXCEPT ![i] = d]
    OBVIOUS
  <2>3. PICK r : r = Queued(a, runs[i].chain, i)
    OBVIOUS
  <2>4. /\ d \in RunRec /\ d.agent = runs[i].agent /\ d.chain = runs[i].chain
        /\ d.parent = runs[i].parent /\ d.status = "done"
    BY <1>t, <2>1, EndedRun
  <2>5. s \in Seq(RunRec) /\ Len(s) = Len(runs) /\ \A j \in Indices : s[j] = IF j = i THEN d ELSE runs[j]
    BY <1>t, <2>2, <2>4, ReplaceMove
  <2>6. r \in RunRec /\ r.agent = a /\ r.chain = runs[i].chain /\ r.parent = i /\ r.status = "queued"
    <3>1. runs[i].chain \in Nat /\ i \in Nat
      BY <1>t DEF RunRec
    <3>. QED
      BY <1>q, <2>3, <3>1
  <2>7. /\ runs' = Append(s, r) /\ runs[i].status = "running" /\ Len(runs) < MaxRuns
        /\ UNCHANGED <<lastFailed, retryVars>>
    BY <1>5, <2>1, <2>2, <2>3 DEF ChainOn
  <2>8. /\ runs' \in Seq(RunRec) /\ Len(runs') = Len(runs) + 1 /\ runs'[Len(runs) + 1] = r
        /\ \A j \in Indices : runs'[j] = IF j = i THEN d ELSE runs[j]
    <3>1. /\ Append(s, r) \in Seq(RunRec) /\ Len(Append(s, r)) = Len(s) + 1
          /\ \A j \in 1..Len(s) : Append(s, r)[j] = s[j]
          /\ Append(s, r)[Len(s) + 1] = r
      BY <2>5, <2>6, AppendMove
    <3>. QED
      BY <1>t, <2>5, <2>7, <3>1
  <2>9. \A j \in Indices : KeepsRun(j)
    BY <2>4, <2>7, <2>8 DEF KeepsRun, Waits
  <2>10. runs[i].chain \notin raced' =>
           \A j \in Indices : runs[j].chain = runs[i].chain => ~Waits(runs'[j])
    <3>. SUFFICES ASSUME runs[i].chain \notin raced
                  PROVE  \A j \in Indices : runs[j].chain = runs[i].chain => ~Waits(runs'[j])
      BY <2>7 DEF retryVars
    <3>1. \A j \in Indices : runs[j].chain = runs[i].chain /\ j # i => ~Waits(runs[j])
      BY <1>t, <2>7 DEF ConsoleInv, ChainsInv, Waits
    <3>. QED
      BY <2>4, <2>8, <3>1 DEF Waits
  <2>11. AddsRun
    BY <2>4, <2>6, <2>8, <2>10 DEF AddsRun
  <2>12. HistoryMove
    BY <1>t, <2>7, <2>8, <2>9, <2>11 DEF HistoryMove
  <2>13. FailsOnly({})
    BY <2>4, <2>8 DEF FailsOnly
  <2>. QED
    BY <2>7, <2>12, <2>13 DEF Move, RacedMove, FailureMove, retryVars
<1>6. ASSUME RerunIssue PROVE Move
  <2>1. PICK r : r = Queued(runs[Len(runs)].agent, Len(runs) + 1, 0)
    OBVIOUS
  <2>2. /\ r \in RunRec /\ r.chain = Len(runs) + 1 /\ r.parent = 0 /\ r.status = "queued"
        /\ runs' = Append(runs, r)
    <3>1. runs[Len(runs)].agent \in Staff /\ Len(runs) + 1 \in Nat
      BY <1>t DEF RunRec
    <3>. QED
      BY <1>q, <1>6, <2>1, <3>1 DEF RerunIssue
  <2>3. runs'[Len(runs) + 1] = r
    BY <1>t, <2>2, AppendMove
  <2>4. Len(runs) < MaxRuns /\ UNCHANGED <<lastFailed, found>> /\ RacedMove
    BY <1>6 DEF RerunIssue, retryVars, RacedMove
  <2>. QED
    BY <1>k, <2>2, <2>3, <2>4 DEF AddsRun
<1>7. ASSUME NEW c \in Chains, CountPending(c)
      PROVE  Move
  BY <1>7, <1>s DEF CountPending
<1>8. ASSUME NEW c \in Chains, SelectFailed(c)
      PROVE  Move
  <2>1. c \in 1..MaxRuns
    <3>1. PICK i \in Indices : c = runs[i].chain
      BY DEF Chains
    <3>. QED
      BY <1>t, <3>1 DEF ConsoleInv, ChainsInv
  <2>2. lastFailed[c] \in With("failed")
    BY <1>8, <2>1 DEF SelectFailed, ConsoleInv, FailedInv
  <2>. QED
    BY <1>8, <1>s, <2>2 DEF SelectFailed
<1>9. ASSUME NEW f \in found, RetryChainRun(f)
      PROVE  Move
  <2>. DEFINE c == runs[f].chain
  <2>1. f \in Indices /\ runs[f].status = "failed" /\ c \in Nat /\ runs[f].agent \in Staff /\ f \in Nat
    <3>1. f \in Indices /\ runs[f].status = "failed"
      BY DEF ConsoleInv, FailedInv, With
    <3>. QED
      BY <1>t, <3>1 DEF RunRec
  <2>2. PICK r : r = Queued(runs[f].agent, c, f)
    OBVIOUS
  <2>3. /\ r \in RunRec /\ r.agent = runs[f].agent /\ r.chain = c /\ r.parent = f /\ r.status = "queued"
        /\ runs' = Append(runs, r)
    BY <1>q, <1>9, <2>1, <2>2 DEF RetryChainRun
  <2>4. runs'[Len(runs) + 1] = r /\ \A j \in Indices : runs'[j] = runs[j]
    BY <1>t, <2>3, AppendMove
  <2>5. /\ raced \ raced' \subseteq {c}
        /\ c \notin raced' => \A j \in Indices : runs[j].chain = c => ~Waits(runs[j])
        /\ Len(runs) < MaxRuns /\ UNCHANGED <<lastFailed, found>>
    BY <1>9 DEF RetryChainRun, InChain, Active, Waits
  <2>6. AddsRun
    BY <2>1, <2>3, <2>4, <2>5 DEF AddsRun
  <2>7. RacedMove
    BY <2>5 DEF RacedMove
  <2>. QED
    BY <1>k, <2>3, <2>5, <2>6, <2>7
<1>10. ASSUME CancelActiveRun PROVE Move
  <2>1. With("running") \in SUBSET Active
    BY DEF With, Active
  <2>2. With("running") = {} => First(With("queued")) \in Active
    <3>1. With("running") = {} => With("queued") # {}
      BY <1>10 DEF CancelActiveRun, CanCancelRun, Active, With
    <3>2. With("queued") \in SUBSET Indices /\ With("queued") \in SUBSET Active
      BY DEF With, Active
    <3>. QED
      BY <1>t, <3>1, <3>2, FirstIsFirst
  <2>3. PICK I \in SUBSET Active : runs' = Cancelled(I)
    BY <1>10, <2>1, <2>2 DEF CancelActiveRun
  <2>. QED
    BY <1>10, <2>3, CancelledMove DEF ConsoleInv, CancelActiveRun
<1>11. ASSUME NEW c \in Chains, CancelWholeChain(c)
       PROVE  Move
  BY <1>11, CancelledMove DEF ConsoleInv, CancelWholeChain
<1>12. ASSUME NEW s \in {"open", "done", "cancelled"}, SetIssueStatus(s)
       PROVE  Move
  <2>1. CASE s = "cancelled"
    <3>1. With("queued") \in SUBSET Active
      BY DEF With, Active
    <3>. QED
      BY <1>12, <2>1, <3>1, CancelledMove DEF ConsoleInv, SetIssueStatus
  <2>2. CASE s # "cancelled"
    BY <1>12, <1>s, <2>2 DEF SetIssueStatus, retryVars
  <2>. QED
    BY <2>1, <2>2
<1>13. status' \in {"open", "done", "cancelled"}
  BY DEF ConsoleInv, ConsoleTypeInv, ConsoleNext, AddMention, Claim, Reschedule, ChainOn, Complete,
         RerunIssue, CancelActiveRun, CountPending, SelectFailed, RetryChainRun, CancelWholeChain,
         SetIssueStatus
<1>. QED
  BY <1>1, <1>2, <1>3, <1>4, <1>5, <1>6, <1>7, <1>8, <1>9, <1>10, <1>11, <1>12, <1>13 DEF ConsoleNext

\* Every step keeps what the views rely on.
LEMMA StepKeepsConsole ==
  ASSUME ConsoleInv, ConsoleNext
  PROVE  ConsoleInv'
<1>. DEFINE n == Len(runs)
<1>t. /\ runs \in Seq(RunRec) /\ n \in Nat /\ n \in 1..MaxRuns /\ Indices = 1..n
      /\ \A i \in Indices : runs[i] \in RunRec /\ runs[i].chain \in Nat /\ runs[i].parent \in Nat
      /\ MaxRuns \in Nat
  <2>1. /\ runs \in Seq(RunRec) /\ n \in Nat /\ n \in 1..MaxRuns /\ Indices = 1..n
        /\ MaxRuns \in Nat
    BY ConsoleAssumption DEF ConsoleInv, ConsoleTypeInv, Indices
  <2>2. \A i \in Indices : runs[i] \in RunRec
    BY <2>1
  <2>. QED
    BY <2>1, <2>2 DEF RunRec
<1>m. HistoryMove /\ RacedMove /\ FailureMove /\ status' \in {"open", "done", "cancelled"}
  BY StepMoves DEF Move
<1>n. /\ Len(runs') \in 1..MaxRuns /\ Indices' = 1..Len(runs')
      /\ \A i \in Indices' : i \in Indices \/ (i = n + 1 /\ AddsRun)
      /\ Indices \subseteq Indices'
  BY <1>t, <1>m DEF HistoryMove, Indices
<1>k. \A i \in Indices : KeepsRun(i)
  BY <1>m DEF HistoryMove
<1>c. \A i \in Indices : runs[i].chain \in 1..MaxRuns /\ runs[i].chain \in 1..i
  BY <1>t DEF ConsoleInv, ChainsInv
<1>1. ConsoleTypeInv'
  <2>1. lastFailed' \in [1..MaxRuns -> Nat]
    <3>1. lastFailed \in [1..MaxRuns -> Nat] /\ \A k \in Indices : k \in Nat
      BY <1>t DEF ConsoleInv, ConsoleTypeInv
    <3>. QED
      BY <1>m, <3>1 DEF FailureMove
  <2>. QED
    BY <1>m, <1>n, <2>1 DEF HistoryMove, ConsoleTypeInv
<1>2. ChainsInv'
  <2>. SUFFICES ASSUME NEW i \in Indices'
                PROVE  /\ runs'[i].chain \in 1..i
                       /\ runs'[i].chain \notin raced' =>
                            \A j \in Indices' : j < i /\ runs'[j].chain = runs'[i].chain => ~Waits(runs'[j])
    BY DEF ChainsInv, Waits
  <2>1. CASE i \in Indices
    <3>1. runs'[i].chain = runs[i].chain /\ runs[i].chain \in 1..i
      BY <1>c, <1>k, <2>1 DEF KeepsRun
    <3>2. ASSUME runs'[i].chain \notin raced',
                 NEW j \in Indices', j < i, runs'[j].chain = runs'[i].chain
          PROVE  ~Waits(runs'[j])
      <4>1. j \in Indices
        BY <1>t, <1>n, <2>1, <3>2
      <4>2. runs[j].chain = runs[i].chain
        BY <1>k, <3>1, <3>2, <4>1 DEF KeepsRun
      <4>3. ~Waits(runs[j])
        <5>1. CASE runs[i].chain \in raced
          BY <1>m, <3>1, <3>2, <4>1, <4>2, <5>1 DEF RacedMove
        <5>2. CASE runs[i].chain \notin raced
          BY <2>1, <3>2, <4>1, <4>2, <5>2 DEF ConsoleInv, ChainsInv
        <5>. QED
          BY <5>1, <5>2
      <4>. QED
        BY <1>k, <4>1, <4>3 DEF KeepsRun, Waits
    <3>. QED
      BY <3>1, <3>2
  <2>2. CASE i = n + 1 /\ AddsRun
    <3>1. \A j \in Indices' : j < i => j \in Indices /\ runs'[j].chain = runs[j].chain /\ runs[j].chain \in 1..j
      BY <1>t, <1>n, <1>c, <1>k, <2>2 DEF KeepsRun
    <3>2. CASE runs'[n + 1].chain = n + 1
      BY <1>t, <2>2, <3>1, <3>2
    <3>3. ASSUME NEW p \in Indices, runs'[n + 1].chain = runs[p].chain,
                 runs[p].chain \notin raced' =>
                   \A j \in Indices : runs[j].chain = runs[p].chain => ~Waits(runs'[j])
          PROVE  /\ runs'[i].chain \in 1..i
                 /\ runs'[i].chain \notin raced' =>
                      \A j \in Indices' : j < i /\ runs'[j].chain = runs'[i].chain => ~Waits(runs'[j])
      <4>1. runs[p].chain \in 1..p /\ p <= n
        BY <1>t, <1>c
      <4>. QED
        BY <1>t, <2>2, <3>1, <3>3, <4>1
    <3>. QED
      BY <2>2, <3>2, <3>3 DEF AddsRun
  <2>. QED
    BY <1>n, <2>1, <2>2
<1>4. FailedInv'
  <2>f. lastFailed \in [1..MaxRuns -> Nat] /\ \A k \in Indices : k # 0
    BY <1>t DEF ConsoleInv, ConsoleTypeInv
  <2>1. \A i \in Indices : runs[i].status = "failed" =>
                           /\ i \in Indices' /\ runs'[i].status = "failed"
                           /\ runs'[i].chain = runs[i].chain
    BY <1>n, <1>k DEF KeepsRun, Waits
  <2>2. ASSUME NEW i \in Indices', runs'[i].status = "failed"
        PROVE  lastFailed'[runs'[i].chain] # 0
    <3>1. i \in Indices
      BY <1>n, <2>2 DEF AddsRun
    <3>2. runs'[i].chain = runs[i].chain /\ runs[i].chain \in 1..MaxRuns
      BY <1>c, <1>k, <3>1 DEF KeepsRun
    <3>3. runs[i].status = "failed" => lastFailed[runs[i].chain] # 0
      BY <3>1 DEF ConsoleInv, FailedInv
    <3>4. CASE lastFailed' = lastFailed /\ FailsOnly({})
      BY <2>2, <3>1, <3>2, <3>3, <3>4 DEF FailsOnly
    <3>5. ASSUME NEW k \in Indices, lastFailed' = [lastFailed EXCEPT ![runs[k].chain] = k], FailsOnly({k})
          PROVE  lastFailed'[runs'[i].chain] # 0
      BY <1>c, <2>f, <2>2, <3>1, <3>2, <3>3, <3>5 DEF FailsOnly
    <3>. QED
      BY <1>m, <3>4, <3>5 DEF FailureMove
  <2>3. ASSUME NEW c \in 1..MaxRuns, lastFailed'[c] # 0
        PROVE  /\ lastFailed'[c] \in Indices' /\ runs'[lastFailed'[c]].status = "failed"
               /\ runs'[lastFailed'[c]].chain = c
    <3>1. lastFailed[c] # 0 => /\ lastFailed[c] \in Indices /\ runs[lastFailed[c]].status = "failed"
                               /\ runs[lastFailed[c]].chain = c
      BY DEF ConsoleInv, FailedInv, InChain, With
    <3>2. CASE lastFailed' = lastFailed
      BY <2>1, <2>3, <3>1, <3>2
    <3>3. ASSUME NEW k \in Indices, lastFailed' = [lastFailed EXCEPT ![runs[k].chain] = k],
                 runs'[k].status = "failed"
          PROVE  /\ lastFailed'[c] \in Indices' /\ runs'[lastFailed'[c]].status = "failed"
                 /\ runs'[lastFailed'[c]].chain = c
      <4>1. CASE c = runs[k].chain
        BY <1>n, <1>k, <2>f, <3>3, <4>1 DEF KeepsRun
      <4>2. CASE c # runs[k].chain
        BY <2>f, <2>1, <2>3, <3>1, <3>3, <4>2
      <4>. QED
        BY <4>1, <4>2
    <3>. QED
      BY <1>m, <3>2, <3>3 DEF FailureMove
  <2>4. \A f \in found' : f \in Indices' /\ runs'[f].status = "failed"
    BY <1>m, <2>1 DEF FailureMove, ConsoleInv, FailedInv, With
  <2>. QED
    BY <2>2, <2>3, <2>4 DEF FailedInv, InChain, With
<1>3. ParentsInv'
  <2>. SUFFICES ASSUME NEW i \in Indices', runs'[i].parent # 0
                PROVE  LET p == runs'[i].parent
                       IN  /\ p \in Indices' /\ p < i
                           /\ \/ runs'[p].status = "done"
                              \/ runs'[p].status = "failed" /\ runs'[p].agent = runs'[i].agent
    BY DEF ParentsInv
  <2>1. CASE i \in Indices
    <3>1. PICK p \in Indices : p = runs[i].parent /\ p = runs'[i].parent /\ p < i
      BY <1>k, <2>1 DEF ConsoleInv, ParentsInv, KeepsRun
    <3>2. runs[p].status = "done" \/ (runs[p].status = "failed" /\ runs[p].agent = runs[i].agent)
      BY <2>1, <1>k, <3>1 DEF ConsoleInv, ParentsInv, KeepsRun
    <3>3. runs'[p].status = runs[p].status /\ runs'[p].agent = runs[p].agent
      BY <1>k, <3>2 DEF KeepsRun, Waits
    <3>. QED
      BY <1>n, <1>k, <2>1, <3>1, <3>2, <3>3 DEF KeepsRun
  <2>2. CASE i = n + 1 /\ AddsRun
    <3>1. PICK p \in Indices :
            /\ runs'[i].parent = p
            /\ \/ runs'[p].status = "done"
               \/ runs'[p].status = "failed" /\ runs[p].agent = runs'[i].agent
      BY <2>2 DEF AddsRun
    <3>2. runs'[p].agent = runs[p].agent /\ p < i
      BY <1>t, <1>k, <2>2 DEF KeepsRun
    <3>. QED
      BY <1>n, <3>1, <3>2
  <2>. QED
    BY <1>n, <2>1, <2>2
<1>. QED
  BY <1>1, <1>2, <1>3, <1>4 DEF ConsoleInv

-----------------------------------------------------------------------------
(* The views                                                               *)

\* The issue counts as busy exactly while one of its runs is queued or running: the
\* server's execution_status and its runs never disagree.
LEMMA BusyIsActive ==
  ASSUME ConsoleTypeInv
  PROVE  /\ Busy <=> Active # {}
         /\ ExecutionStatus = "done" => Active = {} /\ runs[Len(runs)].status = "done"
<1>1. Len(runs) \in Indices /\ Len(runs) \in Nat
  BY DEF ConsoleTypeInv, Indices
<1>2. Active = With("running") \cup With("queued")
  BY DEF Active, With
<1>3. Active = {} => runs[Len(runs)].status \notin {"queued", "running"}
  BY <1>1 DEF Active
<1>. QED
  BY <1>2, <1>3 DEF Busy, ExecutionStatus

\* Every button of the rail, the card and the banner is one the server accepts.
LEMMA OffersHold == ConsoleTypeInv => OffersAreHonoured
<1>. SUFFICES ASSUME ConsoleTypeInv PROVE OffersAreHonoured
  OBVIOUS
<1>1. /\ Busy <=> Active # {}
      /\ ExecutionStatus = "done" => Active = {}
  BY BusyIsActive
<1>2. Active = {} => With("running") = {}
  BY DEF Active, With
<1>3. ASSUME NEW op0 \in IssueCard \cup IssueSummaryRail \cup BannerOffers
      PROVE  ServerAccepts(op0)
  <2>1. \/ op0 = "rerun" /\ ~Busy
        \/ op0 = "cancelRun" /\ Busy
        \/ op0 = "markDone" /\ Active = {}
        \/ op0 = "cancelIssue" /\ Active = {}
        \/ op0 = "reopen"
    BY <1>1 DEF IssueCard, IssueSummaryRail, BannerOffers, ReviewBanner
  <2>. QED
    BY <1>1, <1>2, <2>1 DEF ServerAccepts, CanRerun, CanCancelRun, CanSetStatus
<1>4. IssueCard # {} /\ IssueSummaryRail # {}
  BY DEF ConsoleTypeInv, IssueCard, IssueSummaryRail
<1>5. LiveRunCard # 0 <=> Active # {}
  <2>1. Active # {} => First(Active) \in Indices
    <3>1. Active \in SUBSET Indices /\ Len(runs) \in Nat
      BY DEF ConsoleTypeInv, Active
    <3>. QED
      BY <3>1, FirstIsFirst
  <2>. QED
    BY <2>1 DEF LiveRunCard, Indices
<1>6. "cancelRun" \in IssueSummaryRail <=> Busy
  BY DEF IssueSummaryRail
<1>. QED
  BY <1>1, <1>3, <1>4, <1>5, <1>6 DEF OffersAreHonoured

\* The last run of a chain speaks for the chain, unless the chain is active and raced.
LEMMA ChainRowsHold == ConsoleInv => ChainRowSpeaksForItsChain
<1>. SUFFICES ASSUME ConsoleInv, NEW c \in Chains,
                     c \notin raced \/ InChain(c) \cap Active = {}
              PROVE  /\ InChain(c) \cap Active # {} <=> "cancelChain" \in ChainSummaryRow(c)
                     /\ "retryChain" \in ChainSummaryRow(c) =>
                          CanRetry(c) \/ AgentWaits(runs[lastFailed[c]].agent)
  BY DEF ChainRowSpeaksForItsChain
<1>1. InChain(c) # {} /\ InChain(c) \in SUBSET Indices /\ Len(runs) \in Nat /\ Indices = 1..Len(runs)
  BY DEF Chains, InChain, ConsoleInv, ConsoleTypeInv, Indices
<1>2. PICK k \in InChain(c) : k = Last(InChain(c)) /\ \A j \in InChain(c) : j <= k
  BY <1>1, LastIsLast
<1>3. ASSUME NEW j \in InChain(c), j # k PROVE ~Waits(runs[j])
  <2>1. j \in Indices /\ k \in Indices /\ runs[j].chain = c /\ runs[k].chain = c /\ j < k
    BY <1>1, <1>2, <1>3 DEF InChain
  <2>2. CASE c \notin raced
    BY <2>1, <2>2 DEF ConsoleInv, ChainsInv
  <2>3. CASE InChain(c) \cap Active = {}
    BY <2>1, <2>3 DEF InChain, Active, Waits
  <2>. QED
    BY <2>2, <2>3
<1>4. InChain(c) \cap Active # {} <=> Waits(runs[k])
  BY <1>1, <1>2, <1>3 DEF Active, Waits
<1>5. SummarizeChains[c].last = runs[k].status
  BY <1>2 DEF SummarizeChains
<1>6. runs[k].status = "failed" => lastFailed[c] # 0
  BY <1>1, <1>2 DEF ConsoleInv, FailedInv, InChain
<1>. QED
  BY <1>4, <1>5, <1>6 DEF ChainSummaryRow, Waits, CanRetry

\* The banner speaks for the whole history.
LEMMA BannerHolds == ConsoleInv => BannerTellsTheOutcome
<1>. SUFFICES ASSUME ConsoleInv, ReviewBanner
              PROVE  /\ \A s \in {"queued", "running", "retrying"} : PipelineCount(s) = {}
                     /\ LastDone = Len(runs)
                     /\ \A i \in With("done") :
                          runs[i].parent \in With("failed") => i \in FindRecovery(runs[i].parent)
  BY DEF BannerTellsTheOutcome
<1>1. Active = {} /\ runs[Len(runs)].status = "done"
  BY BusyIsActive DEF ConsoleInv, ReviewBanner
<1>2. Len(runs) \in Indices /\ Len(runs) \in Nat /\ Indices = 1..Len(runs)
  BY DEF ConsoleInv, ConsoleTypeInv, Indices
<1>3. \A s \in {"queued", "running", "retrying"} : PipelineCount(s) = {}
  <2>1. \A i \in Indices : /\ runs[i].status \in {"done", "failed", "cancelled"}
                           /\ StateOf(i) = runs[i].status
    <3>1. \A i \in Indices : runs[i].status \in {"queued", "running", "done", "failed", "cancelled"}
      <4>1. \A i \in Indices : runs[i] \in RunRec
        BY <1>2 DEF ConsoleInv, ConsoleTypeInv
      <4>. QED
        BY <4>1 DEF RunRec
    <3>. QED
      BY <1>1, <3>1 DEF Active, StateOf
  <2>. QED
    BY <2>1 DEF PipelineCount
<1>4. LastDone = Len(runs)
  <2>1. Len(runs) \in With("done") /\ With("done") \in SUBSET Indices
    BY <1>1, <1>2 DEF With
  <2>2. Last(With("done")) \in With("done") /\ Len(runs) <= Last(With("done"))
    BY <1>2, <2>1, LastIsLast
  <2>. QED
    BY <1>2, <2>1, <2>2 DEF LastDone
<1>5. ASSUME NEW i \in With("done"), runs[i].parent \in With("failed")
      PROVE  i \in FindRecovery(runs[i].parent)
  BY <1>2, <1>5 DEF With, FindRecovery, ConsoleInv, ParentsInv
<1>. QED
  BY <1>3, <1>4, <1>5

-----------------------------------------------------------------------------
(* The theorems                                                            *)

\* The invariant of an issue's history: a chain is named after its first run and waits
\* with its last one only, unless retries of it overtook each other
\* (RetryFailedRunInChain); the run a retry continues is a failed one of its chain; and a
\* run's parent is over.
THEOREM ConsoleInvariant == ConsoleSpec => []ConsoleInv
<1>1. ConsoleInit(Staff) => ConsoleInv
  <2>. SUFFICES ASSUME NEW a \in Staff, status = "open", runs = <<Queued(a, 1, 0)>>,
                       lastFailed = [c \in 1..MaxRuns |-> 0], found = {}
                PROVE  ConsoleInv
    BY DEF ConsoleInit
  <2>1. /\ Queued(a, 1, 0) \in RunRec /\ Queued(a, 1, 0).chain = 1 /\ Queued(a, 1, 0).parent = 0
        /\ Queued(a, 1, 0).status = "queued"
    BY DEF Queued, RunRec
  <2>2. runs \in Seq(RunRec) /\ Len(runs) = 1 /\ Indices = {1} /\ runs[1] = Queued(a, 1, 0)
    BY <2>1 DEF Indices
  <2>3. ConsoleTypeInv
    BY <2>2, ConsoleAssumption DEF ConsoleTypeInv
  <2>4. ChainsInv /\ ParentsInv
    BY <2>1, <2>2 DEF ChainsInv, ParentsInv
  <2>5. FailedInv
    BY <2>1, <2>2 DEF FailedInv
  <2>. QED
    BY <2>3, <2>4, <2>5 DEF ConsoleInv
<1>2. ConsoleInv /\ [ConsoleNext]_consoleVars => ConsoleInv'
  <2>1. ASSUME ConsoleInv, UNCHANGED consoleVars PROVE ConsoleInv'
    BY <2>1 DEF consoleVars, retryVars, ConsoleInv, ConsoleTypeInv, ChainsInv, FailedInv, ParentsInv,
                Indices, InChain, With
  <2>. QED
    BY <2>1, StepKeepsConsole
<1>. QED
  BY <1>1, <1>2, PTL DEF ConsoleSpec

\* Every button that the card, the rail and the banner enable is accepted by the server
\* (IssueCard, IssueSummaryRail, ReviewBanner).
THEOREM OffersHonoured == ConsoleSpec => []OffersAreHonoured
<1>1. ConsoleInv => OffersAreHonoured
  BY OffersHold DEF ConsoleInv
<1>. QED
  BY <1>1, ConsoleInvariant, PTL

\* The row of a chain may look at the chain's last run only (ChainSummaryRow), except for
\* a chain that is active since retries of it overtook each other.
THEOREM ChainRowsSpeak == ConsoleSpec => []ChainRowSpeaksForItsChain
<1>. QED
  BY ChainRowsHold, ConsoleInvariant, PTL

\* The review banner speaks for the whole history (ReviewBanner, findRecovery).
THEOREM BannersTell == ConsoleSpec => []BannerTellsTheOutcome
<1>. QED
  BY BannerHolds, ConsoleInvariant, PTL

\* The summary above the board says "no filter" only over the full list, whatever the URL
\* holds (ActiveFilterSummary, buildIssuesQuery).
THEOREM SummariesAreTrue == BoardSpec => []SummaryIsTrue
<1>. DEFINE BoardInv == url \in Urls /\ crew \in SUBSET Crew
<1>1. BoardInit(Urls) => BoardInv
  BY DEF BoardInit
<1>2. BoardInv /\ [BoardNext]_boardVars => BoardInv'
  <2>. SUFFICES ASSUME BoardInv, [BoardNext]_boardVars PROVE BoardInv'
    OBVIOUS
  <2>1. ASSUME NEW key \in DOMAIN Values, NEW value \in Values[key] \cup {"all"}, SetParam(key, value)
        PROVE  BoardInv'
    <3>1. DOMAIN Values = {"status", "execution", "agent", "q"}
      BY DEF Values
    <3>2. /\ "" \in Values["status"] /\ "" \in Values["execution"]
          /\ "" \in Values["agent"] /\ "" \in Values["q"]
      BY DEF Values
    <3>. QED
      BY <2>1, <3>1, <3>2 DEF SetParam, Urls, Values
  <2>2. CASE OnClear
    BY <2>2 DEF OnClear, NoParams, Urls, Values
  <2>. QED
    BY <2>1, <2>2 DEF BoardNext, AgentsArrive, OpenLink, boardVars
<1>3. BoardInv => SummaryIsTrue
  BY DEF SummaryIsTrue, ActiveFilterSummary, ListIssues, Issues, BuildIssuesQuery, Urls, Values,
         ValidStatusFilter, ValidExecutionFilter, Trim, IssueStatuses, Executions
<1>. QED
  BY <1>1, <1>2, <1>3, PTL DEF BoardSpec

=============================================================================
