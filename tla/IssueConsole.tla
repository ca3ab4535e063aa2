----------------------------- MODULE IssueConsole -----------------------------
(***************************************************************************)
(* What the issue page and the board make of an issue and its runs: the    *)
(* summary rail, the board card, the review banner, the live card, the     *)
(* chain rows and the pipeline strip, each over the same history, which the *)
(* server's operations extend.  Answers are taken as fresh: how the page   *)
(* keeps up is the matter of IssuePage.                                    *)
(*                                                                         *)
(* A run is a record; its place in the sequence is its id and the order of *)
(* enqueued_at.                                                            *)
(***************************************************************************)
EXTENDS Integers, Sequences

CONSTANTS
  Staff,      \* agents
  MaxRuns,    \* bound: runs of the issue
  MaxTries    \* attempts of a run

ASSUME ConsoleAssumption == {MaxRuns, MaxTries} \subseteq Nat \ {0}

VARIABLES
  status, runs,   \* issue.status; the issue's runs
  lastFailed,     \* for a chain the failed run that finished last, 0 for none
  asked,          \* chains in which a retry under way has seen no active run
  found,          \* failed runs that a retry under way has picked
  raced           \* history: chains whose last retry was added beside an active run

retryVars == <<asked, found, raced>>
consoleVars == <<status, runs, lastFailed, retryVars>>

Indices == 1..Len(runs)
Active == {i \in Indices : runs[i].status \in {"queued", "running"}}
With(s) == {i \in Indices : runs[i].status = s}
InChain(c) == {i \in Indices : runs[i].chain = c}
Chains == {runs[i].chain : i \in Indices}
Last(I) == CHOOSE i \in I : \A j \in I : j <= i
First(I) == CHOOSE i \in I : \A j \in I : i <= j

Queued(agent, chain, parent) ==
  [agent |-> agent, status |-> "queued", chain |-> chain, parent |-> parent, try |-> 1]

\* Run i over; its attempts, which no view below reads any more, are not kept.
Ended(i, outcome) == [runs[i] EXCEPT !.status = outcome, !.try = 1]

\* execution_status, derived from the runs.
ExecutionStatus ==
  IF With("running") # {} THEN "running"
  ELSE IF With("queued") # {} THEN "queued"
  ELSE runs[Len(runs)].status

\* The index that allows one queued run per issue and agent.
AgentWaits(a) == \E i \in With("queued") : runs[i].agent = a

ConsoleInit(staff) ==
  /\ \E a \in staff : status = "open" /\ runs = <<Queued(a, 1, 0)>>
  /\ lastFailed = [c \in 1..MaxRuns |-> 0] /\ asked = {} /\ found = {} /\ raced = {}

-----------------------------------------------------------------------------
(* The server's operations and when it accepts them *)

\* A run of a chain of its own.
AddMention(a) ==
  /\ Len(runs) < MaxRuns /\ ~AgentWaits(a)
  /\ runs' = Append(runs, Queued(a, Len(runs) + 1, 0)) /\ status' = "open"
  /\ UNCHANGED <<lastFailed, retryVars>>

\* The oldest queued run; one that waits for its next attempt is passed over.
Claim(i) ==
  /\ runs[i].status = "queued" /\ With("running") = {}
  /\ \A j \in With("queued") : j < i => runs[j].try > 1
  /\ runs' = [runs EXCEPT ![i].status = "running"] /\ UNCHANGED <<status, lastFailed, retryVars>>

\* A run that failed for a while waits for its next attempt.
Reschedule(i) ==
  /\ runs[i].status = "running" /\ runs[i].try < MaxTries /\ ~AgentWaits(runs[i].agent)
  /\ runs' = [runs EXCEPT ![i].status = "queued", ![i].try = @ + 1]
  /\ UNCHANGED <<status, lastFailed, retryVars>>

\* A success closes the issue where the workspace says so, whatever else is
\* queued on it.
Complete(i, outcome) ==
  /\ runs[i].status = "running"
  /\ runs' = [runs EXCEPT ![i] = Ended(i, outcome)]
  /\ status' \in IF outcome = "done" THEN {status, "done"} ELSE {status}
  /\ lastFailed' = IF outcome = "failed" THEN [lastFailed EXCEPT ![runs[i].chain] = i] ELSE lastFailed
  /\ UNCHANGED retryVars

\* Mutant: a mention in the result starts a run although the run has failed
\* and will be retried.
ChainOnRetry(i, a) ==
  /\ runs[i].status = "running" /\ Len(runs) < MaxRuns
  /\ ~AgentWaits(a)
  /\ runs' = Append([runs EXCEPT ![i].status = "queued"], Queued(a, runs[i].chain, i))
  /\ UNCHANGED <<status, lastFailed, retryVars>>

\* A mention in the result of a successful run continues its chain; the
\* guards that may forbid it are those of RunQueue.
ChainOn(i, a) ==
  /\ runs[i].status = "running" /\ Len(runs) < MaxRuns
  /\ ~AgentWaits(a)
  /\ runs' = Append([runs EXCEPT ![i] = Ended(i, "done")], Queued(a, runs[i].chain, i))
  /\ UNCHANGED <<status, lastFailed, retryVars>>

\* A rerun whose check is older than its insert adds what AddMention adds.
CanRerun == Active = {}
RerunIssue ==
  /\ CanRerun /\ Len(runs) < MaxRuns
  /\ runs' = Append(runs, Queued(runs[Len(runs)].agent, Len(runs) + 1, 0)) /\ status' = "open"
  /\ UNCHANGED <<lastFailed, retryVars>>

\* A retry of chain c as the server would answer it now, with nothing in between.
CanRetry(c) ==
  /\ InChain(c) \cap Active = {} /\ lastFailed[c] # 0
  /\ ~AgentWaits(runs[lastFailed[c]].agent)

\* The retry of a chain is two reads and a transaction, and other requests may
\* come between them: nothing of the chain is queued or running (an idle chain
\* without a failure is never retried, so its count is left out); ...
CountPending(c) ==
  /\ InChain(c) \cap Active = {} /\ lastFailed[c] # 0
  /\ asked' = asked \cup {c} /\ UNCHANGED <<status, runs, lastFailed, found, raced>>

\* ... its failed run that finished last; ...
SelectFailed(c) ==
  /\ c \in asked /\ lastFailed[c] # 0
  /\ found' = found \cup {lastFailed[c]} /\ UNCHANGED <<status, runs, lastFailed, asked, raced>>

\* ... a run of its agent, unless it has one queued.  Any number of requests may
\* have read the same, so the reads stay.
RetryChainRun(f) ==
  /\ f \in found /\ Len(runs) < MaxRuns /\ ~AgentWaits(runs[f].agent)
  /\ runs' = Append(runs, Queued(runs[f].agent, runs[f].chain, f)) /\ status' = "open"
  /\ raced' = IF InChain(runs[f].chain) \cap Active # {} THEN raced \cup {runs[f].chain}
              ELSE raced \ {runs[f].chain}
  /\ UNCHANGED <<lastFailed, asked, found>>

Cancelled(I) == [i \in Indices |-> IF i \in I THEN Ended(i, "cancelled") ELSE runs[i]]

\* The running run, else the oldest queued one.
CanCancelRun == Active # {}
CancelActiveRun ==
  /\ CanCancelRun
  /\ runs' = Cancelled(IF With("running") # {} THEN With("running") ELSE {First(With("queued"))})
  /\ UNCHANGED <<status, lastFailed, retryVars>>

CancelWholeChain(c) ==
  /\ InChain(c) \cap Active # {}
  /\ runs' = Cancelled(InChain(c) \cap Active) /\ UNCHANGED <<status, lastFailed, retryVars>>

CanSetStatus(s) ==
  /\ s = "done" => Active = {}
  /\ s = "cancelled" => With("running") = {}
SetIssueStatus(s) ==
  /\ CanSetStatus(s)
  /\ status' = s /\ runs' = IF s = "cancelled" THEN Cancelled(With("queued")) ELSE runs
  /\ UNCHANGED <<lastFailed, retryVars>>

ConsoleNext ==
  \/ \E a \in Staff : AddMention(a)
  \/ \E i \in Indices : Claim(i) \/ Reschedule(i) \/ \E a \in Staff : ChainOn(i, a)
  \/ \E i \in Indices, outcome \in {"done", "failed"} : Complete(i, outcome)
  \/ RerunIssue \/ CancelActiveRun
  \/ \E c \in Chains : CountPending(c) \/ SelectFailed(c) \/ CancelWholeChain(c)
  \/ \E f \in found : RetryChainRun(f)
  \/ \E s \in {"open", "done", "cancelled"} : SetIssueStatus(s)

ConsoleSpec == ConsoleInit(Staff) /\ [][ConsoleNext]_consoleVars

-----------------------------------------------------------------------------
(* The views *)

Busy == ExecutionStatus \in {"queued", "running"}

\* Mutant: the card's done button looks at the issue only.
CardOffersDone ==
  (IF status # "open" THEN {"reopen"} ELSE {"markDone"})
  \cup (IF Busy THEN {"cancelRun"} ELSE IF status # "cancelled" THEN {"cancelIssue"} ELSE {})

\* The buttons of a board card.
IssueCard ==
  (IF status # "open" THEN {"reopen"} ELSE IF ~Busy THEN {"markDone"} ELSE {})
  \cup (IF Busy THEN {"cancelRun"} ELSE IF status # "cancelled" THEN {"cancelIssue"} ELSE {})

\* The buttons of the rail.
IssueSummaryRail ==
  (IF Busy THEN {"cancelRun"} ELSE {"rerun"} \cup (IF status # "cancelled" THEN {"cancelIssue"} ELSE {}))
  \cup (IF ~Busy /\ status # "done" THEN {"markDone"} ELSE {})
  \cup (IF status # "open" THEN {"reopen"} ELSE {})

\* Mutant: the banner is shown for every open issue whose last run is over.
BannerAnyOutcome == status = "open" /\ ~Busy

\* The banner that asks the user to close the issue.
ReviewBanner == status = "open" /\ ExecutionStatus = "done"
BannerOffers == IF ReviewBanner THEN {"markDone", "cancelIssue"} ELSE {}
LastDone == IF With("done") = {} THEN 0 ELSE Last(With("done"))

\* A later success of the same agent.
FindRecovery(f) == {i \in With("done") : i > f /\ runs[i].agent = runs[f].agent}

\* The first run of the list that is queued or running.
LiveRunCard == IF Active = {} THEN 0 ELSE First(Active)

\* A row per chain: its runs in order, and the last one's status.
SummarizeChains == [c \in Chains |-> [runs |-> InChain(c), last |-> runs[Last(InChain(c))].status]]

ChainSummaryRow(c) ==
  LET last == SummarizeChains[c].last
  IN  (IF last \in {"queued", "running"} THEN {"cancelChain"} ELSE {})
      \cup (IF last = "failed" THEN {"retryChain"} ELSE {})

StateOf(i) ==
  IF runs[i].status = "queued" /\ runs[i].try > 1 THEN "retrying" ELSE runs[i].status
PipelineCount(s) == {i \in Indices : StateOf(i) = s}

-----------------------------------------------------------------------------
(* Properties *)

ServerAccepts(op) ==
  CASE op = "rerun" -> CanRerun
    [] op = "cancelRun" -> CanCancelRun
    [] op = "markDone" -> CanSetStatus("done")
    [] op = "cancelIssue" -> CanSetStatus("cancelled")
    [] op = "reopen" -> CanSetStatus("open")

\* Every button the rail, the card and the banner enable is accepted by the
\* server, which decides by the issue's runs and not by execution_status;
\* neither view leaves an issue without a way on; and the live card shows a
\* run whenever the rail offers to cancel one.
OffersAreHonoured ==
  /\ \A op \in IssueCard \cup IssueSummaryRail \cup BannerOffers : ServerAccepts(op)
  /\ IssueCard # {} /\ IssueSummaryRail # {}
  /\ LiveRunCard # 0 <=> "cancelRun" \in IssueSummaryRail

\* The row of a chain looks at the chain's last run only, and speaks for all
\* of them: it offers to cancel exactly when one is queued or running, and
\* a retry it offers is accepted unless the agent waits in another chain.
\* Excepted is a chain that is active since retries of it overtook each other:
\* its last run may be over before an earlier one.
ChainRowSpeaksForItsChain ==
  \A c \in Chains :
    \/ c \in raced /\ InChain(c) \cap Active # {}
    \/ /\ InChain(c) \cap Active # {} <=> "cancelChain" \in ChainSummaryRow(c)
       /\ "retryChain" \in ChainSummaryRow(c) => CanRetry(c) \/ AgentWaits(runs[lastFailed[c]].agent)

\* The banner speaks for the whole history: when it asks the user to close
\* the issue, the strip below it has no run that is going, waiting or to be
\* retried, the run it names as the last step is the newest one, and a
\* failure that a retry of its chain has made good counts as recovered.
BannerTellsTheOutcome ==
  ReviewBanner =>
    /\ \A s \in {"queued", "running", "retrying"} : PipelineCount(s) = {}
    /\ LastDone = Len(runs)
    /\ \A i \in With("done") :
         runs[i].parent \in With("failed") => i \in FindRecovery(runs[i].parent)
=============================================================================
