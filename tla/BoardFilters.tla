----------------------------- MODULE BoardFilters -----------------------------
(***************************************************************************)
(* The board's filters.  They live in the URL, are sent to the server and  *)
(* are summed up above the board; the name of the agent filtered by comes  *)
(* from another query.                                                     *)
(***************************************************************************)
CONSTANT Crew   \* agents the board can be filtered by

VARIABLES
  url,   \* the board's search parameters; "" when absent
  crew   \* the agents query's answer

boardVars == <<url, crew>>

IssueStatuses == {"open", "done", "cancelled"}
Executions == {"running", "done"}
Issues == [status : IssueStatuses, execution : Executions, assignee : Crew \cup {""}, text : {"x", "y"}]

\* What a parameter can be: a link or an old bookmark holds anything.
Values ==
  [status |-> IssueStatuses \cup {"", "junk"}, execution |-> Executions \cup {"", "junk"},
   agent |-> Crew \cup {"", "gone"}, q |-> {"", " ", "x"}]
Urls == [status : Values.status, execution : Values.execution, agent : Values.agent, q : Values.q]
NoParams == [status |-> "", execution |-> "", agent |-> "", q |-> ""]

ValidStatusFilter(v) == IF v \in IssueStatuses THEN v ELSE "all"
ValidExecutionFilter(v) == IF v \in Executions THEN v ELSE "all"
Trim(v) == IF v = " " THEN "" ELSE v

\* Mutant: the search text is sent as it was typed.
BuildUntrimmed ==
  [status |-> ValidStatusFilter(url.status), execution |-> ValidExecutionFilter(url.execution),
   assignee |-> url.agent, q |-> url.q]

\* The filters sent to the server.
BuildIssuesQuery ==
  [status |-> ValidStatusFilter(url.status), execution |-> ValidExecutionFilter(url.execution),
   assignee |-> url.agent, q |-> Trim(url.q)]

\* Without its LIMIT 200.
ListIssues ==
  LET f == BuildIssuesQuery
  IN {i \in Issues : /\ f.status \in {"all", i.status} /\ f.execution \in {"all", i.execution}
                     /\ f.assignee \in {"", i.assignee} /\ f.q \in {"", i.text}}

\* One chip per filter; the agent's needs its name.
ActiveFilterSummary ==
  {c \in {"status", "execution", "agent", "q"} :
     CASE c = "status" -> ValidStatusFilter(url.status) # "all"
       [] c = "execution" -> ValidExecutionFilter(url.execution) # "all"
       [] c = "agent" -> url.agent \in crew
       [] c = "q" -> Trim(url.q) # ""}

SetParam(key, value) == url' = [url EXCEPT ![key] = IF value = "all" THEN "" ELSE value] /\ UNCHANGED crew
OnClear == url' = NoParams /\ UNCHANGED crew
OpenLink(u) == url' = u /\ UNCHANGED crew
AgentsArrive == crew' = Crew /\ UNCHANGED url

BoardInit(links) == url \in links /\ crew = {}

BoardNext ==
  \/ \E key \in DOMAIN Values : \E value \in Values[key] \cup {"all"} : SetParam(key, value)
  \/ OnClear \/ AgentsArrive
  \/ \E u \in Urls : OpenLink(u)

BoardSpec == BoardInit(Urls) /\ [][BoardNext]_boardVars

-----------------------------------------------------------------------------
(* Properties *)

\* "No filter, all issues are shown" is true of the list above which it
\* stands, whatever junk the URL holds; unless the agent in it is not among
\* the agents loaded, which filters the list but has no chip.
SummaryIsTrue ==
  ActiveFilterSummary = {} /\ url.agent \in crew \cup {""} => ListIssues = Issues
=============================================================================
