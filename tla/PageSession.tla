------------------------------ MODULE PageSession ------------------------------
(***************************************************************************)
(* One operation of one page from its form to the data it changes: the     *)
(* form is opened, filled in, sent and closed, the server applies or       *)
(* refuses the request, the answer comes or is lost, and the handlers      *)
(* clear, close or leave and invalidate queries.  One query of the page is *)
(* watched while it is polled, changed by others and fetched again.        *)
(***************************************************************************)
EXTENDS Integers, PageOps

CONSTANTS
  MaxDrafts,    \* bound: different contents typed into the form
  MaxOpenings,  \* bound: times the dialog is opened
  MaxChanges    \* bound: changes of the watched data

ASSUME SessionAssumption == {MaxDrafts, MaxOpenings, MaxChanges} \subseteq Nat \ {0}

VARIABLES
  op, watched,      \* the operation and the query of this session
  page,             \* the page shown
  opening,          \* which opening of the form is on screen; 0 when closed
  openings, typed,  \* openings and drafts so far
  draft,            \* what the form holds; 0 when empty
  req,              \* two slots for requests under way
  made,             \* per draft, how often the server applied it
  lost,             \* the answer to an applied request was lost
  ver,              \* version of the watched data on the server
  seen, stale,      \* version the cache shows; invalidated while not on screen
  phase, reply,     \* the watched query's request
  confirmed         \* version the operation's success handler has seen made

formVars == <<page, opening, openings, typed, draft>>
requestVars == <<req, made, lost>>
dataVars == <<ver, seen, stale, phase, reply, confirmed>>
sessionVars == <<op, watched, formVars, requestVars, dataVars>>

Slots == {1, 2}
NoRequest == [st |-> "none", draft |-> 0, from |-> 0, at |-> 0]
InFlight == {r \in Slots : req[r].st # "none"}

\* Where the page goes when the operation leaves it.
Destination(o) ==
  IF "leaves" \notin o.effects THEN o.page ELSE IF o = RemoveAgent THEN AgentsPage ELSE BoardPage

\* The watched query is one the operation changes, where there is one.
SessionInit(ops) ==
  /\ op \in ops /\ page = op.page
  /\ watched \in op.page \cup Destination(op)
  /\ op.writes # {} => watched.key \in op.writes
  /\ opening = (IF "dialog" \in op.form THEN 0 ELSE 1)
  /\ openings = opening /\ typed = 0 /\ draft = 0
  /\ req = [r \in Slots |-> NoRequest] /\ made = [d \in 1..MaxDrafts |-> 0] /\ lost = FALSE
  /\ ver = 0 /\ seen = 0 /\ stale = FALSE /\ phase = "idle" /\ reply = 0 /\ confirmed = 0

-----------------------------------------------------------------------------
(* The watched query *)

OnScreen == watched \in page

\* Mutant: an invalidation joins the request that is under way.
InvalidateJoins(keys, shown) ==
  IF watched.key \in keys /\ watched \in shown /\ phase = "idle"
  THEN phase' = "sent" /\ UNCHANGED <<reply, stale>>
  ELSE UNCHANGED <<phase, reply, stale>>

\* Invalidating a query on screen starts it, over a request under way; off
\* screen it is only marked.
InvalidateWatched(keys, shown) ==
  IF watched.key \in keys /\ watched \in shown
  THEN phase' = "sent" /\ reply' = 0 /\ UNCHANGED stale
  ELSE stale' = (stale \/ watched.key \in keys) /\ UNCHANGED <<phase, reply>>

RefetchInterval ==
  /\ OnScreen /\ watched.polled /\ phase = "idle"
  /\ phase' = "sent"
  /\ UNCHANGED <<op, watched, formVars, requestVars, ver, seen, stale, reply, confirmed>>

AnswerQuery ==
  /\ phase = "sent"
  /\ phase' = "answered" /\ reply' = ver
  /\ UNCHANGED <<op, watched, formVars, requestVars, ver, seen, stale, confirmed>>

ShowAnswer ==
  /\ phase = "answered"
  /\ phase' = "idle" /\ seen' = reply /\ reply' = 0 /\ stale' = FALSE
  /\ UNCHANGED <<op, watched, formVars, requestVars, ver, confirmed>>

\* The wake-up stream of the run feed and of the chain dashboard.
OnWake ==
  /\ OnScreen /\ watched \in {workspaceRuns, workspaceRunsFeed}
  /\ InvalidateWatched({watched.key}, page)
  /\ UNCHANGED <<op, watched, formVars, requestVars, ver, seen, confirmed>>

\* Another tab, another user or a run changes the data.
OtherWrite ==
  /\ ver < MaxChanges
  /\ ver' = ver + 1
  /\ UNCHANGED <<op, watched, formVars, requestVars, seen, stale, phase, reply, confirmed>>

-----------------------------------------------------------------------------
(* The form *)

\* The page still shows the form; the dialog for workspaces is the layout's.
FormMounted == page = op.page \/ op = CreateWorkspace

OpenForm ==
  /\ FormMounted /\ "dialog" \in op.form /\ opening = 0 /\ openings < MaxOpenings
  /\ openings' = openings + 1 /\ opening' = openings + 1
  /\ draft' = IF "seeded" \in op.form THEN 0 ELSE draft
  /\ UNCHANGED <<op, watched, page, typed, requestVars, dataVars>>

\* Mutant: a confirmation can be closed while its request is under way.
CloseAnyForm ==
  /\ "dialog" \in op.form /\ opening # 0
  /\ opening' = 0
  /\ UNCHANGED <<op, watched, page, openings, typed, draft, requestVars, dataVars>>

\* Escape, the backdrop, the cross and the cancel button.
CloseForm ==
  /\ "dialog" \in op.form /\ opening # 0
  /\ "pinned" \in op.form => InFlight = {}
  /\ opening' = 0
  /\ UNCHANGED <<op, watched, page, openings, typed, draft, requestVars, dataVars>>

TypeInto ==
  /\ "input" \in op.form /\ opening # 0 /\ typed < MaxDrafts /\ FormMounted
  /\ typed' = typed + 1 /\ draft' = typed + 1
  /\ UNCHANGED <<op, watched, page, opening, openings, requestVars, dataVars>>

Send(r) ==
  /\ FormMounted /\ opening # 0 /\ r \notin InFlight /\ \A s \in 1..(r - 1) : s \in InFlight
  /\ "input" \in op.form => draft # 0
  /\ "locked" \in op.form => InFlight = {}
  /\ req' = [req EXCEPT ![r] = [st |-> "sent", draft |-> draft, from |-> opening, at |-> 0]]
  /\ UNCHANGED <<op, watched, formVars, made, lost, dataVars>>

-----------------------------------------------------------------------------
(* The server and the answer *)

\* Mutant: the answer names a version later than the one it made.
AcceptAhead(r) ==
  /\ req[r].st = "sent"
  /\ ver' = IF watched.key \in op.writes THEN ver + 1 ELSE ver
  /\ ver' <= MaxChanges
  /\ req' = [req EXCEPT ![r].st = "applied", ![r].at = ver' + 1]
  /\ made' = [d \in 1..MaxDrafts |-> IF d = req[r].draft THEN made[d] + 1 ELSE made[d]]
  /\ UNCHANGED <<op, watched, formVars, lost, seen, stale, phase, reply, confirmed>>

Accept(r) ==
  /\ req[r].st = "sent"
  /\ ver' = IF watched.key \in op.writes THEN ver + 1 ELSE ver
  /\ ver' <= MaxChanges
  /\ req' = [req EXCEPT ![r].st = "applied", ![r].at = ver']
  /\ made' = [d \in 1..MaxDrafts |-> IF d = req[r].draft THEN made[d] + 1 ELSE made[d]]
  /\ UNCHANGED <<op, watched, formVars, lost, seen, stale, phase, reply, confirmed>>

Refuse(r) ==
  /\ req[r].st = "sent"
  /\ req' = [req EXCEPT ![r].st = "refused"]
  /\ UNCHANGED <<op, watched, formVars, made, lost, dataVars>>

\* Mutant: the form keeps what was sent.
ClearedKept == draft

\* onSuccess clears the form as it is by now.
Cleared == IF "clears" \in op.effects THEN 0 ELSE draft

OnSuccess(r) ==
  /\ req[r].st = "applied"
  /\ req' = [req EXCEPT ![r] = NoRequest]
  /\ draft' = Cleared
  /\ opening' = IF op.effects \cap {"closes", "settles"} # {} THEN 0 ELSE opening
  /\ page' = Destination(op)
  /\ confirmed' = req[r].at
  /\ InvalidateWatched(op.refreshes, page')
  /\ UNCHANGED <<op, watched, openings, typed, made, lost, ver, seen>>

\* onError: a refusal, or the loss of the answer to a request that was applied.
OnError(r) ==
  /\ req[r].st \in {"applied", "refused"}
  /\ lost' = (lost \/ req[r].st = "applied")
  /\ req' = [req EXCEPT ![r] = NoRequest]
  /\ opening' = IF "settles" \in op.effects THEN 0 ELSE opening
  /\ InvalidateWatched(IF "always" \in op.effects THEN op.refreshes ELSE {}, page)
  /\ UNCHANGED <<op, watched, page, openings, typed, draft, made, ver, seen, confirmed>>

\* A query that comes on screen is fetched unless it is younger than staleTime.
MountDestination ==
  /\ page # op.page /\ OnScreen /\ watched \notin op.page /\ phase = "idle" /\ stale
  /\ phase' = "sent"
  /\ UNCHANGED <<op, watched, formVars, requestVars, ver, seen, stale, reply, confirmed>>

SessionNext ==
  \/ RefetchInterval \/ OnWake \/ AnswerQuery \/ ShowAnswer \/ OtherWrite
  \/ OpenForm \/ CloseForm \/ TypeInto \/ MountDestination
  \/ \E r \in Slots : Send(r) \/ Accept(r) \/ Refuse(r) \/ OnSuccess(r) \/ OnError(r)

SessionSpec == SessionInit(Operations) /\ [][SessionNext]_sessionVars

-----------------------------------------------------------------------------
(* Properties *)

\* Every variable has its type, a form holds only what was typed into it, and
\* neither the cache, an answer nor a success handler is ahead of the server.
SessionTypeOK ==
  /\ op \in Operations /\ watched \in op.page \cup Destination(op) /\ page \in {op.page, Destination(op)}
  /\ opening \in 0..openings /\ openings \in 0..MaxOpenings /\ draft \in 0..typed /\ typed \in 0..MaxDrafts
  /\ req \in [Slots -> [st : {"none", "sent", "applied", "refused"}, draft : 0..MaxDrafts,
                        from : 0..MaxOpenings, at : 0..MaxChanges]]
  /\ phase \in {"idle", "sent", "answered"} /\ {stale, lost} \subseteq BOOLEAN
  /\ {seen, reply, confirmed} \subseteq 0..ver /\ ver \in 0..MaxChanges

\* What a form has been accepted with cannot be sent again as it stands: a
\* comment, issue, agent, workspace, skill, webhook, file or rule is made
\* once, however often the button is pressed and the dialog closed and
\* opened again while the request is under way; unless an answer was lost
\* and the user, who was told of a failure, sends it again.
CreatedOnce ==
  "creates" \in op.effects => \A d \in 1..MaxDrafts : made[d] > 1 => lost

\* A confirmation on screen is the one whose action is being carried out:
\* it can neither be closed nor replaced by another issue's before the
\* answer, which closes it.
ConfirmationStaysWithItsAction ==
  "pinned" \in op.form => \A r \in InFlight : req[r].from = opening

\* Data on screen that an operation is known to leave as it was until the
\* window is focused or the page opened again: the open-issue counts of the
\* sidebar, the issue of a chain cancelled or retried on its page, the agents
\* left after a deletion, the date of the last log cleanup.
LeftBehind ==
  {<<UpdateStatus, "workspaces">>, <<CreateSubIssue, "workspaces">>, <<BoardUpdateStatus, "workspaces">>,
   <<CreateIssue, "workspaces">>, <<CancelChain, "issue">>, <<CancelChain, "run-events">>,
   <<RetryChain, "issue">>, <<RemoveAgent, "agents">>, <<RemoveAgent, "workspaces">>,
   <<CleanupLogs, "settings">>}

\* When an operation has succeeded, every query on screen that it changed
\* shows the change, is being fetched, or is polled, also when an answer
\* taken before the change was on its way; the exceptions are LeftBehind.
OwnWritesAreShown ==
  OnScreen /\ watched.key \in op.writes /\ ~watched.polled /\ <<op, watched.key>> \notin LeftBehind
    => CASE phase = "sent" -> TRUE
         [] phase = "answered" -> reply >= confirmed
         [] phase = "idle" -> seen >= confirmed
=============================================================================
