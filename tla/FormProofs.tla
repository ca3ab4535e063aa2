------------------------------ MODULE FormProofs ------------------------------
(***************************************************************************)
(* Proofs about the web client's forms: the properties of a page's         *)
(* operations, for every operation of the catalogue and every number of    *)
(* drafts, openings and changes, and those of the agent form, for any      *)
(* agents and any number of edits.                                         *)
(***************************************************************************)
EXTENDS PageSession, AgentEditor, TLAPS

-----------------------------------------------------------------------------
(* The catalogue                                                           *)

\* A form that makes something must be filled in and waits for its answer, and its
\* success handler either empties it or closes it, to be filled anew when it opens.
\* A confirmation waits for its answer, which closes it.
SoundForm(o) ==
  /\ "creates" \in o.effects =>
       /\ "input" \in o.form /\ "locked" \in o.form
       /\ "clears" \in o.effects \/ ("closes" \in o.effects /\ "seeded" \in o.form)
  /\ "pinned" \in o.form => "locked" \in o.form /\ "settles" \in o.effects

\* What an operation changes of the page it ends on, it fetches again, or the query is
\* polled, or it is one of the omissions LeftBehind lists.
Refreshed(o) ==
  \A q \in Destination(o) :
    q.key \in o.writes /\ ~q.polled /\ <<o, q.key>> \notin LeftBehind => q.key \in o.refreshes

\* Every form of the catalogue is sound: operation by operation.
LEMMA FormsAreSound == \A o \in Operations : SoundForm(o)
  BY DEF SoundForm, Op, Operations, AddComment, Rerun, CancelRun, UpdateStatus,
        CreateSubIssue, UploadAttachment, RemoveAttachment, CancelChain, RetryChain,
        CancelListedChain, RetryListedChain, BoardUpdateStatus, BoardCancelExecution,
        CreateIssue, CreateAgent, UpdateAgent, PromoteAgent, RemoveAgent, CreateSkill,
        AssignSkill, UnassignSkill, SaveRule, TriggerRule, ToggleRule, DeleteRule,
        SaveTimeouts, CreateWebhook, RemoveWebhook, Redeliver, RedeliverAllFailed,
        Backup, Vacuum, CleanupLogs, SeedDevTeam, CreateWorkspace, CommentForm,
        ConfirmDialog, SubIssueForm, UploadField, Button, ChainButtons,
        CreateIssueForm, CreateAgentForm, AgentForm, AgentButtons, SkillForm,
        AssignForm, BusyButton, AutopilotForm, RuleButtons, TimeoutRow, WebhookForm,
        DeliveryButtons, MaintenanceButtons, SeedForm, CreateWorkspaceForm

\* Every operation of the catalogue refreshes what it changes: page by page.
LEMMA ChangesAreRefreshed == \A o \in Operations : Refreshed(o)
<1>1. \A o \in {AddComment, Rerun, CancelRun, UpdateStatus, CreateSubIssue, UploadAttachment,
               RemoveAttachment, CancelChain, RetryChain} : Refreshed(o)
  BY DEF Refreshed, Destination, LeftBehind, Op, Query, DashboardLayout,
        IssueDetailPage, BoardPage, AgentsPage, AddComment, Rerun, CancelRun,
        UpdateStatus, CreateSubIssue, UploadAttachment, RemoveAttachment, CancelChain,
        RetryChain, IssueKeys, ChainKeys, useAgentsQuery, useCommentsQuery,
        useIssueAttachmentsQuery, useIssuesQuery, useRunEventsQuery, useRunsQuery,
        useSettingsQuery, useSubIssuesQuery, useWorkspaceIssueQuery, useWorkspaceQuery,
        useWorkspacesQuery
<1>2. \A o \in {CancelListedChain, RetryListedChain} : Refreshed(o)
  BY DEF Refreshed, Destination, LeftBehind, Op, Query, DashboardLayout,
        WorkspaceChainsPage, BoardPage, AgentsPage, CancelListedChain,
        RetryListedChain, ListedChainKeys, useAgentsQuery, useIssuesQuery,
        useSettingsQuery, useWorkspaceQuery, useWorkspacesQuery, workspaceRuns
<1>3. \A o \in {BoardUpdateStatus, BoardCancelExecution, CreateIssue} : Refreshed(o)
  BY DEF Refreshed, Destination, LeftBehind, Op, Query, DashboardLayout, BoardPage,
        AgentsPage, BoardUpdateStatus, BoardCancelExecution, CreateIssue,
        useAgentsQuery, useIssuesQuery, useSettingsQuery, useWorkspacesQuery
<1>4. \A o \in {CreateAgent} : Refreshed(o)
  BY DEF Refreshed, Destination, LeftBehind, Op, Query, DashboardLayout, AgentsPage,
        BoardPage, CreateAgent, useAgentsQuery, useIssuesQuery,
        useSettingsQuery, useWorkspacesQuery
<1>5. \A o \in {UpdateAgent, PromoteAgent, RemoveAgent, CreateSkill, AssignSkill,
               UnassignSkill} : Refreshed(o)
  BY DEF Refreshed, Destination, LeftBehind, Op, Query, DashboardLayout,
        AgentDetailPage, BoardPage, AgentsPage, UpdateAgent, PromoteAgent, RemoveAgent,
        CreateSkill, AssignSkill, UnassignSkill, AgentKeys, SkillKeys,
        useAgentInstructionVersionsQuery, useAgentQuery, useAgentSkillsQuery,
        useAgentsQuery, useIssuesQuery, useSettingsQuery, useWorkspaceSkillsQuery,
        useWorkspacesQuery
<1>6. \A o \in {SaveRule, TriggerRule, ToggleRule, DeleteRule} : Refreshed(o)
  BY DEF Refreshed, Destination, LeftBehind, Op, Query, DashboardLayout, AutopilotPage,
        BoardPage, AgentsPage, SaveRule, TriggerRule, ToggleRule, DeleteRule,
        useAgentsQuery, useAutopilotRulesQuery, useIssuesQuery, useSettingsQuery,
        useWorkspacesQuery
<1>7. \A o \in {SaveTimeouts, CreateWebhook, RemoveWebhook, Redeliver, RedeliverAllFailed,
               Backup, Vacuum, CleanupLogs, SeedDevTeam} : Refreshed(o)
  BY DEF Refreshed, Destination, LeftBehind, Op, Query, DashboardLayout, SettingsPage,
        BoardPage, AgentsPage, SaveTimeouts, CreateWebhook, RemoveWebhook, Redeliver,
        RedeliverAllFailed, Backup, Vacuum, CleanupLogs, SeedDevTeam, useAgentsQuery,
        useIssuesQuery, useSettingsQuery, useUsageSummaryQuery,
        useWebhookDeliveriesQuery, useWorkspaceWebhooksQuery, useWorkspacesQuery
<1>8. \A o \in {CreateWorkspace} : Refreshed(o)
  BY DEF Refreshed, Destination, LeftBehind, Op, Query, DashboardLayout, HomePage,
        BoardPage, AgentsPage, CreateWorkspace, useAgentActivityQuery, useAgentsQuery,
        useHealthQuery, useIssuesQuery, useSettingsQuery, useWorkspacesQuery
<1>. QED
  BY <1>1, <1>2, <1>3, <1>4, <1>5, <1>6, <1>7, <1>8 DEF Operations

-----------------------------------------------------------------------------
(* The invariant                                                           *)

RequestType ==
  [st : {"none", "sent", "applied", "refused"}, draft : 0..MaxDrafts, from : 0..MaxOpenings,
   at : 0..MaxChanges]

\* The type invariant once more, with the counters that it does not bound: no request
\* names a draft that was not typed or a version that was not made.
CountersOK ==
  /\ made \in [1..MaxDrafts -> Nat]
  /\ \A r \in Slots : req[r].draft <= typed /\ req[r].at <= ver

\* A form that locks has one request under way; a confirmation's is its own.
RequestInv ==
  /\ "locked" \in op.form => \A r, s \in InFlight : r = s
  /\ "pinned" \in op.form => \A r \in InFlight : req[r].from = opening /\ opening # 0

\* No draft was applied twice: what was applied is still waiting for its answer, or is no
\* longer in the form, or is in a form that is closed and will be filled anew.
DraftInv ==
  "creates" \in op.effects /\ ~lost =>
    \A d \in 1..MaxDrafts :
      /\ made[d] <= 1
      /\ typed < d => made[d] = 0
      /\ made[d] = 1 => \/ \E r \in Slots : req[r].st = "applied" /\ req[r].draft = d
                        \/ draft # d
                        \/ opening = 0 /\ "seeded" \in op.form
      /\ \A r \in Slots : req[r].st = "sent" /\ req[r].draft = d => made[d] = 0

\* Nothing is confirmed on a page that success would have left.
ShownInv == OwnWritesAreShown /\ (page # Destination(op) => confirmed = 0)

SessionInv == SessionTypeOK /\ CountersOK /\ RequestInv /\ DraftInv /\ ShownInv

-----------------------------------------------------------------------------
(* One step                                                                *)

\* The two ways an invalidation ends.
LEMMA InvalidationMoves ==
  ASSUME NEW keys, NEW mounted, InvalidateWatched(keys, mounted), stale \in BOOLEAN
  PROVE  /\ stale' \in BOOLEAN
         /\ (phase' = "sent" /\ reply' = 0) \/ (phase' = phase /\ reply' = reply)
         /\ watched.key \in keys /\ watched \in mounted => phase' = "sent"
  BY DEF InvalidateWatched

\* Every step keeps the types, and requests to what was typed and made.
LEMMA StepKeepsSessionType ==
  ASSUME SessionTypeOK, CountersOK, SessionNext
  PROVE  SessionTypeOK' /\ CountersOK'
<1>. USE SessionAssumption
<1>t. /\ req \in [Slots -> RequestType] /\ ver \in Nat /\ typed \in Nat /\ openings \in Nat
      /\ MaxDrafts \in Nat /\ MaxOpenings \in Nat /\ MaxChanges \in Nat
      /\ NoRequest \in RequestType
  BY DEF SessionTypeOK, RequestType, NoRequest
<1>n. \A r \in Slots : req[r].draft \in Nat /\ req[r].at \in Nat
  BY <1>t DEF RequestType
<1>1. CASE RefetchInterval \/ AnswerQuery \/ ShowAnswer \/ OtherWrite \/ MountDestination
  <2>1. UNCHANGED <<op, watched, formVars, requestVars, confirmed>>
    BY <1>1 DEF RefetchInterval, AnswerQuery, ShowAnswer, OtherWrite, MountDestination
  <2>2. ver' \in 0..MaxChanges /\ ver <= ver'
    BY <1>t, <1>1 DEF RefetchInterval, AnswerQuery, ShowAnswer, OtherWrite, MountDestination,
                      SessionTypeOK
  <2>3. {seen', reply', confirmed} \subseteq 0..ver
    BY <1>t, <1>1 DEF RefetchInterval, AnswerQuery, ShowAnswer, OtherWrite, MountDestination,
                      SessionTypeOK
  <2>4. stale' \in BOOLEAN /\ phase' \in {"idle", "sent", "answered"}
    BY <1>1 DEF RefetchInterval, AnswerQuery, ShowAnswer, OtherWrite, MountDestination,
                SessionTypeOK
  <2>5. {seen', reply', confirmed'} \subseteq 0..ver'
    BY <1>t, <2>1, <2>2, <2>3
  <2>6. CountersOK'
    BY <1>t, <2>1, <2>2 DEF CountersOK, formVars, requestVars, RequestType
  <2>. QED
    BY <2>1, <2>2, <2>4, <2>5, <2>6 DEF SessionTypeOK, formVars, requestVars
<1>2. CASE OnWake
  <2>1. stale' \in BOOLEAN /\ phase' \in {"idle", "sent", "answered"} /\ reply' \in 0..ver
    BY <1>2, <1>t, InvalidationMoves DEF OnWake, SessionTypeOK
  <2>. QED
    BY <1>2, <2>1 DEF OnWake, formVars, requestVars, SessionTypeOK, CountersOK
<1>3. CASE OpenForm \/ CloseForm \/ TypeInto
  <2>1. /\ UNCHANGED <<op, watched, page, requestVars, dataVars>>
        /\ openings' \in 0..MaxOpenings /\ opening' \in 0..openings'
        /\ typed' \in 0..MaxDrafts /\ typed <= typed' /\ draft' \in 0..typed'
    <3>1. CASE OpenForm
      BY <1>t, <3>1 DEF OpenForm, SessionTypeOK
    <3>2. CASE CloseForm
      BY <1>t, <3>2 DEF CloseForm, SessionTypeOK
    <3>3. CASE TypeInto
      BY <1>t, <3>3 DEF TypeInto, SessionTypeOK
    <3>. QED
      BY <1>3, <3>1, <3>2, <3>3
  <2>2. CountersOK'
    <3>1. typed' \in Nat /\ UNCHANGED <<req, made, ver>>
      BY <1>t, <2>1 DEF requestVars, dataVars
    <3>. QED
      BY <1>t, <1>n, <2>1, <3>1 DEF CountersOK
  <2>. QED
    BY <2>1, <2>2 DEF requestVars, dataVars, SessionTypeOK
<1>4. ASSUME NEW r \in Slots, Send(r)
      PROVE  SessionTypeOK' /\ CountersOK'
  <2>1. [st |-> "sent", draft |-> draft, from |-> opening, at |-> 0] \in RequestType
    BY <1>t DEF RequestType, SessionTypeOK
  <2>2. req' \in [Slots -> RequestType]
    BY <1>t, <1>4, <2>1 DEF Send
  <2>3. CountersOK'
    BY <1>t, <1>4 DEF Send, formVars, dataVars, CountersOK, SessionTypeOK
  <2>. QED
    BY <1>4, <2>2, <2>3 DEF Send, formVars, dataVars, SessionTypeOK, RequestType
<1>5. ASSUME NEW r \in Slots, Accept(r)
      PROVE  SessionTypeOK' /\ CountersOK'
  <2>1. ver' \in 0..MaxChanges /\ ver <= ver'
    BY <1>t, <1>5 DEF Accept
  <2>2. req' \in [Slots -> RequestType]
    BY <1>t, <1>5, <2>1 DEF Accept, RequestType
  <2>3. made' \in [1..MaxDrafts -> Nat]
    BY <1>5 DEF Accept, CountersOK
  <2>4. ASSUME NEW s \in Slots
        PROVE  req'[s].draft <= typed' /\ req'[s].at <= ver'
    <3>1. req[s] \in RequestType /\ req[s].draft <= typed /\ req[s].at <= ver
      BY <1>t DEF CountersOK
    <3>2. ver' \in Nat /\ ver <= ver' /\ typed' = typed
      BY <1>t, <1>5, <2>1 DEF Accept, formVars
    <3>3. req'[s].draft = req[s].draft /\ req'[s].at \in {req[s].at, ver'}
      BY <1>t, <1>5, <3>1 DEF Accept, RequestType
    <3>. QED
      BY <1>t, <1>n, <3>1, <3>2, <3>3
  <2>5. {seen, reply, confirmed} \subseteq 0..ver'
    BY <1>t, <2>1 DEF SessionTypeOK
  <2>. QED
    BY <1>5, <2>1, <2>2, <2>3, <2>4, <2>5 DEF Accept, formVars, SessionTypeOK, CountersOK, RequestType
<1>6. ASSUME NEW r \in Slots, Refuse(r)
      PROVE  SessionTypeOK' /\ CountersOK'
  <2>1. req' \in [Slots -> RequestType]
    BY <1>t, <1>6 DEF Refuse, RequestType
  <2>2. CountersOK'
    BY <1>t, <1>6 DEF Refuse, formVars, dataVars, CountersOK, RequestType
  <2>. QED
    BY <1>6, <2>1, <2>2 DEF Refuse, formVars, dataVars, SessionTypeOK, RequestType
<1>7. ASSUME NEW r \in Slots, OnSuccess(r) \/ OnError(r)
      PROVE  SessionTypeOK' /\ CountersOK'
  <2>1. req' \in [Slots -> RequestType]
    BY <1>t, <1>7 DEF OnSuccess, OnError
  <2>2. stale' \in BOOLEAN /\ phase' \in {"idle", "sent", "answered"} /\ reply' \in 0..ver
    BY <1>7, <1>t, InvalidationMoves DEF OnSuccess, OnError, SessionTypeOK
  <2>3. UNCHANGED <<op, watched, openings, typed, made, ver, seen>>
    BY <1>7 DEF OnSuccess, OnError
  <2>4. confirmed' \in 0..ver
    BY <1>t, <1>7 DEF OnSuccess, OnError, SessionTypeOK, CountersOK, RequestType
  <2>5. opening' \in 0..openings /\ draft' \in 0..typed
    BY <1>t, <1>7 DEF OnSuccess, OnError, Cleared, SessionTypeOK
  <2>7. page' \in {op.page, Destination(op)}
    BY <1>7 DEF OnSuccess, OnError, SessionTypeOK
  <2>8. lost' \in BOOLEAN
    BY <1>7, Zenon DEF OnSuccess, OnError, SessionTypeOK
  <2>6. \A s \in Slots : req'[s].draft <= typed /\ req'[s].at <= ver
    BY <1>t, <1>7 DEF OnSuccess, OnError, CountersOK, NoRequest
  <2>. QED
    BY <2>1, <2>2, <2>3, <2>4, <2>5, <2>6, <2>7, <2>8 DEF SessionTypeOK, CountersOK, RequestType
<1>. QED
  BY <1>1, <1>2, <1>3, <1>4, <1>5, <1>6, <1>7 DEF SessionNext

\* Every step keeps the request of a locked form alone and a confirmation with its own.
LEMMA StepKeepsRequests ==
  ASSUME SessionTypeOK, RequestInv, SessionNext
  PROVE  RequestInv'
<1>o. SoundForm(op) /\ op' = op
  BY FormsAreSound
     DEF SessionTypeOK, SessionNext, RefetchInterval, OnWake, AnswerQuery, ShowAnswer, OtherWrite,
         OpenForm, CloseForm, TypeInto, MountDestination, Send, Accept, Refuse, OnSuccess, OnError
<1>t. req \in [Slots -> RequestType]
  BY DEF SessionTypeOK, RequestType
<1>1. CASE UNCHANGED <<req, opening>>
  BY <1>o, <1>1 DEF RequestInv, InFlight
<1>2. CASE OpenForm \/ CloseForm
  BY <1>o, <1>2 DEF OpenForm, CloseForm, requestVars, RequestInv, InFlight
<1>3. ASSUME NEW r \in Slots, Send(r)
      PROVE  RequestInv'
  <2>1. /\ \A s \in Slots \ {r} : req'[s] = req[s]
        /\ req'[r].from = opening /\ opening # 0 /\ opening' = opening
        /\ "locked" \in op.form => \A s \in Slots : req[s].st = "none"
    BY <1>t, <1>3 DEF Send, formVars, InFlight
  <2>. QED
    BY <1>o, <2>1 DEF RequestInv, InFlight, SoundForm
<1>4. ASSUME NEW r \in Slots, Accept(r) \/ Refuse(r)
      PROVE  RequestInv'
  <2>1. /\ \A s \in Slots : req'[s].from = req[s].from /\ (req'[s].st # "none" <=> req[s].st # "none")
        /\ opening' = opening
    BY <1>t, <1>4 DEF Accept, Refuse, formVars, RequestType
  <2>. QED
    BY <1>o, <2>1 DEF RequestInv, InFlight
<1>5. ASSUME NEW r \in Slots, OnSuccess(r) \/ OnError(r)
      PROVE  RequestInv'
  <2>1. /\ \A s \in Slots \ {r} : req'[s] = req[s]
        /\ req[r].st # "none" /\ req'[r].st = "none"
    BY <1>t, <1>5 DEF OnSuccess, OnError, NoRequest
  <2>2. InFlight' = InFlight \ {r} /\ r \in InFlight
    BY <2>1 DEF InFlight
  <2>3. "locked" \in op.form => InFlight' = {}
    BY <2>2 DEF RequestInv
  <2>. QED
    BY <1>o, <2>1, <2>2, <2>3 DEF RequestInv, SoundForm
<1>. QED
  BY <1>1, <1>2, <1>3, <1>4, <1>5
     DEF SessionNext, RefetchInterval, OnWake, AnswerQuery, ShowAnswer, OtherWrite, TypeInto,
         MountDestination, formVars, requestVars

\* Every step applies a draft once: a form is sent only when nothing that was applied is
\* still in it.
LEMMA StepKeepsDrafts ==
  ASSUME SessionTypeOK, CountersOK, RequestInv, DraftInv, SessionNext
  PROVE  DraftInv'
<1>o. SoundForm(op) /\ op' = op
  BY FormsAreSound
     DEF SessionTypeOK, SessionNext, RefetchInterval, OnWake, AnswerQuery, ShowAnswer, OtherWrite,
         OpenForm, CloseForm, TypeInto, MountDestination, Send, Accept, Refuse, OnSuccess, OnError
<1>t. /\ req \in [Slots -> RequestType] /\ typed \in Nat /\ draft \in Nat /\ draft <= typed
      /\ made \in [1..MaxDrafts -> Nat] /\ MaxDrafts \in Nat /\ lost \in BOOLEAN
  BY SessionAssumption DEF SessionTypeOK, CountersOK, RequestType
<1>l. lost' \/ ~lost
  BY DEF SessionNext, RefetchInterval, OnWake, AnswerQuery, ShowAnswer, OtherWrite, requestVars,
         OpenForm, CloseForm, TypeInto, MountDestination, Send, Accept, Refuse, OnSuccess, OnError
<1>. SUFFICES ASSUME "creates" \in op.effects, ~lost, ~lost'
              PROVE  DraftInv'
  BY <1>o, <1>l DEF DraftInv
<1>f. /\ "input" \in op.form /\ "locked" \in op.form
      /\ "clears" \in op.effects \/ ("closes" \in op.effects /\ "seeded" \in op.form)
  BY <1>o DEF SoundForm
<1>1. CASE UNCHANGED <<req, made, typed, draft, opening>>
  BY <1>o, <1>1 DEF DraftInv
<1>2. CASE OpenForm \/ CloseForm \/ TypeInto
  BY <1>o, <1>t, <1>2 DEF OpenForm, CloseForm, TypeInto, requestVars, DraftInv
<1>3. ASSUME NEW r \in Slots, Send(r)
      PROVE  DraftInv'
  <2>1. /\ UNCHANGED <<made, typed, draft, opening>> /\ opening # 0 /\ draft # 0
        /\ \A s \in Slots : req[s].st = "none"
        /\ \A s \in Slots \ {r} : req'[s] = req[s]
        /\ req'[r].st = "sent" /\ req'[r].draft = draft
    BY <1>t, <1>f, <1>3 DEF Send, formVars, InFlight
  <2>2. draft \in 1..MaxDrafts /\ made[draft] = 0
    BY <1>t, <2>1 DEF DraftInv, SessionTypeOK
  <2>. QED
    BY <1>o, <1>t, <2>1, <2>2 DEF DraftInv
<1>4. ASSUME NEW r \in Slots, Accept(r)
      PROVE  DraftInv'
  <2>1. /\ UNCHANGED <<typed, draft, opening>>
        /\ \A s \in Slots \ {r} : req'[s] = req[s] /\ req[s].st = "none"
        /\ req[r].st = "sent" /\ req'[r].st = "applied" /\ req'[r].draft = req[r].draft
        /\ \A d \in 1..MaxDrafts : made'[d] = IF d = req[r].draft THEN made[d] + 1 ELSE made[d]
    BY <1>t, <1>f, <1>4 DEF Accept, formVars, RequestType, RequestInv, InFlight
  <2>2. req[r].draft \in Nat /\ req[r].draft <= typed
    BY <1>t DEF CountersOK, RequestType
  <2>. QED
    BY <1>o, <1>t, <2>1, <2>2 DEF DraftInv
<1>5. ASSUME NEW r \in Slots, Refuse(r)
      PROVE  DraftInv'
  <2>1. /\ UNCHANGED <<typed, draft, opening, made>>
        /\ \A s \in Slots \ {r} : req'[s] = req[s]
        /\ req[r].st = "sent" /\ req'[r].st = "refused" /\ req'[r].draft = req[r].draft
    BY <1>t, <1>5 DEF Refuse, formVars, RequestType
  <2>. QED
    BY <1>o, <1>t, <2>1 DEF DraftInv
<1>6. ASSUME NEW r \in Slots, OnSuccess(r) \/ OnError(r)
      PROVE  DraftInv'
  <2>1. /\ UNCHANGED <<typed, made>>
        /\ \A s \in Slots \ {r} : req'[s] = req[s] /\ req[s].st = "none"
        /\ req'[r].st = "none"
    BY <1>t, <1>f, <1>6 DEF OnSuccess, OnError, RequestInv, InFlight, NoRequest
  <2>2. CASE OnSuccess(r)
    <3>1. draft' = 0 \/ (draft' = draft /\ opening' = 0 /\ "seeded" \in op.form)
      BY <1>f, <2>2 DEF OnSuccess, Cleared
    <3>. QED
      BY <1>o, <1>t, <2>1, <3>1 DEF DraftInv
  <2>3. CASE OnError(r)
    <3>1. req[r].st = "refused" /\ draft' = draft /\ (opening' = opening \/ opening' = 0)
      BY <1>t, <2>3 DEF OnError
    <3>. QED
      BY <1>o, <1>t, <2>1, <3>1 DEF DraftInv
  <2>. QED
    BY <1>6, <2>2, <2>3
<1>. QED
  BY <1>1, <1>2, <1>3, <1>4, <1>5, <1>6
     DEF SessionNext, RefetchInterval, OnWake, AnswerQuery, ShowAnswer, OtherWrite,
         MountDestination, formVars, requestVars

\* What the operation is known to have changed is on screen, or on its way: the part of
\* OwnWritesAreShown that a step can disturb.
Shown ==
  /\ phase = "answered" => reply >= confirmed
  /\ phase = "idle" => seen >= confirmed

Promised ==
  OnScreen /\ watched.key \in op.writes /\ ~watched.polled /\ <<op, watched.key>> \notin LeftBehind

\* Split by the phase of the watched query, OwnWritesAreShown says that.
LEMMA ShownParts ==
  ASSUME SessionTypeOK
  PROVE  OwnWritesAreShown <=> (Promised => Shown)
  BY DEF SessionTypeOK, OwnWritesAreShown, Promised, Shown

\* Every step keeps an operation's own changes on screen: its success handler fetches
\* them over any answer that was taken before.
LEMMA StepKeepsShown ==
  ASSUME SessionTypeOK, SessionTypeOK', CountersOK, ShownInv, SessionNext
  PROVE  ShownInv'
<1>t. /\ seen \in Nat /\ reply \in Nat /\ confirmed \in Nat /\ ver \in Nat /\ confirmed <= ver
      /\ seen' \in Nat /\ reply' \in Nat /\ confirmed' \in Nat
      /\ phase \in {"idle", "sent", "answered"} /\ stale \in BOOLEAN
      /\ page \in {op.page, Destination(op)} /\ Refreshed(op)
  BY SessionAssumption, ChangesAreRefreshed DEF SessionTypeOK
<1>o. op' = op /\ watched' = watched
  BY DEF SessionNext, RefetchInterval, OnWake, AnswerQuery, ShowAnswer, OtherWrite,
         OpenForm, CloseForm, TypeInto, MountDestination, Send, Accept, Refuse, OnSuccess, OnError
<1>s. OwnWritesAreShown' <=> (Promised' => Shown')
  BY DEF SessionTypeOK, OwnWritesAreShown, Promised, Shown
<1>p. (Promised => Shown) /\ (page # Destination(op) => confirmed = 0)
  BY ShownParts DEF ShownInv
<1>. SUFFICES (Promised' => Shown') /\ (page' # Destination(op') => confirmed' = 0)
  BY <1>s DEF ShownInv
<1>1. CASE UNCHANGED <<page, confirmed>>
  <2>1. page' # Destination(op') => confirmed' = 0
    BY <1>o, <1>p, <1>1
  <2>2. Promised' <=> Promised
    BY <1>o, <1>1 DEF Promised, OnScreen
  <2>3. CASE phase' = "sent"
    BY <2>1, <2>3 DEF Shown
  <2>4. CASE UNCHANGED <<phase, reply, seen>>
    BY <1>p, <1>1, <2>1, <2>2, <2>4 DEF Shown
  <2>5. CASE AnswerQuery \/ ShowAnswer
    BY <1>t, <1>p, <2>1, <2>2, <2>5 DEF AnswerQuery, ShowAnswer, Shown
  <2>6. CASE OnWake \/ \E r \in Slots : OnError(r)
    <3>1. phase' = "sent" \/ UNCHANGED <<phase, reply, seen>>
      BY <1>t, <2>6, InvalidationMoves DEF OnWake, OnError
    <3>. QED
      BY <2>3, <2>4, <3>1
  <2>7. ASSUME NEW r \in Slots, OnSuccess(r)
        PROVE  phase' = "sent" \/ UNCHANGED <<phase, reply, seen>>
    BY <1>t, <2>7, InvalidationMoves DEF OnSuccess
  <2>. QED
    BY <2>3, <2>4, <2>5, <2>6, <2>7
       DEF SessionNext, RefetchInterval, OtherWrite, OpenForm, CloseForm, TypeInto,
           MountDestination, Send, Accept, Refuse, dataVars
<1>2. ASSUME NEW r \in Slots, OnSuccess(r)
      PROVE  (Promised' => Shown') /\ (page' # Destination(op') => confirmed' = 0)
  <2>1. page' = Destination(op) /\ InvalidateWatched(op.refreshes, page')
    BY <1>2 DEF OnSuccess
  <2>2. Promised' => watched \in page' /\ watched.key \in op.refreshes
    BY <1>o, <1>t, <2>1 DEF Promised, OnScreen, Refreshed
  <2>3. Promised' => phase' = "sent"
    BY <1>t, <2>1, <2>2, InvalidationMoves
  <2>. QED
    BY <1>o, <2>1, <2>3 DEF Shown
<1>. QED
  BY <1>1, <1>2
     DEF SessionNext, RefetchInterval, OnWake, AnswerQuery, ShowAnswer, OtherWrite,
         OpenForm, CloseForm, TypeInto, MountDestination, Send, Accept, Refuse, OnError,
         formVars, dataVars

-----------------------------------------------------------------------------
(* The theorems                                                            *)

\* The invariant of a page's operation: its types, its requests, its drafts and what it
\* shows of its own changes.
THEOREM SessionInvariant == SessionSpec => []SessionInv
<1>1. SessionInit(Operations) => SessionInv
  <2>. SUFFICES ASSUME SessionInit(Operations) PROVE SessionInv
    OBVIOUS
  <2>. USE SessionAssumption
  <2>1. /\ op \in Operations /\ page = op.page /\ watched \in op.page \cup Destination(op)
        /\ opening \in {0, 1} /\ openings = opening /\ typed = 0 /\ draft = 0
        /\ req = [r \in Slots |-> NoRequest] /\ made = [d \in 1..MaxDrafts |-> 0] /\ lost = FALSE
        /\ ver = 0 /\ seen = 0 /\ stale = FALSE /\ phase = "idle" /\ reply = 0 /\ confirmed = 0
    BY DEF SessionInit
  <2>2. NoRequest \in RequestType
    BY DEF NoRequest, RequestType
  <2>3. SessionTypeOK
    <3>1. req \in [Slots -> RequestType]
      BY <2>1, <2>2
    <3>2. /\ opening \in 0..openings /\ openings \in 0..MaxOpenings
          /\ draft \in 0..typed /\ typed \in 0..MaxDrafts
          /\ {seen, reply, confirmed} \subseteq 0..ver /\ ver \in 0..MaxChanges
      BY <2>1
    <3>. QED
      BY <2>1, <3>1, <3>2 DEF SessionTypeOK, RequestType
  <2>4. CountersOK /\ RequestInv
    BY <2>1 DEF CountersOK, RequestInv, InFlight, NoRequest
  <2>5. DraftInv
    BY <2>1 DEF DraftInv, NoRequest
  <2>6. ShownInv
    BY <2>1 DEF ShownInv, OwnWritesAreShown
  <2>. QED
    BY <2>3, <2>4, <2>5, <2>6 DEF SessionInv
<1>2. SessionInv /\ [SessionNext]_sessionVars => SessionInv'
  <2>1. ASSUME SessionInv, SessionNext PROVE SessionInv'
    BY <2>1, StepKeepsSessionType, StepKeepsRequests, StepKeepsDrafts, StepKeepsShown DEF SessionInv
  <2>2. ASSUME SessionInv, UNCHANGED sessionVars PROVE SessionInv'
    BY <2>2 DEF sessionVars, formVars, requestVars, dataVars, SessionInv, SessionTypeOK, CountersOK,
                RequestInv, InFlight, DraftInv, ShownInv, OwnWritesAreShown, OnScreen
  <2>. QED
    BY <2>1, <2>2
<1>. QED
  BY <1>1, <1>2, PTL DEF SessionSpec

\* Type correctness of a page's operation, the order of versions included.
THEOREM SessionTypeCorrect == SessionSpec => []SessionTypeOK
<1>1. SessionInv => SessionTypeOK
  BY DEF SessionInv
<1>. QED
  BY <1>1, SessionInvariant, PTL

\* What a form was accepted with is made once, whatever is typed, closed, opened and
\* pressed while the request is under way (the mutations' onSuccess handlers).
THEOREM FormsCreateOnce == SessionSpec => []CreatedOnce
<1>1. SessionInv => CreatedOnce
  BY DEF SessionInv, SessionTypeOK, CountersOK, DraftInv, CreatedOnce
<1>. QED
  BY <1>1, SessionInvariant, PTL

\* A confirmation on screen is the one whose request is under way (ConfirmDialog).
THEOREM ConfirmationsStay == SessionSpec => []ConfirmationStaysWithItsAction
<1>1. SessionInv => ConfirmationStaysWithItsAction
  BY DEF SessionInv, RequestInv, ConfirmationStaysWithItsAction
<1>. QED
  BY <1>1, SessionInvariant, PTL

\* After its success, an operation's changes are on screen or on their way there, also
\* when an answer from before was under way (invalidateQueries).
THEOREM OwnWritesReachTheScreen == SessionSpec => []OwnWritesAreShown
<1>1. SessionInv => OwnWritesAreShown
  BY DEF SessionInv, ShownInv
<1>. QED
  BY <1>1, SessionInvariant, PTL

-----------------------------------------------------------------------------
(* The agent form                                                          *)

\* The form's record was made from the agent named by loadedAgentID.
FormIsOwners == form.of = owner

\* What is cached or has been answered for an agent is a record of its own.
CacheIsOwn ==
  \A a \in Agents : /\ cached[a] = NoRecord \/ cached[a].of = a
                    /\ query[a] = "answered" => answer[a].of = a

\* A save that is under way carries a record of the agent it goes to.
SaveIsOwn == save = "sent" => target \in Agents /\ sent.of = target

\* The inductive invariant.
EditorInv ==
  EditorTypeOK /\ SavedToItsAgent /\ FormShowsItsAgent /\ FormIsOwners /\ CacheIsOwn /\ SaveIsOwn

-----------------------------------------------------------------------------
\* A record of an agent is a record and names its agent.
LEMMA RecordIsRecord ==
  ASSUME NEW a \in Agents \cup {NoAgent}, NEW n \in 0..MaxEdits
  PROVE  Record(a, n) \in Records /\ Record(a, n).of = a
BY DEF Record, Records

\* The empty form's record names no agent.
LEMMA NoRecordIsNoAgents ==
  NoRecord \in Records /\ NoRecord.of = NoAgent
BY RecordIsRecord, EditorAssumption DEF NoRecord

\* The effect leaves a form that belongs to its agent, whatever it is given.
LEMMA SyncFormFits ==
  ASSUME NEW f \in Records, NEW d \in BOOLEAN, SyncForm(f, d), f.of = owner,
         owner \in Agents \cup {NoAgent}, shown' \in Agents,
         cached' \in [Agents -> Records],
         cached'[shown'] = NoRecord \/ cached'[shown'].of = shown'
  PROVE  /\ form' \in Records /\ dirty' \in BOOLEAN /\ owner' \in Agents \cup {NoAgent}
         /\ FormIsOwners' /\ FormShowsItsAgent'
<1>1. CASE cached'[shown'] = NoRecord \/ (owner = shown' /\ d)
  <2>1. form' = f /\ dirty' = d /\ owner' = owner
    BY <1>1 DEF SyncForm
  <2>2. cached'[shown'] # NoRecord => owner = shown' /\ d
    BY <1>1
  <2> QED
    BY <2>1, <2>2 DEF FormIsOwners, FormShowsItsAgent
<1>2. CASE ~(cached'[shown'] = NoRecord \/ (owner = shown' /\ d))
  <2>1. form' = cached'[shown'] /\ dirty' = FALSE /\ owner' = shown'
    BY <1>2 DEF SyncForm
  <2> QED
    BY <1>2, <2>1 DEF FormIsOwners, FormShowsItsAgent
<1> QED
  BY <1>1, <1>2

\* The page as it is mounted satisfies the invariant.
LEMMA EditorStart == EditorInit(Agents) => EditorInv
<1> SUFFICES ASSUME EditorInit(Agents) PROVE EditorInv
  OBVIOUS
<1> USE NoRecordIsNoAgents, EditorAssumption
<1>1. \A a \in Agents : Record(a, 0) \in Records /\ Record(a, 0).of = a
  BY RecordIsRecord
<1>2. EditorTypeOK
  <2>1. server \in [Agents -> Records] /\ cached \in [Agents -> Records] /\ answer \in [Agents -> Records]
    BY <1>1 DEF EditorInit
  <2>2. query \in [Agents -> {"idle", "sent", "answered"}]
    BY DEF EditorInit
  <2>3. edits \in 0..MaxEdits
    BY DEF EditorInit
  <2>4. dirty \in BOOLEAN
    BY DEF EditorInit
  <2> QED
    BY <2>1, <2>2, <2>3, <2>4 DEF EditorInit, EditorTypeOK
<1>3. SavedToItsAgent
  BY <1>1 DEF EditorInit, SavedToItsAgent
<1>4. FormShowsItsAgent /\ FormIsOwners /\ CacheIsOwn /\ SaveIsOwn
  BY DEF EditorInit, FormShowsItsAgent, FormIsOwners, CacheIsOwn, SaveIsOwn
<1> QED
  BY <1>2, <1>3, <1>4 DEF EditorInv

\* A step that leaves the form, the route and the cache alone.
LEMMA FormUntouched ==
  ASSUME FormShowsItsAgent, FormIsOwners, UNCHANGED <<shown, cached, form, owner, dirty>>
  PROVE  FormShowsItsAgent' /\ FormIsOwners'
BY DEF FormShowsItsAgent, FormIsOwners

\* Every step keeps the invariant.
LEMMA EditorStep == EditorInv /\ [EditorNext]_editorVars => EditorInv'
<1> SUFFICES ASSUME EditorInv, [EditorNext]_editorVars PROVE EditorInv'
  OBVIOUS
<1> USE NoRecordIsNoAgents, EditorAssumption
<1>t. /\ EditorTypeOK /\ SavedToItsAgent /\ FormShowsItsAgent
      /\ FormIsOwners /\ CacheIsOwn /\ SaveIsOwn
  BY DEF EditorInv
<1>u. edits < MaxEdits => edits + 1 \in 0..MaxEdits
  BY <1>t DEF EditorTypeOK
<1>1. CASE UpdateForm
  <2> USE <1>1 DEF UpdateForm
  <2>1. Record(form.of, edits + 1) \in Records /\ Record(form.of, edits + 1).of = owner
    BY <1>t, <1>u, RecordIsRecord DEF EditorTypeOK, FormIsOwners
  <2>2. /\ form' \in Records /\ dirty' \in BOOLEAN /\ owner' \in Agents \cup {NoAgent}
        /\ FormIsOwners' /\ FormShowsItsAgent'
    <3>1. shown' \in Agents /\ cached' \in [Agents -> Records]
      BY <1>t DEF EditorTypeOK
    <3>2. cached'[shown'] = NoRecord \/ cached'[shown'].of = shown'
      BY <1>t, <3>1 DEF CacheIsOwn
    <3> QED
      BY <1>t, <2>1, <3>1, <3>2, SyncFormFits DEF EditorTypeOK
  <2>3. EditorTypeOK'
    BY <1>t, <1>u, <2>2 DEF EditorTypeOK
  <2> QED
    BY <1>t, <2>2, <2>3 DEF EditorInv, SavedToItsAgent, CacheIsOwn, SaveIsOwn
<1>2. CASE Submit
  <2> USE <1>2 DEF Submit
  <2>1. EditorTypeOK'
    BY <1>t DEF EditorTypeOK
  <2>2. SaveIsOwn'
    BY <1>t DEF EditorTypeOK, SaveIsOwn, FormShowsItsAgent
  <2> QED
    BY <1>t, <2>1, <2>2, FormUntouched DEF EditorInv, SavedToItsAgent, CacheIsOwn
<1>3. CASE PutAgent
  <2> USE <1>3 DEF PutAgent
  <2>1. EditorTypeOK'
    BY <1>t DEF EditorTypeOK, SaveIsOwn
  <2>2. SavedToItsAgent'
    BY <1>t DEF EditorTypeOK, SavedToItsAgent, SaveIsOwn
  <2> QED
    BY <1>t, <2>1, <2>2, FormUntouched DEF EditorInv, CacheIsOwn, SaveIsOwn
<1>4. CASE UpdateSucceeds
  <2> USE <1>4 DEF UpdateSucceeds, SaveDone
  <2>1. query' \in [Agents -> {"idle", "sent", "answered"}]
        /\ \A a \in Agents : query'[a] = "answered" => query[a] = "answered"
    BY <1>t DEF EditorTypeOK, Refetched
  <2>2. /\ form' \in Records /\ dirty' \in BOOLEAN /\ owner' \in Agents \cup {NoAgent}
        /\ FormIsOwners' /\ FormShowsItsAgent'
    <3>1. shown' \in Agents /\ cached' \in [Agents -> Records]
      BY <1>t DEF EditorTypeOK
    <3>2. cached'[shown'] = NoRecord \/ cached'[shown'].of = shown'
      BY <1>t, <3>1 DEF CacheIsOwn
    <3> QED
      BY <1>t, <3>1, <3>2, SyncFormFits DEF EditorTypeOK, FormIsOwners
  <2>3. EditorTypeOK'
    BY <1>t, <2>1, <2>2 DEF EditorTypeOK
  <2> QED
    BY <1>t, <2>1, <2>2, <2>3 DEF EditorInv, SavedToItsAgent, CacheIsOwn, SaveIsOwn
<1>5. CASE UpdateFails
  <2> USE <1>5 DEF UpdateFails, SaveDone
  <2>1. EditorTypeOK'
    BY <1>t DEF EditorTypeOK
  <2> QED
    BY <1>t, <2>1, FormUntouched DEF EditorInv, SavedToItsAgent, CacheIsOwn, SaveIsOwn
<1>6. CASE Refetch
  <2> USE <1>6 DEF Refetch
  <2>1. EditorTypeOK'
    BY <1>t DEF EditorTypeOK
  <2>2. CacheIsOwn'
    BY <1>t DEF EditorTypeOK, CacheIsOwn
  <2> QED
    BY <1>t, <2>1, <2>2, FormUntouched DEF EditorInv, SavedToItsAgent, SaveIsOwn
<1>7. ASSUME NEW a \in Agents, OtherTabSaves(a) PROVE EditorInv'
  <2> USE <1>7 DEF OtherTabSaves
  <2>1. Record(a, edits + 1) \in Records /\ Record(a, edits + 1).of = a
    BY <1>u, RecordIsRecord
  <2>2. EditorTypeOK'
    BY <1>t, <1>u, <2>1 DEF EditorTypeOK
  <2>3. SavedToItsAgent'
    BY <1>t, <2>1 DEF EditorTypeOK, SavedToItsAgent
  <2> QED
    BY <1>t, <2>2, <2>3, FormUntouched DEF EditorInv, CacheIsOwn, SaveIsOwn
<1>8. ASSUME NEW a \in Agents, AnswerAgent(a) PROVE EditorInv'
  <2> USE <1>8 DEF AnswerAgent
  <2>1. EditorTypeOK'
    BY <1>t DEF EditorTypeOK
  <2>2. CacheIsOwn'
    BY <1>t DEF EditorTypeOK, CacheIsOwn, SavedToItsAgent
  <2> QED
    BY <1>t, <2>1, <2>2, FormUntouched DEF EditorInv, SavedToItsAgent, SaveIsOwn
<1>9. ASSUME NEW a \in Agents, AgentArrives(a) PROVE EditorInv'
  <2> USE <1>9 DEF AgentArrives
  <2>1. cached' \in [Agents -> Records] /\ answer' \in [Agents -> Records]
        /\ query' \in [Agents -> {"idle", "sent", "answered"}]
    BY <1>t DEF EditorTypeOK
  <2>2. CacheIsOwn'
    BY <1>t DEF EditorTypeOK, CacheIsOwn
  <2>3. /\ form' \in Records /\ dirty' \in BOOLEAN /\ owner' \in Agents \cup {NoAgent}
        /\ FormIsOwners' /\ FormShowsItsAgent'
    <3>1. shown' \in Agents
      BY <1>t DEF EditorTypeOK
    <3>2. cached'[shown'] = NoRecord \/ cached'[shown'].of = shown'
      BY <2>2, <3>1 DEF CacheIsOwn
    <3> QED
      BY <1>t, <2>1, <3>1, <3>2, SyncFormFits DEF EditorTypeOK, FormIsOwners
  <2>4. EditorTypeOK'
    BY <1>t, <2>1, <2>3 DEF EditorTypeOK
  <2> QED
    BY <1>t, <2>2, <2>3, <2>4 DEF EditorInv, SavedToItsAgent, SaveIsOwn
<1>10. ASSUME NEW a \in Agents, NEW fresh \in BOOLEAN, ShowAgent(a, fresh) PROVE EditorInv'
  <2> USE <1>10 DEF ShowAgent
  <2>1. query' \in [Agents -> {"idle", "sent", "answered"}]
        /\ \A b \in Agents : query'[b] = "answered" => query[b] = "answered"
    BY <1>t DEF EditorTypeOK
  <2>2. /\ form' \in Records /\ dirty' \in BOOLEAN /\ owner' \in Agents \cup {NoAgent}
        /\ FormIsOwners' /\ FormShowsItsAgent'
    <3>1. shown' \in Agents /\ cached' \in [Agents -> Records]
      BY <1>t DEF EditorTypeOK
    <3>2. cached'[shown'] = NoRecord \/ cached'[shown'].of = shown'
      BY <1>t, <3>1 DEF CacheIsOwn
    <3> QED
      BY <1>t, <3>1, <3>2, SyncFormFits DEF EditorTypeOK, FormIsOwners
  <2>3. EditorTypeOK'
    BY <1>t, <2>1, <2>2 DEF EditorTypeOK
  <2> QED
    BY <1>t, <2>1, <2>2, <2>3 DEF EditorInv, SavedToItsAgent, CacheIsOwn, SaveIsOwn
<1>11. CASE UNCHANGED editorVars
  BY <1>t, <1>11 DEF editorVars, EditorInv, EditorTypeOK, SavedToItsAgent, FormShowsItsAgent,
                     FormIsOwners, CacheIsOwn, SaveIsOwn
<1> QED
  BY <1>1, <1>2, <1>3, <1>4, <1>5, <1>6, <1>7, <1>8, <1>9, <1>10, <1>11 DEF EditorNext

-----------------------------------------------------------------------------
\* The inductive invariant holds in every state of the agent page: types,
\* ownership of records, and what the form, the cache and a save carry.
THEOREM EditorInvariant == EditorSpec => []EditorInv
BY EditorStart, EditorStep, PTL DEF EditorSpec

\* The agent page's state keeps its types.
THEOREM EditorTypeCorrect == EditorSpec => []EditorTypeOK
<1>1. EditorInv => EditorTypeOK
  BY DEF EditorInv
<1> QED
  BY <1>1, EditorInvariant, PTL

\* The agent form never saves to an agent a record made from another's.
THEOREM AgentKeepsItsRecord == EditorSpec => []SavedToItsAgent
<1>1. EditorInv => SavedToItsAgent
  BY DEF EditorInv
<1> QED
  BY <1>1, EditorInvariant, PTL

\* The form of a loaded agent is that agent's, and shows the cached record
\* unless it has been edited.
THEOREM FormStaysWithItsAgent == EditorSpec => []FormShowsItsAgent
<1>1. EditorInv => FormShowsItsAgent
  BY DEF EditorInv
<1> QED
  BY <1>1, EditorInvariant, PTL

\* Nothing but further edits and the end of a save replaces unsaved edits of
\* the agent on screen.
THEOREM EditsStay == EditorSpec => EditsAreKept
<1>1. ASSUME [EditorNext]_editorVars,
             dirty, owner = shown, shown' = shown, form' # form
      PROVE  edits' # edits \/ save' # save
  <2> USE <1>1
  <2>1. CASE UpdateForm
    BY <2>1 DEF UpdateForm
  <2>2. CASE UpdateSucceeds
    BY <2>2 DEF UpdateSucceeds, SaveDone
  <2>3. ASSUME NEW a \in Agents, AgentArrives(a) PROVE FALSE
    BY <2>3 DEF AgentArrives, SyncForm
  <2>4. ASSUME NEW a \in Agents, NEW fresh \in BOOLEAN, ShowAgent(a, fresh) PROVE FALSE
    BY <2>4 DEF ShowAgent
  <2>5. CASE Submit \/ PutAgent \/ UpdateFails \/ Refetch
    BY <2>5 DEF Submit, PutAgent, UpdateFails, Refetch
  <2>6. ASSUME NEW a \in Agents, OtherTabSaves(a) \/ AnswerAgent(a) PROVE FALSE
    BY <2>6 DEF OtherTabSaves, AnswerAgent
  <2> QED
    BY <2>1, <2>2, <2>3, <2>4, <2>5, <2>6 DEF EditorNext, editorVars
<1>2. [EditorNext]_editorVars =>
        [dirty /\ owner = shown /\ shown' = shown /\ form' # form => edits' # edits \/ save' # save]_editorVars
  BY <1>1
<1> QED
  BY <1>2, PTL DEF EditorSpec, EditsAreKept

===============================================================================
