-------------------------------- MODULE PageOps --------------------------------
(***************************************************************************)
(* What the web client's pages read and write: one definition per query    *)
(* hook, per page (the queries it shows), per form or button (how it can   *)
(* be sent) and per mutation (what it changes on the server, what its      *)
(* success handler invalidates and does to the form).                      *)
(***************************************************************************)

\* A query hook: its key, and whether it is fetched again on an interval
\* whatever it shows.
Query(key, polled) == [key |-> key, polled |-> polled]

useHealthQuery == Query("health", FALSE)
useWorkspaceQuery == Query("workspace", FALSE)
useSettingsQuery == Query("settings", FALSE)
useUsageSummaryQuery == Query("usage-summary", FALSE)
useWorkspacesQuery == Query("workspaces", FALSE)
useAgentsQuery == Query("agents", FALSE)
useAgentQuery == Query("agent", FALSE)
useAgentInstructionVersionsQuery == Query("agent-instructions", FALSE)
useIssueAttachmentsQuery == Query("attachments", FALSE)
useWorkspaceWebhooksQuery == Query("webhooks", FALSE)
useWebhookDeliveriesQuery == Query("webhook-deliveries", TRUE)
useWorkspaceSkillsQuery == Query("workspace-skills", FALSE)
useAgentActivityQuery == Query("agent-activity", TRUE)
useAgentSkillsQuery == Query("agent-skills", FALSE)
useIssuesQuery == Query("issues", TRUE)
useWorkspaceIssueQuery == Query("issue", FALSE)
useSubIssuesQuery == Query("subissues", FALSE)
useCommentsQuery == Query("comments", FALSE)
useRunsQuery == Query("runs", FALSE)
useRunEventsQuery == Query("run-events", FALSE)
useAutopilotRulesQuery == Query("autopilot", FALSE)
workspaceRuns == Query("workspace-runs", TRUE)
workspaceRunsFeed == Query("workspace-runs-feed", TRUE)

-----------------------------------------------------------------------------
(* Pages: the queries they show, the layout's included *)

DashboardLayout == {useWorkspacesQuery, useSettingsQuery, useIssuesQuery}
HomePage == DashboardLayout \cup {useHealthQuery, useAgentActivityQuery}
BoardPage == DashboardLayout \cup {useAgentsQuery}
IssueDetailPage ==
  DashboardLayout \cup {useWorkspaceIssueQuery, useWorkspaceQuery, useCommentsQuery, useRunsQuery,
    useSubIssuesQuery, useAgentsQuery, useRunEventsQuery, useIssueAttachmentsQuery}
AgentsPage == DashboardLayout \cup {useAgentsQuery, useSettingsQuery}
AgentDetailPage ==
  DashboardLayout \cup {useAgentQuery, useAgentInstructionVersionsQuery, useWorkspaceSkillsQuery,
    useAgentSkillsQuery, useSettingsQuery}
AutopilotPage == DashboardLayout \cup {useAutopilotRulesQuery, useAgentsQuery}
SettingsPage ==
  DashboardLayout \cup {useSettingsQuery, useUsageSummaryQuery, useWorkspaceWebhooksQuery, useWebhookDeliveriesQuery}
WorkspaceRunsPage == DashboardLayout \cup {workspaceRunsFeed, useAgentsQuery}
WorkspaceChainsPage == DashboardLayout \cup {workspaceRuns, useWorkspaceQuery}

-----------------------------------------------------------------------------
(* Forms: "input" must be filled in, "locked" cannot be sent while a       *)
(* request is under way, "dialog" is opened and closed, "pinned" cannot be *)
(* closed while a request is under way, "seeded" is filled when it opens   *)

Button == {}
BusyButton == {"locked"}
CommentForm == {"input", "locked"}
SubIssueForm == {"input", "locked"}
UploadField == {"input", "locked"}
ChainButtons == {"locked"}
CreateIssueForm == {"dialog", "input", "locked"}
CreateAgentForm == {"dialog", "input", "locked"}
CreateWorkspaceForm == {"dialog", "input", "locked"}
SeedForm == {"locked"}
AutopilotForm == {"dialog", "input", "locked", "seeded"}
ConfirmDialog == {"dialog", "locked", "pinned", "seeded"}
AgentForm == {"locked"}
AgentButtons == {}
SkillForm == {"input", "locked"}
AssignForm == {"input", "locked"}
WebhookForm == {"input", "locked"}
DeliveryButtons == {"locked"}
TimeoutRow == {"locked"}
MaintenanceButtons == {"locked"}
RuleButtons == {}

-----------------------------------------------------------------------------
(* Mutations.  effects: "creates" (sent twice, it is done twice), "clears" *)
(* and "closes" the form and "leaves" the page on success, "settles" (also *)
(* closes on failure), "always" (invalidates on failure too)               *)

Op(page, form, writes, refreshes, effects) ==
  [page |-> page, form |-> form, writes |-> writes, refreshes |-> refreshes, effects |-> effects]

\* invalidateIssue
IssueKeys == {"issue", "comments", "runs", "issues", "subissues", "run-events"}

AddComment ==
  Op(IssueDetailPage, CommentForm, {"issue", "comments", "runs", "issues", "attachments"},
     IssueKeys \cup {"attachments"}, {"creates", "clears"})
Rerun ==
  Op(IssueDetailPage, ConfirmDialog, {"issue", "comments", "runs", "issues"}, IssueKeys, {"settles"})
CancelRun ==
  Op(IssueDetailPage, ConfirmDialog, {"issue", "comments", "runs", "issues", "run-events"}, IssueKeys, {"settles"})
UpdateStatus ==
  Op(IssueDetailPage, ConfirmDialog, {"issue", "comments", "runs", "issues", "run-events", "workspaces"},
     IssueKeys, {"settles"})
CreateSubIssue ==
  Op(IssueDetailPage, SubIssueForm, {"subissues", "issues", "workspaces"}, IssueKeys, {"creates", "clears"})
UploadAttachment ==
  Op(IssueDetailPage, UploadField, {"attachments"}, {"attachments"}, {"creates", "clears"})
RemoveAttachment == Op(IssueDetailPage, Button, {"attachments"}, {"attachments"}, {})

\* The row invalidates ['issue', issueID]; the issue's query is kept under
\* ['issue', slug, identifier], which that key does not match.
ChainKeys == {"runs", "comments", "workspace-runs", "workspace-runs-feed"}
CancelChain ==
  Op(IssueDetailPage, ChainButtons, {"issue", "comments", "runs", "issues", "run-events"}, ChainKeys, {})
RetryChain ==
  Op(IssueDetailPage, ChainButtons, {"issue", "comments", "runs", "issues"}, ChainKeys, {})
\* On the chain dashboard the row has no issue id.
ListedChainKeys == {"workspace-runs", "workspace-runs-feed"}
CancelListedChain == Op(WorkspaceChainsPage, ChainButtons, {"workspace-runs", "issues"}, ListedChainKeys, {})
RetryListedChain == Op(WorkspaceChainsPage, ChainButtons, {"workspace-runs", "issues"}, ListedChainKeys, {})

BoardUpdateStatus == Op(BoardPage, ConfirmDialog, {"issues", "workspaces"}, {"issues"}, {"settles"})
BoardCancelExecution == Op(BoardPage, ConfirmDialog, {"issues"}, {"issues"}, {"settles"})
CreateIssue ==
  Op(BoardPage, CreateIssueForm, {"issues", "workspaces"}, {"issues"}, {"creates", "clears", "closes"})

CreateAgent ==
  Op(AgentsPage, CreateAgentForm, {"agents", "workspaces"}, {"agents", "workspaces"},
     {"creates", "clears", "closes"})
AgentKeys == {"agent", "agent-instructions", "agents"}
SkillKeys == {"workspace-skills", "agent-skills"}
UpdateAgent == Op(AgentDetailPage, AgentForm, AgentKeys, AgentKeys, {})
PromoteAgent == Op(AgentDetailPage, AgentButtons, {"agent", "agents"}, AgentKeys, {})
RemoveAgent == Op(AgentDetailPage, AgentButtons, {"agent", "agents", "workspaces"}, {}, {"leaves"})
CreateSkill == Op(AgentDetailPage, SkillForm, {"workspace-skills"}, SkillKeys, {"creates", "clears"})
AssignSkill == Op(AgentDetailPage, AssignForm, {"agent-skills"}, SkillKeys, {})
UnassignSkill == Op(AgentDetailPage, BusyButton, {"agent-skills"}, SkillKeys, {})

SaveRule == Op(AutopilotPage, AutopilotForm, {"autopilot"}, {"autopilot"}, {"creates", "closes"})
TriggerRule == Op(AutopilotPage, RuleButtons, {"autopilot", "issues"}, {"autopilot"}, {"always"})
ToggleRule == Op(AutopilotPage, RuleButtons, {"autopilot"}, {"autopilot"}, {})
DeleteRule == Op(AutopilotPage, RuleButtons, {"autopilot"}, {"autopilot"}, {})

SaveTimeouts == Op(SettingsPage, TimeoutRow, {"workspaces", "workspace"}, {"workspaces", "workspace"}, {})
CreateWebhook == Op(SettingsPage, WebhookForm, {"webhooks"}, {"webhooks"}, {"creates", "clears"})
RemoveWebhook == Op(SettingsPage, Button, {"webhooks"}, {"webhooks"}, {})
Redeliver ==
  Op(SettingsPage, DeliveryButtons, {"webhooks", "webhook-deliveries"}, {"webhooks", "webhook-deliveries"}, {})
RedeliverAllFailed ==
  Op(SettingsPage, DeliveryButtons, {"webhooks", "webhook-deliveries"}, {"webhooks", "webhook-deliveries"}, {})
Backup == Op(SettingsPage, MaintenanceButtons, {}, {}, {})
Vacuum == Op(SettingsPage, MaintenanceButtons, {}, {}, {})
CleanupLogs == Op(SettingsPage, MaintenanceButtons, {"settings"}, {}, {})
SeedDevTeam ==
  Op(SettingsPage, SeedForm, {"workspaces", "workspace"}, {"workspaces", "workspace"}, {"leaves"})
CreateWorkspace ==
  Op(HomePage, CreateWorkspaceForm, {"workspaces"}, {"workspaces"},
     {"creates", "clears", "closes", "leaves"})

Operations ==
  {AddComment, Rerun, CancelRun, UpdateStatus, CreateSubIssue, UploadAttachment, RemoveAttachment,
   CancelChain, RetryChain, CancelListedChain, RetryListedChain, BoardUpdateStatus, BoardCancelExecution, CreateIssue,
   CreateAgent, UpdateAgent, PromoteAgent, RemoveAgent, CreateSkill, AssignSkill, UnassignSkill,
   SaveRule, TriggerRule, ToggleRule, DeleteRule, SaveTimeouts, CreateWebhook, RemoveWebhook,
   Redeliver, RedeliverAllFailed, Backup, Vacuum, CleanupLogs, SeedDevTeam, CreateWorkspace}
=============================================================================
