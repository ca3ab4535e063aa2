SPECIFICATION Spec
CONSTANTS
  i1 = i1
  i2 = i2
  a1 = a1
  a2 = a2
  a3 = a3
  w1 = w1
  h1 = h1
  h2 = h2
  MaxRuns = 3
  Issues = {i1}
  Agents = {a1, a2, a3}
  Handlers = {h1}
  Workspaces <- OneWorkspace
  IssueWs <- IssueInOne
  AgentWs <- AgentsInOne
  RetryMax <- TwoTries
  AutoClose <- Closes
  MaxDepth = 1
  DailyRunLimit = 0
SYMMETRY Symmetry
INVARIANTS OneRunningPerIssue ActiveRunKeepsIssueOpen ChainDepthBounded
PROPERTIES TerminalIsFinal ImplementsSlots
CHECK_DEADLOCK FALSE
