SPECIFICATION Spec
CONSTANTS
  i1 = i1
  i2 = i2
  a1 = a1
  a2 = a2
  a3 = a3
  w1 = w1
  h1 = h1
  h2 = h2
  MaxRuns = 3
  Issues = {i1, i2}
  Agents = {a1, a2, a3}
  Handlers = {}
  Workspaces <- OneWorkspace
  IssueWs <- IssuesInOne
  AgentWs <- AgentsInOne
  RetryMax <- OneTry
  AutoClose <- StaysOpen
  MaxDepth = 2
  DailyRunLimit = 1
SYMMETRY Symmetry
INVARIANTS SerialRunsExclude WorkerVisitedOnce WorkerDispatchBudget
CHECK_DEADLOCK FALSE
