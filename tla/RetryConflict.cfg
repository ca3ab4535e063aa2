SPECIFICATION PoolSpec
CONSTANTS
  i1 = i1
  i2 = i2
  a1 = a1
  a2 = a2
  w1 = w1
  p1 = p1
  p2 = p2
  h1 = h1
  h2 = h2
  MaxRuns = 2
  Issues = {i1}
  Agents = {a1}
  Handlers = {}
  MaxDepth = 1
  DailyRunLimit = 0
  Workers = {p1, p2}
  Cancellers = {}
  CancelKinds = {"issue"}
  RetryOn = {"timeout", "execError"}
  Slow = {}
  MaxStops = 0
  Toggles = FALSE
  Workspaces <- OneWorkspace
  IssueWs <- IssuesInOne
  AgentWs <- AgentsInOne
  RetryMax <- TwoTries
  AutoClose <- StaysOpen
SYMMETRY Symmetry
INVARIANTS FinishedRunHasEnded
CHECK_DEADLOCK FALSE
