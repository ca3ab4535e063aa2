SPECIFICATION Spec
CONSTANTS
  r1 = r1
  r2 = r2
  s1 = s1
  s2 = s2
  e1 = e1
  e2 = e2
  t1 = t1
  t2 = t2
  NoSpec = NoSpec
  Rules = {r1}
  Specs = {s1, s2}
  Editors = {e1, e2}
  Triggers = {t1, t2}
  Threshold = 2
  MaxReloads = 2
SYMMETRY Symmetry
INVARIANTS PausedRuleIsQuiet EnabledRuleIsScheduled OneCronRuns
PROPERTIES FailingRuleIsDisabled
CHECK_DEADLOCK FALSE
