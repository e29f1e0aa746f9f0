SPECIFICATION Spec
CONSTANTS
  File <- AccentFiles
  Pos <- AccentPos
  SomeTree <- AccentTrees
  Run = {}
  MaxCommits = 2
  AllowAll = FALSE
  AllowRerun = FALSE
  r1 = r1
  r2 = r2
  p = p
  q = q
  b1 = b1
  b2 = b2
  x1 = x1
  x2 = x2
  PlanName = {p, q}
  Brief = {b1, b2}
  Extra = {x1, x2}
  Absent = Absent
  NoName = NoName
  NoSteps = NoSteps
  NoSource = NoSource
  NoPlan = NoPlan
  NoReply = NoReply
\* Runs are finitely many and end; main stops at MaxCommits.
CHECK_DEADLOCK FALSE
INVARIANT ScopeIsExact
