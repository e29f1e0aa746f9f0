SPECIFICATION Spec
CONSTANTS
  File <- TwoFiles
  Pos <- TwoPos
  SomeTree <- MixedTrees
  Run = {r1, r2}
  MaxCommits = 2
  AllowAll = TRUE
  AllowRerun = TRUE
  r1 = r1
  r2 = r2
  p = p
  q = q
  b1 = b1
  b2 = b2
  x1 = x1
  x2 = x2
  PlanName = {p}
  Brief = {b1, b2}
  Extra = {x1, x2}
  Absent = Absent
  NoName = NoName
  NoSteps = NoSteps
  NoSource = NoSource
  NoPlan = NoPlan
  NoReply = NoReply
\* Runs are finitely many and end; main stops at MaxCommits.
CHECK_DEADLOCK FALSE
SYMMETRY Runs
INVARIANTS
  TypeOK
  GreenMeansHeld
  BadFileSubmitsNothing
