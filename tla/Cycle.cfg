SPECIFICATION FairRunSpec
CONSTANTS
  a = a
  b = b
  c = c
  u = u
  Name = {a, b, c, u}
  Unnamed = Unnamed
  NoTrigger = NoTrigger
  NoTarget = NoTarget
  NoPhase = NoPhase
  SomeSteps <- AllLists
\* A plan the gate rejects goes nowhere.
CHECK_DEADLOCK FALSE
INVARIANTS
  TypeOK
  NoCycleMissed
  NoFalseCycle
  NeverWedged
PROPERTIES
  Terminates
  Approaches
