SPECIFICATION FairSpec
CONSTANTS
  r1 = r1
  r2 = r2
  a = a
  b = b
  example = example
  TemplateName = {a, b, example}
  Example = {example}
  Document <- Texts
  File <- ChartFiles
  Emit <- Stripped
  Absent = Absent
  SomeTemplates <- FewTemplates
  Run = {r1, r2}
  MaxChanges = 3
  MaxFaults = 1
  NoPull = NoPull
INVARIANTS
  TypeOK
  PublishedLosesGapsOnly
PROPERTIES
  ImplementsLibrary
  AloneDelivers
  SelfHeals
