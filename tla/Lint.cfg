SPECIFICATION Spec
CONSTANTS
  a = a
  b = b
  c = c
  l = l
  m = m
  u = u
  svc = svc
  verify = verify
  gather = gather
  go = go
  infra = infra
  infraGo = infraGo
  app = app
  cluster = cluster
  Name <- Refs
  Unnamed <- EmptyName
  Atom = {a, b, c, l, m, u}
  NoTrigger = NoTrigger
  NoTarget = NoTarget
  NoPhase = NoPhase
  TemplateName = {verify, gather}
  Verify = verify
  NoUse = NoUse
  DevAgent = {go}
  InfraAgent = {infra, infraGo}
  InfraPrefix = infra
  OtherAgent = {}
  NoAgent = NoAgent
  Repo = {app, cluster}
  GitOpsRepo = {cluster}
  NoRepo = NoRepo
  Param = {svc}
  Absent = Absent
  Path <- Paths
  Label = {gather, verify}
  NoName = NoName
  NoSpec = NoSpec
  Blank = Blank
  Garbage = Garbage
  NoRelease = NoRelease
  SomeCatalogs <- Catalogs
\* A rejected pull request goes nowhere, nor does a merge with nothing to release.
CHECK_DEADLOCK FALSE
INVARIANTS
  TypeOK
  GateIsLintCatalog
  AcceptedEverywhere
  SentWasJudged
  AcceptedIsProjected
