----------------------------- MODULE PlanLint -----------------------------
(***************************************************************************)
(* The hard gate on the documents of the catalog: LintDoc, lintPlan and    *)
(* lintTemplate of pkg/planlint, with the rules that gate a merge and that *)
(* something further down the line relies on.  Each rule holds when it has *)
(* nothing to report as an error; warnings (R15, R18, R25, R27) gate       *)
(* nothing.  R1 to R4 and R10, which are about a document whatever its     *)
(* kind, are in LintRun.                                                   *)
(*                                                                         *)
(* A name is a sequence of atoms, the parts between its hyphens, so that   *)
(* joining two names with a hyphen is concatenation.                       *)
(***************************************************************************)
EXTENDS StepGraph

CONSTANTS
  Atom,          \* the parts of names
  TemplateName,  \* names of PlanTemplates
  Verify,        \* the one the platform injects: verify-release-flow
  NoUse,         \* the step has no use:
  DevAgent,      \* devAgentTypes
  InfraAgent,    \* agentTypes the platform runs privileged steps on
  InfraPrefix,   \* the one that is leartech-agent-infra itself
  OtherAgent,    \* any other agentType
  NoAgent,       \* no agentType
  Repo,          \* values of repo
  GitOpsRepo,    \* those gitOpsRepoRE matches
  NoRepo,        \* no repo
  Param,         \* names of template parameters
  Absent         \* no document of that name

ASSUME NameAssumption == Name \subseteq Seq(Atom) \ {<<>>} /\ Unnamed = <<>>

ASSUME LintAssumption ==
  /\ Verify \in TemplateName
  /\ NoUse \notin TemplateName
  /\ NoRepo \notin Repo
  /\ NoAgent \notin DevAgent \cup InfraAgent \cup OtherAgent
  /\ InfraPrefix \in InfraAgent
  /\ InfraAgent \cap (DevAgent \cup OtherAgent) = {}

StepKinds == {"pr", "apply", "check"}

Inputs == [keys   : SUBSET {"name", "goal", "branch", "repos"},
           repo   : Repo \cup {NoRepo},
           action : {"none", "known", "unknown"}]

\* runtime: budgetIter, hold or inputs is present; unknown: a field no CRD has;
\* misdirected: test.directed is a value the step's kind does not have.
StepNamed(names, triggers) ==
  [name      : names,
   dependsOn : Seq(Name),
   trigger   : triggers,
   fanIn     : BOOLEAN,
   validates : BOOLEAN,
   use       : TemplateName \cup {NoUse},
   with      : SUBSET Param,
   sha       : {"none", "commit", "other"},
   kind      : StepKinds \cup {"none", "other"},
   agent     : DevAgent \cup InfraAgent \cup OtherAgent \cup {NoAgent},
   repo      : Repo \cup {NoRepo},
   inputs    : Inputs,
   declares  : SUBSET {"runtime", "unknown", "misdirected"}]

PlanStep == StepNamed(Name \cup {Unnamed}, Trigger \cup {NoTrigger})

\* unknown: the spec, or a parameter, has a field no CRD has.
PlanDoc == [paused : BOOLEAN, test : BOOLEAN, unknown : BOOLEAN, steps : Seq(PlanStep)]

Template == [required : SUBSET Param, unknown : BOOLEAN, steps : Seq(PlanStep)]

------------------------------------------------------------------------------

Uses(s) == s.use # NoUse

Concrete(s) == ~Uses(s) /\ ~s.fanIn

\* Seeded fault for PrivilegeOnlyByTemplate: equality, as the rule once had it.
IsTheInfraAgent(agent) == agent = InfraPrefix

IsInfraAgent(agent) == agent \in InfraAgent

\* Seeded fault for VerifiedOnce: repo is looked for at step level only.
StepLevelRepo(s) == s.repo

StepTargetRepo(s) == IF s.repo # NoRepo THEN s.repo ELSE s.inputs.repo

\* An absent kind is pr; any kind R6 rejects counts as pr too.
NormalizeKind(kind) == IF kind \in {"apply", "check"} THEN kind ELSE "pr"

------------------------------------------------------------------------------
(* Rules on one step.                                                         *)

R6(s) ==
  /\ s.kind \in StepKinds \/ (s.kind = "none" /\ ~Concrete(s))
  /\ Concrete(s) => s.agent # NoAgent

GateHasNoAgent(s) == s.fanIn /\ ~Uses(s) => s.agent = NoAgent

R14(s) ==
  Uses(s) => /\ s.agent = NoAgent
             /\ s.repo = NoRepo
             /\ ~s.fanIn /\ ~s.validates
             /\ "runtime" \notin s.declares

\* Seeded fault for ExpandsAsReviewed: what is supplied is looked up, not what is required.
R16OfTheSupplied(s, index) ==
  Uses(s) /\ index[s.use] # Absent => s.with \subseteq index[s.use].required

\* Seeded fault for AcceptedEverywhere: a template that is not known is an error.
R16OfTheKnown(s, index) ==
  Uses(s) => index[s.use] # Absent /\ index[s.use].required \subseteq s.with

\* A template that is not in the submission is a warning (R15).
R16(s, index) ==
  Uses(s) /\ index[s.use] # Absent => index[s.use].required \subseteq s.with

R20(s) == "unknown" \notin s.declares

R21(s) ==
  CASE s.agent \in DevAgent ->
         /\ {"name", "goal"} \subseteq s.inputs.keys
         /\ \/ "repos" \in s.inputs.keys
            \/ s.inputs.repo # NoRepo /\ "branch" \in s.inputs.keys
    [] IsInfraAgent(s.agent) -> s.inputs.action = "known"
    [] OTHER -> TRUE

R22(s) == Concrete(s) => ~IsInfraAgent(s.agent)

R24(s) == Uses(s) => s.sha # "other"

R26(s) == Concrete(s) => StepTargetRepo(s) \notin GitOpsRepo

StepClean(s, index) ==
  /\ R20(s) /\ R6(s) /\ GateHasNoAgent(s) /\ R14(s) /\ R16(s, index) /\ R24(s)
  /\ Concrete(s) => R21(s)
  /\ R22(s) /\ R26(s)

------------------------------------------------------------------------------
(* Rules on a document.                                                       *)

\* The steps after which plan-api injects a verification, as the gate sees it.
DeployableNames(steps) ==
  {steps[i].name : i \in {j \in Named(steps) :
     /\ Concrete(steps[j])
     /\ NormalizeKind(steps[j].kind) = "pr"
     /\ StepTargetRepo(steps[j]) # NoRepo}}

R23(steps) ==
  \A i \in DOMAIN steps :
    steps[i].use = Verify => Range(steps[i].dependsOn) \cap DeployableNames(steps) = {}

\* Outside of a test plan a directive is ignored, with a warning.
R19(doc) == doc.test => \A i \in DOMAIN doc.steps : "misdirected" \notin doc.steps[i].declares

LintPlan(doc, index) ==
  /\ doc.paused                                                   \* R5
  /\ ~doc.unknown                                                 \* R20
  /\ R19(doc)
  /\ StepsAccepted(doc.steps)
  /\ \A i \in DOMAIN doc.steps : StepClean(doc.steps[i], index)
  /\ R23(doc.steps)

TemplateStepClean(s) ==
  /\ R20(s)
  /\ ~Uses(s)                                                     \* R9
  /\ Concrete(s) => s.kind \in StepKinds /\ s.agent # NoAgent /\ R21(s)

\* Seeded fault for GraphSurvives: only plans have their graph checked.
LintTemplateSteps(t) ==
  /\ t.steps # <<>>
  /\ \A j \in DOMAIN t.steps : t.steps[j].name # Unnamed /\ TemplateStepClean(t.steps[j])

LintTemplate(t) ==
  /\ ~t.unknown                                                   \* R20
  /\ StepsAccepted(t.steps)
  /\ \A j \in DOMAIN t.steps : TemplateStepClean(t.steps[j])

\* Run: the whole catalog, every plan against the templates beside it.
LintCatalog(index, plans) ==
  /\ \A n \in TemplateName : index[n] # Absent => LintTemplate(index[n])
  /\ \A plan \in plans : LintPlan(plan, index)

==============================================================================
