--------------------------- MODULE PlanAdmission ---------------------------
(***************************************************************************)
(* The way of one plan from a pull request to the controller.  Plans and   *)
(* templates are linted together; the plan goes to plan-api at once, the   *)
(* templates reach the controller's library through what TemplateSync      *)
(* implements, TemplateLibrary: the library a plan is expanded with is any *)
(* mixture of templates that main has held.                                *)
(***************************************************************************)
EXTENDS Expansion

CONSTANTS
  SomeTemplates,  \* what each template name may be proposed as
  SomePlans,      \* the plans authors propose
  NoPlan          \* no Plan object

ASSUME AdmissionAssumption ==
  /\ SomeTemplates \in [TemplateName -> SUBSET Template]
  /\ SomePlans \subseteq PlanDoc
  \* The schema does not say what a trigger of a template step becomes.
  /\ \A n \in TemplateName : \A t \in SomeTemplates[n] : \A j \in DOMAIN t.steps :
       t.steps[j].trigger = NoTrigger

VARIABLES
  templates,  \* templates/ on main
  merged,     \* what it has held under each name
  library,    \* the controller's PlanTemplates
  submitted,  \* the Plan object's steps
  agreed,     \* observation: templates/ when it was submitted, until it is expanded
  outcome,    \* how far the controller is with it
  expanded    \* the steps it has after the expansion

vars == <<templates, merged, library, submitted, agreed, outcome, expanded>>

Versions == UNION {SomeTemplates[n] : n \in TemplateName}

Library == INSTANCE TemplateLibrary WITH Version <- Versions

Outcome == {"none", "error", "inlined", "rejected", "admitted"}

Catalogs == {ts \in [TemplateName -> Versions \cup {Absent}] :
               \A n \in TemplateName : ts[n] \in SomeTemplates[n] \cup {Absent}}

TypeOK ==
  /\ merged \in [TemplateName -> SUBSET Versions]
  /\ templates \in Catalogs /\ library \in Catalogs /\ agreed \in Catalogs
  /\ outcome \in Outcome
  /\ submitted = NoPlan => outcome = "none"
  /\ outcome \in {"none", "error"} <=> expanded = NoPlan
  /\ submitted # NoPlan =>
       \A x \in DOMAIN submitted : submitted[x] \in StoredStep

Linted == {ts \in Catalogs : LintCatalog(ts, {})}

\* No plan is the absence of one.
ASSUME NoPlanAssumption ==
  \A doc \in SomePlans :
    /\ Submission(doc.steps) # NoPlan
    /\ \A ts \in Catalogs : Expandable(Submission(doc.steps), ts) =>
         Expansion(Submission(doc.steps), ts) # NoPlan

Nothing == [n \in TemplateName |-> Absent]

Init ==
  /\ templates = Nothing
  /\ Library!Init
  /\ submitted = NoPlan
  /\ agreed    = Nothing
  /\ outcome   = "none"
  /\ expanded  = NoPlan

------------------------------------------------------------------------------

\* A pull request changes templates/, all of which the gate has read; plans they no
\* longer suit leave plans/ with it, which no Plan object notices.
MergeTemplates(ts) ==
  /\ ts # templates
  /\ templates' = ts
  /\ merged' = [n \in TemplateName |-> merged[n] \cup ({ts[n]} \ {Absent})]
  /\ UNCHANGED <<library, submitted, agreed, outcome, expanded>>

\* A pull request adds a plan to the templates beside it (which it may have brought
\* itself) and its release submits it.
MergePlan(doc) ==
  /\ submitted = NoPlan
  /\ LintCatalog(templates, {doc})
  /\ submitted' = Submission(doc.steps)
  /\ agreed' = templates
  /\ UNCHANGED <<templates, merged, library, outcome, expanded>>

\* A pull request of the sync, whichever run pushed it last, is merged and rolled out.
Sync ==
  /\ Library!Publish
  /\ UNCHANGED <<templates, submitted, agreed, outcome, expanded>>

\* The controller expands a Plan once.  What it cannot expand it fails ...
Expand ==
  /\ submitted # NoPlan
  /\ outcome = "none"
  /\ IF Expandable(submitted, library)
       THEN /\ expanded' = Expansion(submitted, library)
            /\ outcome' = "inlined"
       ELSE /\ outcome' = "error"
            /\ UNCHANGED expanded
  /\ agreed' = Nothing
  /\ UNCHANGED <<templates, merged, library, submitted>>

\* ... and it runs no graph that its own rules, which the gate's were ported from,
\* do not admit (validateDAG, validateFanInShape).
Validate ==
  /\ outcome = "inlined"
  /\ outcome' = IF GraphChecks(expanded) THEN "admitted" ELSE "rejected"
  /\ UNCHANGED <<templates, merged, library, submitted, agreed, expanded>>

Delete ==
  /\ submitted # NoPlan
  /\ submitted' = NoPlan
  /\ agreed' = Nothing
  /\ outcome' = "none"
  /\ expanded' = NoPlan
  /\ UNCHANGED <<templates, merged, library>>

Next ==
  \/ \E ts \in Linted : MergeTemplates(ts)
  \/ \E doc \in SomePlans : MergePlan(doc)
  \/ Sync \/ Expand \/ Validate \/ Delete

Spec == Init /\ [][Next]_vars

------------------------------------------------------------------------------
(* Properties.                                                                *)

\* The library has each template the Plan names, as it was when it was submitted.
LibraryAsReviewed ==
  \A x \in DOMAIN submitted : Uses(submitted[x]) =>
    /\ library[submitted[x].use] # Absent
    /\ library[submitted[x].use] = agreed[submitted[x].use]

\* As long as the library has its templates as they were when it was submitted, no
\* Plan ends in an expansion error: no template and no required parameter is missing,
\* whatever has happened to templates/.  A library that lags behind, or is ahead, may
\* have an older or newer copy that asks for other parameters; of it nothing is said.
\* (R16 over the co-submitted index, projection and injection keeping with:.)
ExpandsAsReviewed ==
  submitted # NoPlan /\ outcome = "none" /\ LibraryAsReviewed => Expandable(submitted, library)

\* Whatever mixture of older and newer templates an accepted plan is expanded
\* with, the graph the controller gets resolves, has no cycle and no malformed
\* gate, unless two of its names meet.
\* (R7, R8, R11, R12, R13 on plans and on templates, before the expansion.)
GraphSurvives ==
  outcome = "inlined" /\ DistinctNames(expanded) => GraphChecks(expanded)

\* After injection exactly one verification waits for each deployable step.
\* (R23 judges the file, plan-api injects afterwards: both must mean the same
\* steps, wherever the repo is declared.)
VerifiedOnce ==
  submitted # NoPlan =>
    \A x \in DOMAIN submitted : DeployableStep(submitted[x]) =>
      \E y \in DOMAIN submitted : \A z \in DOMAIN submitted :
        (z = y) <=> /\ submitted[z].use = Verify
                    /\ submitted[x].name \in Range(submitted[z].dependsOn)

\* A step that runs on an infra agent or on a GitOps repository is a template's.
\* (R22, R26, and a plan's use-steps having no agent of their own, R14.)
PrivilegeOnlyByTemplate ==
  expanded # NoPlan =>
    \A x \in DOMAIN expanded :
      /\ ~expanded[x].fanIn
      /\ expanded[x].agent \in InfraAgent \/ StepTargetRepo(expanded[x]) \in GitOpsRepo
      => Uses(submitted[x[1]])

\* What the package comment promises of a plan the catalog accepts: once its
\* templates are found and inlined, the controller does not reject it.
AcceptedMeansAdmitted == outcome # "rejected"

==============================================================================
