----------------------------- MODULE Expansion -----------------------------
(***************************************************************************)
(* What becomes of a plan the gate accepted: plan-submit projects it,      *)
(* plan-api injects a verification after each deployable step, and the     *)
(* controller replaces each use-step by the steps of its template.  The    *)
(* last two are external; the CRD schemas and the comments of lint.go say  *)
(* what they do.                                                           *)
(*                                                                         *)
(* From here on the order of the steps no longer matters: a plan is a      *)
(* family of steps, indexed by where each came from, and a dependsOn list  *)
(* is a family too.  The rules of StepGraph read both as they read lists.  *)
(***************************************************************************)
EXTENDS PlanLint

CONSTANT Injected     \* the atom that ends the name of an injected step

\* The members of S, as the entries of a dependsOn.
Each(S) == [x \in S |-> x]

Join(m, n) == m \o n

JoinAll(m, ns) == {Join(m, n) : n \in ns}

\* plan-api gives an injected step a name no author has used.
ASSUME InjectedAssumption == Injected \notin Atom

------------------------------------------------------------------------------

\* A concrete step of kind pr, the empty kind included, that carries a repo at
\* either place.
DeployableStep(s) ==
  /\ Concrete(s)
  /\ NormalizeKind(s.kind) = "pr"
  /\ s.repo # NoRepo \/ s.inputs.repo # NoRepo

VerifyStep(s) ==
  [s EXCEPT !.name = Join(@, <<Injected>>), !.dependsOn = <<s.name>>,
            !.use = Verify, !.with = Param, !.agent = NoAgent, !.kind = "none",
            !.repo = NoRepo, !.validates = FALSE]

\* A step of a stored plan.
StoredStep == StepNamed(Seq(Atom \cup {Injected}) \ {<<>>}, {NoTrigger})

\* plan-api: the plan as it is stored.  <<i, "own">> is the author's step i, and
\* <<i, "verify">> the step injected after it.
Submission(steps) ==
  [x \in {<<i, "own">> : i \in DOMAIN steps}
           \cup {<<i, "verify">> : i \in {j \in DOMAIN steps : DeployableStep(steps[j])}} |->
     IF x[2] = "own" THEN ProjectStep(steps[x[1]])
                     ELSE VerifyStep(ProjectStep(steps[x[1]]))]

------------------------------------------------------------------------------
(* The controller's expansion, one level deep.                                *)

\* The steps of a template that no other step of it waits for.
Terminals(t) ==
  {n \in Names(t.steps) : \A m \in Names(t.steps) : ~DependsOn(t.steps, m, n)}

\* A dependsOn entry that names a use-step becomes the terminals of its template.
RewiredEntry(plan, library, d) ==
  IF \E x \in DOMAIN plan : plan[x].name = d /\ Uses(plan[x])
    THEN UNION {JoinAll(d, Terminals(library[plan[x].use])) :
                  x \in {y \in DOMAIN plan : plan[y].name = d /\ Uses(plan[y])}}
    ELSE {d}

Rewired(plan, library, s) ==
  UNION {RewiredEntry(plan, library, d) : d \in Range(s.dependsOn)}

\* Step j of the template a use-step names: an entry step waits for what the
\* use-step waits for, any other for steps of its template.
Inlined(plan, library, s, j) ==
  LET t == library[s.use].steps[j]
  IN  [t EXCEPT !.name = Join(s.name, @),
                !.dependsOn = IF Range(@) = {}
                                THEN Each(Rewired(plan, library, s))
                                ELSE Each(JoinAll(s.name, Range(@)))]

Expansion(plan, library) ==
  [x \in UNION {{y} \X (IF Uses(plan[y]) THEN DOMAIN library[plan[y].use].steps ELSE {0}) :
                  y \in DOMAIN plan} |->
     LET s == plan[x[1]]
     IN  IF Uses(s) THEN Inlined(plan, library, s, x[2])
                    ELSE [s EXCEPT !.dependsOn = Each(Rewired(plan, library, s))]]

\* A terminal expansion error: no such template, or a required parameter missing.
Expandable(plan, library) ==
  \A x \in DOMAIN plan : Uses(plan[x]) =>
    /\ library[plan[x].use] # Absent
    /\ library[plan[x].use].required \subseteq plan[x].with

==============================================================================
