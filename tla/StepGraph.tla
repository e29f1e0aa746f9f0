---------------------------- MODULE StepGraph ----------------------------
(***************************************************************************)
(* The step graph of a Plan or PlanTemplate and the rules the gate checks  *)
(* on it: graphChecks of pkg/planlint (R7, R8, R11, R12, R13, R17).        *)
(*                                                                         *)
(* steps is the list spec.steps.  Of a step the rules look at its name,    *)
(* its dependsOn list, its trigger (triggeredWhen), whether it is a fan-in *)
(* gate, and whether it lists fanInValidate paths.  A dependsOn entry may  *)
(* be any string, a declared name or not.                                  *)
(***************************************************************************)
EXTENDS Naturals, Sequences, Functions

CONSTANTS
  Name,       \* strings used as step names or references
  Unnamed,    \* a step without a name (asStr gives the empty string)
  NoTrigger,  \* no triggeredWhen
  NoTarget,   \* triggeredWhen.step is empty
  NoPhase     \* triggeredWhen.phase is empty

ASSUME UnnamedAssumption == Unnamed \notin Name

TriggerPhase == {"Running", "AwaitingReview", "AwaitingApproval", "Succeeded"}

Trigger == [step  : Name \cup {NoTarget},
            phase : TriggerPhase \cup {"Unheard", NoPhase}]

Step == [name      : Name \cup {Unnamed},
         dependsOn : Seq(Name),
         trigger   : Trigger \cup {NoTrigger},
         fanIn     : BOOLEAN,
         validates : BOOLEAN]

------------------------------------------------------------------------------

Named(steps) == {i \in DOMAIN steps : steps[i].name # Unnamed}

Names(steps) == {steps[i].name : i \in Named(steps)}

DistinctNames(steps) ==
  \A i, j \in Named(steps) : steps[i].name = steps[j].name => i = j

\* n waits for m.
DependsOn(steps, n, m) ==
  \E i \in Named(steps) : steps[i].name = n /\ m \in Range(steps[i].dependsOn)

\* No set of declared steps is closed under waiting: the reference definition of
\* acyclicity, without paths.
Acyclic(steps) ==
  \A S \in SUBSET Names(steps) :
    S # {} => \E n \in S : \A m \in S : ~DependsOn(steps, n, m)

\* Seeded fault for NeverWedged and TypeOK: the step is forwarded as it is.
ProjectWholeStep(s) == s

\* project: a request has no triggeredWhen, so what plan-api stores has none.  (What
\* else it leaves out, nothing read here; the paused it leaves out is plan-api's own
\* default.)
ProjectStep(s) == [s EXCEPT !.trigger = NoTrigger]

------------------------------------------------------------------------------
(* The rules.  Each holds when the gate finds nothing to report under it.     *)

R7(steps) == DistinctNames(steps)

\* Seeded fault for NeverWedged: only the first entry of a dependsOn list resolves.
R8OfTheFirst(steps) ==
  \A i \in DOMAIN steps :
    steps[i].dependsOn # <<>> => Head(steps[i].dependsOn) \in Names(steps)

R8(steps) ==
  \A i \in DOMAIN steps : Range(steps[i].dependsOn) \subseteq Names(steps)

R12(steps) ==
  \A i \in Named(steps) : steps[i].name \notin Range(steps[i].dependsOn)

R17(steps) ==
  \A i \in DOMAIN steps :
    LET t == steps[i].trigger
    IN  t # NoTrigger =>
          /\ t.step = NoTarget \/ t.step \in Names(steps)
          /\ i \in Named(steps) => t.step # steps[i].name
          /\ t.phase \in TriggerPhase \cup {NoPhase}

R13(steps) ==
  \A i \in DOMAIN steps :
    IF steps[i].fanIn
      THEN steps[i].dependsOn # <<>> /\ steps[i].validates
      ELSE ~steps[i].validates

\* detectCycle, as what it computes; module DetectCycle is the search itself.
R11(steps) == Acyclic(steps)

\* All but the search for cycles.
OtherGraphChecks(steps) ==
  R7(steps) /\ R8(steps) /\ R12(steps) /\ R17(steps) /\ R13(steps)

GraphChecks(steps) == OtherGraphChecks(steps) /\ R11(steps)

\* lintPlan and lintTemplate add that there is a step and that each has a name.
NamedThroughout(steps) == steps # <<>> /\ Named(steps) = DOMAIN steps

StepsAccepted(steps) == NamedThroughout(steps) /\ GraphChecks(steps)

==============================================================================
