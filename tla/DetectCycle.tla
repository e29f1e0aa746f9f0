--------------------------- MODULE DetectCycle ---------------------------
(***************************************************************************)
(* detectCycle of pkg/planlint, one step of the program at a time: a first *)
(* loop collects the dependency lists by name, then a depth-first search   *)
(* colours the names white, grey and black.  The recursion of visit is the *)
(* variable stack; a frame is a call of visit with the index of the next   *)
(* entry of its range loop.                                                *)
(***************************************************************************)
EXTENDS StepGraph, FiniteSets

CONSTANT SomeSteps    \* the step lists to check

ASSUME StepsAssumption == SomeSteps \subseteq Seq(Step)

VARIABLES
  steps,    \* the argument
  pc,       \* "collect", "search" or "done"
  at,       \* index of the loop over steps, then of the loop over order
  order,    \* the names in the order of the list, duplicates included
  known,    \* the keys of deps
  deps,     \* the dependsOn list of each known name; the last duplicate wins
  color,    \* of each string; a map's zero value is white
  stack,    \* calls of visit, innermost last
  result    \* "none" while it runs, then "acyclic" (the empty message) or "cycle"

vars == <<steps, pc, at, order, known, deps, color, stack, result>>

Frame == [name : Name, next : Nat]

TypeOK ==
  /\ steps  \in SomeSteps
  /\ pc     \in {"collect", "search", "done"}
  /\ at     \in Nat \ {0}
  /\ order  \in Seq(Name)
  /\ known  \in SUBSET Name
  /\ deps   \in [Name -> Seq(Name)]
  /\ color  \in [Name -> {"white", "grey", "black"}]
  /\ stack  \in Seq(Frame)
  /\ result \in {"none", "acyclic", "cycle"}

Init ==
  /\ steps  \in SomeSteps
  /\ pc     = "collect"
  /\ at     = 1
  /\ order  = <<>>
  /\ known  = {}
  /\ deps   = [n \in Name |-> <<>>]
  /\ color  = [n \in Name |-> "white"]
  /\ stack  = <<>>
  /\ result = "none"

------------------------------------------------------------------------------

\* Seeded fault for TypeOK: steps without a name are collected too.
CollectAny ==
  /\ pc = "collect"
  /\ at \in DOMAIN steps
  /\ order' = Append(order, steps[at].name)
  /\ known' = known \cup {steps[at].name}
  /\ deps'  = [n \in Name |-> IF n = steps[at].name THEN steps[at].dependsOn ELSE deps[n]]
  /\ at' = at + 1
  /\ UNCHANGED <<steps, pc, color, stack, result>>

CollectNamed ==
  /\ pc = "collect"
  /\ at \in Named(steps)
  /\ order' = Append(order, steps[at].name)
  /\ known' = known \cup {steps[at].name}
  /\ deps'  = [deps EXCEPT ![steps[at].name] = steps[at].dependsOn]
  /\ at' = at + 1
  /\ UNCHANGED <<steps, pc, color, stack, result>>

SkipUnnamed ==
  /\ pc = "collect"
  /\ at \in DOMAIN steps \ Named(steps)
  /\ at' = at + 1
  /\ UNCHANGED <<steps, pc, order, known, deps, color, stack, result>>

StartSearch ==
  /\ pc = "collect"
  /\ at \notin DOMAIN steps
  /\ pc' = "search"
  /\ at' = 1
  /\ UNCHANGED <<steps, order, known, deps, color, stack, result>>

\* visit(order[at]), unless an earlier search has been there.
VisitRoot ==
  /\ pc = "search"
  /\ stack = <<>>
  /\ at \in DOMAIN order
  /\ at' = at + 1
  /\ IF color[order[at]] = "white"
       THEN /\ color' = [color EXCEPT ![order[at]] = "grey"]
            /\ stack' = <<[name |-> order[at], next |-> 1]>>
       ELSE UNCHANGED <<color, stack>>
  /\ UNCHANGED <<steps, pc, order, known, deps, result>>

Top == stack[Len(stack)]
Advanced == [stack EXCEPT ![Len(stack)].next = @ + 1]

\* The entry of dependsOn the innermost call looks at.
Examining(dep) ==
  /\ pc = "search"
  /\ stack # <<>>
  /\ Top.next \in DOMAIN deps[Top.name]
  /\ dep = deps[Top.name][Top.next]

MeetsGrey(dep) ==
  /\ Examining(dep)
  /\ color[dep] = "grey"
  /\ pc' = "done"
  /\ result' = "cycle"
  /\ UNCHANGED <<steps, at, order, known, deps, color, stack>>

\* Seeded fault for NoCycleMissed: one colour for all that has been visited.
DescendsInBlack(dep) ==
  /\ Examining(dep)
  /\ color[dep] = "white"
  /\ dep \in known
  /\ color' = [color EXCEPT ![dep] = "black"]
  /\ stack' = Append(Advanced, [name |-> dep, next |-> 1])
  /\ UNCHANGED <<steps, pc, at, order, known, deps, result>>

\* Seeded fault for Approaches: a name is only coloured when its call returns.
DescendsUncoloured(dep) ==
  /\ Examining(dep)
  /\ color[dep] = "white"
  /\ dep \in known
  /\ stack' = Append(Advanced, [name |-> dep, next |-> 1])
  /\ UNCHANGED <<steps, pc, at, order, known, deps, color, result>>

\* A name that is no key of deps is left to R8.
Descends(dep) ==
  /\ Examining(dep)
  /\ color[dep] = "white"
  /\ dep \in known
  /\ color' = [color EXCEPT ![dep] = "grey"]
  /\ stack' = Append(Advanced, [name |-> dep, next |-> 1])
  /\ UNCHANGED <<steps, pc, at, order, known, deps, result>>

\* Seeded fault for Terminates: the loop does not go on after such an entry.
PassesOverAndStays(dep) ==
  /\ Examining(dep)
  /\ color[dep] # "grey"
  /\ color[dep] = "white" => dep \notin known
  /\ UNCHANGED vars

PassesOver(dep) ==
  /\ Examining(dep)
  /\ color[dep] # "grey"
  /\ color[dep] = "white" => dep \notin known
  /\ stack' = Advanced
  /\ UNCHANGED <<steps, pc, at, order, known, deps, color, result>>

\* Seeded fault for NoFalseCycle: a finished call leaves its name grey.
ReturnsGrey ==
  /\ pc = "search"
  /\ stack # <<>>
  /\ Top.next \notin DOMAIN deps[Top.name]
  /\ stack' = SubSeq(stack, 1, Len(stack) - 1)
  /\ UNCHANGED <<steps, pc, at, order, known, deps, color, result>>

\* The range loop is over: the call returns.
Returns ==
  /\ pc = "search"
  /\ stack # <<>>
  /\ Top.next \notin DOMAIN deps[Top.name]
  /\ color' = [color EXCEPT ![Top.name] = "black"]
  /\ stack' = SubSeq(stack, 1, Len(stack) - 1)
  /\ UNCHANGED <<steps, pc, at, order, known, deps, result>>

Finish ==
  /\ pc = "search"
  /\ stack = <<>>
  /\ at \notin DOMAIN order
  /\ pc' = "done"
  /\ result' = "acyclic"
  /\ UNCHANGED <<steps, at, order, known, deps, color, stack>>

Next ==
  \/ CollectNamed \/ SkipUnnamed \/ StartSearch
  \/ VisitRoot
  \/ \E dep \in Name : MeetsGrey(dep) \/ Descends(dep) \/ PassesOver(dep)
  \/ Returns \/ Finish

Spec == Init /\ [][Next]_vars

\* A sequential function: it takes its next step.
FairSpec == Spec /\ WF_vars(Next)

------------------------------------------------------------------------------
(* Properties.                                                                *)

\* A plan with distinct step names gets no cycle message only if no set of its
\* steps waits for itself: R11 accepts no cycle, whatever the order of the list,
\* with unknown, unnamed and repeated references among its entries.  (Of two steps of
\* one name the search follows the later alone; such a list R7 rejects.)
\* (the black branch and the unknown-name branch of visit's switch.)
NoCycleMissed ==
  result = "acyclic" /\ DistinctNames(steps) => Acyclic(steps)

\* A cycle message is never false, for lists with repeated names as well (the search
\* follows one of the steps of a name): some set of the steps does wait for itself.
\* A step reached twice along different paths is not a cycle.
\* (grey means "on the call stack", black is set when a call returns.)
NoFalseCycle == result = "cycle" => ~Acyclic(steps)

\* What is left to do, the most significant first: phases of the program, turns of its
\* loop, names to visit, calls to return from, entries of the innermost call.
Left ==
  <<CASE pc = "collect" -> 2 [] pc = "search" -> 1 [] OTHER -> 0,
    Len(IF pc = "collect" THEN steps ELSE order) + 1 - at,
    Cardinality({n \in known : color[n] = "white"}),
    Len(stack),
    IF stack = <<>> THEN 0 ELSE Len(deps[Top.name]) + 1 - Top.next>>

Nearer(a, b) == \E k \in 1..5 : a[k] < b[k] /\ \A j \in 1..k - 1 : a[j] = b[j]

\* Every step brings the search nearer its end, and there are finitely many to take:
\* the recursion of visit is bounded on lists with cycles, self-references, repeated
\* and unknown names as well.
\* (color is set before the recursive calls; every loop goes on after every entry.)
Approaches == [][Left' \in [1..5 -> Nat] /\ Nearer(Left', Left)]_vars

\* The search ends for every list.
Terminates == <>(pc = "done")

==============================================================================
