----------------------------- MODULE MCPlanRun -----------------------------
(* Step lists for the search for cycles and for what follows it.              *)
EXTENDS PlanRun, TLC

CONSTANTS a, b, c, u

StepOf(n, list, trigger, fanIn) ==
  [name |-> n, dependsOn |-> list, trigger |-> trigger,
   fanIn |-> fanIn, validates |-> fanIn]

Plainly(n, lists) == {StepOf(n, d, NoTrigger, FALSE) : d \in lists}

------------------------------------------------------------------------------
(* For the search: lists over three names and one undeclared reference.       *)

Refs == {a, b, c}

DepLists == {<<>>, <<u>>} \cup {<<x>> : x \in Refs} \cup {<<x, y>> : x, y \in Refs}
            \cup {<<u, a>>}

\* Lists of up to two steps with any names, repeated and missing ones included ...
AnyStep == UNION {Plainly(n, DepLists) : n \in {a, b, Unnamed}}
ShortLists == {<<>>} \cup {<<s>> : s \in AnyStep} \cup (AnyStep \X AnyStep)

\* ... and of three, of which only the last has any name.
LongLists == Plainly(a, DepLists) \X Plainly(b, DepLists)
               \X UNION {Plainly(n, DepLists) : n \in {a, b, c, Unnamed}}

------------------------------------------------------------------------------
(* For the execution: every way of two steps to depend on one another, on     *)
(* themselves and on an undeclared step, some with a trigger or a fan-in, and *)
(* chains and joins of three.                                                 *)

When(n, p) == [step |-> n, phase |-> p]

Lists == {<<>>, <<a>>, <<b>>, <<u>>, <<a, b>>}
Triggers == {NoTrigger, When(a, "AwaitingReview"), When(b, "Succeeded"), When(c, "Running")}

Proposed(n) == {StepOf(n, d, t, f) : d \in Lists, t \in Triggers, f \in BOOLEAN}

Pairs == (UNION {Proposed(n) : n \in {a, b}}) \X Proposed(b)
Triples == Plainly(a, {<<>>, <<b>>, <<c>>})
             \X Plainly(b, {<<>>, <<a>>, <<c>>})
             \X (Plainly(c, {<<>>, <<a>>, <<a, b>>, <<b, u>>})
                   \cup {StepOf(c, <<a, b>>, NoTrigger, TRUE),
                         StepOf(c, <<a>>, When(b, "AwaitingReview"), FALSE)})

AllLists == ShortLists \cup LongLists \cup Pairs \cup Triples
==============================================================================
