------------------------ MODULE PlanAdmission_proofs ------------------------
(***************************************************************************)
(* What the gate's rules are worth once plans have been projected, injected *)
(* and expanded, for every set of plans, templates and names.              *)
(***************************************************************************)
EXTENDS PlanAdmission, FiniteSetTheorems, SequenceTheorems, WellFoundedInduction, TLAPS

------------------------------------------------------------------------------
(* A template the gate accepts has a step nothing else of it waits for.       *)

LEMMA StepListType ==
  ASSUME NEW t \in Template, NEW j \in DOMAIN t.steps
  PROVE  /\ t.steps \in Seq(PlanStep)
         /\ t.steps[j] \in PlanStep
         /\ t.steps[j].dependsOn \in Seq(Name)
<1>1. t.steps \in Seq(PlanStep)
  BY DEF Template
<1>2. t.steps[j] \in PlanStep
  BY <1>1, LenProperties
<1>. QED  BY <1>1, <1>2 DEF PlanStep, StepNamed

Smaller == {ss \in Nat \X Nat : ss[1] < ss[2]}

\* A set of finite sets that is not empty has a smallest one.
LEMMA SmallestSet ==
  ASSUME NEW F, F # {}, \A S \in F : IsFiniteSet(S)
  PROVE  \E S \in F : \A R \in F : Cardinality(S) <= Cardinality(R)
<1> DEFINE T == {Cardinality(S) : S \in F}
<1>1. T \subseteq Nat /\ T # {}
  BY FS_CardinalityType
<1>2. IsWellFoundedOn(Smaller, Nat)
  BY NatLessThanWellFounded, SMT DEF OpToRel, Smaller
<1> HIDE DEF T
<1>3. PICK x \in T : \A y \in T : <<y, x>> \notin Smaller
  BY <1>1, <1>2, WFMin
<1>4. ASSUME NEW y \in T PROVE x <= y
  <2>1. x \in Nat /\ y \in Nat /\ <<y, x>> \notin Smaller
    BY <1>1, <1>3
  <2>2. y < x => <<y, x>> \in Smaller
    BY <2>1 DEF Smaller
  <2>. QED  BY <2>1, <2>2
<1>. QED  BY <1>3, <1>4 DEF T

\* Of all sets of steps that contain whatever waits for one of them, take a
\* smallest: the step of it that waits for none of it can be left out, so it is the
\* only one.
LEMMA HasTerminal ==
  ASSUME NEW t \in Template, StepsAccepted(t.steps)
  PROVE  Terminals(t) # {}
<1> DEFINE D == DOMAIN t.steps
           nm(i) == t.steps[i].name
           dp(i) == Range(t.steps[i].dependsOn)
           F == {I \in SUBSET D : I # {} /\ \A i \in I, j \in D : nm(i) \in dp(j) => j \in I}
<1>1. t.steps \in Seq(PlanStep) /\ t.steps # <<>>
  BY DEF Template, StepsAccepted, NamedThroughout
<1>2. D = 1 .. Len(t.steps) /\ Len(t.steps) \in Nat \ {0}
  <2>1. Len(t.steps) # 0
    BY <1>1, EmptySeq
  <2>. QED  BY <1>1, <2>1, LenProperties
<1>3. IsFiniteSet(D) /\ D # {}
  <2>1. IsFiniteSet(1 .. Len(t.steps))
    BY <1>2, FS_Interval
  <2>2. 1 \in 1 .. Len(t.steps)
    BY <1>2
  <2>. QED  BY <1>2, <2>1, <2>2
<1>4. \A I \in F : IsFiniteSet(I)
  BY <1>3, FS_Subset
<1>5. D \in F
  BY <1>3
<1>6. PICK I \in F : \A J \in F : Cardinality(I) <= Cardinality(J)
  <2> HIDE DEF F
  <2>. QED  BY <1>4, <1>5, SmallestSet
<1>7. Named(t.steps) = D /\ Acyclic(t.steps)
  BY DEF StepsAccepted, NamedThroughout, GraphChecks, OtherGraphChecks, R11
<1>8. PICK i \in I : \A j \in I : nm(j) \notin dp(i)
  <2> DEFINE S == {nm(j) : j \in I}
  <2>1. S \in SUBSET Names(t.steps) /\ S # {}
    BY <1>7 DEF Names
  <2>2. PICK n \in S : \A m \in S : ~DependsOn(t.steps, n, m)
    BY <1>7, <2>1 DEF Acyclic
  <2>3. PICK i \in I : n = nm(i)
    BY <2>2
  <2>4. \A j \in I : nm(j) \notin dp(i)
    BY <1>7, <2>2, <2>3 DEF DependsOn
  <2>. QED  BY <2>4
<1>9. I \ {i} \notin F
  <2>1. IsFiniteSet(I) /\ Cardinality(I \ {i}) = Cardinality(I) - 1 /\ Cardinality(I) \in Nat
    BY <1>4, FS_RemoveElement, FS_CardinalityType
  <2>. QED  BY <1>6, <2>1
<1>10. I = {i}
  <2>1. \A k \in I \ {i}, j \in D : nm(k) \in dp(j) => j \in I \ {i}
    BY <1>8
  <2>. QED  BY <1>9, <2>1
<1>11. \A j \in D : nm(i) \notin dp(j)
  BY <1>8, <1>10
<1>12. nm(i) \in Terminals(t)
  BY <1>7, <1>11 DEF Terminals, Names, DependsOn
<1>. QED  BY <1>12

------------------------------------------------------------------------------
(* The nodes of an expansion.                                                 *)

\* A plan as it is stored once the gate has accepted it.
Sound(plan) ==
  /\ \A x \in DOMAIN plan : plan[x] \in StoredStep
  /\ R7(plan) /\ R8(plan) /\ R11(plan) /\ R13(plan)

\* A library of templates the gate has accepted, none of whose steps has a trigger.
GoodLibrary(lib) ==
  \A n \in TemplateName : lib[n] # Absent =>
    /\ lib[n] \in Template
    /\ LintTemplate(lib[n])
    /\ \A j \in DOMAIN lib[n].steps : lib[n].steps[j].trigger = NoTrigger

Ready(plan, lib) == Sound(plan) /\ GoodLibrary(lib) /\ Expandable(plan, lib)

LEMMA StoredStepType ==
  ASSUME NEW s \in StoredStep
  PROVE  /\ s.name \in Seq(Atom \cup {Injected}) /\ s.name # <<>> /\ s.name # Unnamed
         /\ s.dependsOn \in Seq(Name)
         /\ s.use \in TemplateName \cup {NoUse}
         /\ s.trigger = NoTrigger
BY NameAssumption DEF StoredStep, StepNamed

LEMMA NameType == \A n \in Name : n \in Seq(Atom \cup {Injected}) /\ n # <<>>
<1> SUFFICES ASSUME NEW n \in Name PROVE n \in Seq(Atom \cup {Injected})
  BY NameAssumption
<1>1. n \in Seq(Atom)
  BY NameAssumption
<1>2. n \in [1 .. Len(n) -> Atom] /\ Len(n) \in Nat
  BY <1>1, LenProperties
<1>. QED  BY <1>2

\* The template of a use-step.
LEMMA TemplateOf ==
  ASSUME NEW plan, NEW lib, Ready(plan, lib), NEW y \in DOMAIN plan, Uses(plan[y])
  PROVE  LET t == lib[plan[y].use]
         IN  /\ t \in Template
             /\ StepsAccepted(t.steps)
             /\ \A j \in DOMAIN t.steps :
                  /\ t.steps[j] \in PlanStep
                  /\ t.steps[j].dependsOn \in Seq(Name)
                  /\ t.steps[j].name \in Name
                  /\ t.steps[j].trigger = NoTrigger
                  /\ ~Uses(t.steps[j])
<1> DEFINE t == lib[plan[y].use]
<1>1. plan[y].use \in TemplateName
  BY StoredStepType DEF Ready, Sound, Uses
<1>2. /\ t \in Template /\ LintTemplate(t)
      /\ \A j \in DOMAIN t.steps : t.steps[j].trigger = NoTrigger
  BY <1>1 DEF Ready, Expandable, GoodLibrary
<1>3. ASSUME NEW j \in DOMAIN t.steps
      PROVE  /\ t.steps[j] \in PlanStep
             /\ t.steps[j].dependsOn \in Seq(Name)
             /\ t.steps[j].name \in Name
             /\ ~Uses(t.steps[j])
  <2>1. t.steps[j] \in PlanStep /\ t.steps[j].dependsOn \in Seq(Name)
    BY <1>2, StepListType
  <2>2. j \in Named(t.steps) /\ ~Uses(t.steps[j])
    BY <1>2 DEF LintTemplate, StepsAccepted, NamedThroughout, TemplateStepClean
  <2>3. t.steps[j].name \in Name
    BY <2>1, <2>2 DEF PlanStep, StepNamed, Named
  <2>. QED  BY <2>1, <2>2, <2>3
<1>4. StepsAccepted(t.steps)
  BY <1>2 DEF LintTemplate
<1>. QED  BY <1>2, <1>3, <1>4

\* A node that comes from a step without use:.
LEMMA OwnNode ==
  ASSUME NEW plan, NEW lib, Ready(plan, lib), NEW y \in DOMAIN plan, ~Uses(plan[y])
  PROVE  LET E == Expansion(plan, lib)
             x == <<y, 0>>
         IN  /\ x \in DOMAIN E
             /\ E[x].name = plan[y].name
             /\ E[x].dependsOn = Each(Rewired(plan, lib, plan[y]))
             /\ E[x].trigger = NoTrigger
             /\ E[x].fanIn = plan[y].fanIn /\ E[x].validates = plan[y].validates
             /\ E[x].agent = plan[y].agent /\ E[x].repo = plan[y].repo
             /\ E[x].inputs = plan[y].inputs /\ E[x].use = plan[y].use
<1> DEFINE E == Expansion(plan, lib)
           x == <<y, 0>>
<1>1. x \in DOMAIN E
  BY DEF Expansion
<1>2. E[x] = [plan[y] EXCEPT !.dependsOn = Each(Rewired(plan, lib, plan[y]))]
  BY <1>1 DEF Expansion
<1>3. plan[y] \in StoredStep
  BY DEF Ready, Sound
<1> HIDE DEF E
<1>4. plan[y].trigger = NoTrigger
  BY <1>3, StoredStepType
<1>. QED  BY <1>1, <1>2, <1>3, <1>4 DEF StoredStep, StepNamed, E

\* A node that comes from a step of a template.
LEMMA TemplateNode ==
  ASSUME NEW plan, NEW lib, Ready(plan, lib), NEW y \in DOMAIN plan, Uses(plan[y]),
         NEW j \in DOMAIN lib[plan[y].use].steps
  PROVE  LET E == Expansion(plan, lib)
             x == <<y, j>>
             t == lib[plan[y].use].steps[j]
         IN  /\ x \in DOMAIN E
             /\ E[x].name = Join(plan[y].name, t.name)
             /\ Range(t.dependsOn) = {} => E[x].dependsOn = Each(Rewired(plan, lib, plan[y]))
             /\ Range(t.dependsOn) # {} =>
                  E[x].dependsOn = Each(JoinAll(plan[y].name, Range(t.dependsOn)))
             /\ E[x].trigger = NoTrigger
             /\ E[x].fanIn = t.fanIn /\ E[x].validates = t.validates
<1> DEFINE E == Expansion(plan, lib)
           x == <<y, j>>
           t == lib[plan[y].use].steps[j]
<1>1. x \in DOMAIN E
  BY DEF Expansion
<1>2. E[x] = Inlined(plan, lib, plan[y], j)
  BY <1>1 DEF Expansion
<1>3. t \in PlanStep /\ t.trigger = NoTrigger
  BY TemplateOf
<1> HIDE DEF E
<1>. QED  BY <1>1, <1>2, <1>3 DEF PlanStep, StepNamed, E, Inlined

LEMMA TemplateNodeName ==
  ASSUME NEW plan, NEW lib, Ready(plan, lib), NEW y \in DOMAIN plan, Uses(plan[y]),
         NEW j \in DOMAIN lib[plan[y].use].steps
  PROVE  /\ <<y, j>> \in DOMAIN Expansion(plan, lib)
         /\ Expansion(plan, lib)[<<y, j>>].name
              = Join(plan[y].name, lib[plan[y].use].steps[j].name)
BY TemplateNode

\* There are no others.
LEMMA NodeCases ==
  ASSUME NEW plan, NEW lib, NEW x \in DOMAIN Expansion(plan, lib)
  PROVE  \E y \in DOMAIN plan :
           \/ ~Uses(plan[y]) /\ x = <<y, 0>>
           \/ Uses(plan[y]) /\ \E j \in DOMAIN lib[plan[y].use].steps : x = <<y, j>>
<1>1. PICK y \in DOMAIN plan :
        x \in {y} \X (IF Uses(plan[y]) THEN DOMAIN lib[plan[y].use].steps ELSE {0})
  BY DEF Expansion
<1>. QED  BY <1>1

\* Every node has a name, so that the rules read all of them.
LEMMA NodeNames ==
  ASSUME NEW plan, NEW lib, Ready(plan, lib)
  PROVE  Named(Expansion(plan, lib)) = DOMAIN Expansion(plan, lib)
<1> DEFINE E == Expansion(plan, lib)
<1> SUFFICES ASSUME NEW x \in DOMAIN E PROVE E[x].name # Unnamed
  BY DEF Named
<1>1. PICK y \in DOMAIN plan :
        \/ ~Uses(plan[y]) /\ x = <<y, 0>>
        \/ Uses(plan[y]) /\ \E j \in DOMAIN lib[plan[y].use].steps : x = <<y, j>>
  BY NodeCases
<1>2. /\ plan[y].name \in Seq(Atom \cup {Injected})
      /\ plan[y].name # <<>> /\ plan[y].name # Unnamed
  BY StoredStepType DEF Ready, Sound
<1>3. CASE ~Uses(plan[y])
  <2>1. x = <<y, 0>>
    BY <1>1, <1>3
  <2>. QED  BY <1>2, <1>3, <2>1, OwnNode
<1>4. CASE Uses(plan[y])
  <2>1. PICK j \in DOMAIN lib[plan[y].use].steps : x = <<y, j>>
    BY <1>1, <1>4
  <2> DEFINE n == lib[plan[y].use].steps[j].name
  <2>2. n \in Seq(Atom \cup {Injected}) /\ n # <<>>
    BY <1>4, TemplateOf, NameType
  <2>3. E[x].name = Join(plan[y].name, n)
    BY <1>4, <2>1, TemplateNode
  <2>4. Join(plan[y].name, n) # <<>>
    BY <1>2, <2>2, ConcatSimplifications DEF Join
  <2>. QED  BY <2>3, <2>4, NameAssumption
<1>. QED  BY <1>3, <1>4

LEMMA RangeOfEach == \A S : Range(Each(S)) = S
BY DEF Range, Each

LEMMA EachIsNotEmpty == \A S : S # {} => Each(S) # <<>>
<1> SUFFICES ASSUME NEW S, S # {}, Each(S) = <<>> PROVE FALSE
  OBVIOUS
<1>1. DOMAIN Each(S) = S
  BY DEF Each
<1>2. DOMAIN Each(S) = {}
  <2>1. Len(Each(S)) = 0 /\ Each(S) \in Seq(S)
    BY EmptySeq
  <2>. QED  BY <2>1, LenProperties
<1>. QED  BY <1>1, <1>2

LEMMA ListIsEmpty == \A S : \A q \in Seq(S) : q # <<>> => Range(q) # {}
<1> SUFFICES ASSUME NEW S, NEW q \in Seq(S), q # <<>> PROVE Range(q) # {}
  OBVIOUS
<1>1. Len(q) \in Nat \ {0}
  BY EmptySeq
<1>2. 1 \in DOMAIN q
  BY <1>1, LenProperties
<1>. QED  BY <1>2 DEF Range

\* What a rewired entry waits for is a node, and comes from a step the entry names.
LEMMA RewiredNodes ==
  ASSUME NEW plan, NEW lib, Ready(plan, lib), NEW y \in DOMAIN plan,
         NEW m \in Rewired(plan, lib, plan[y])
  PROVE  \E z \in DOMAIN Expansion(plan, lib) :
           /\ Expansion(plan, lib)[z].name = m
           /\ z[1] \in DOMAIN plan
           /\ plan[z[1]].name \in Range(plan[y].dependsOn)
<1> DEFINE E == Expansion(plan, lib)
<1>1. PICK d \in Range(plan[y].dependsOn) : m \in RewiredEntry(plan, lib, d)
  BY DEF Rewired
<1>2. CASE \E x \in DOMAIN plan : plan[x].name = d /\ Uses(plan[x])
  <2>1. PICK w \in DOMAIN plan :
          /\ plan[w].name = d /\ Uses(plan[w])
          /\ m \in JoinAll(d, Terminals(lib[plan[w].use]))
    BY <1>1, <1>2 DEF RewiredEntry
  <2> DEFINE t == lib[plan[w].use]
  <2>2. PICK n \in Names(t.steps) : m = Join(d, n)
    BY <2>1 DEF JoinAll, Terminals
  <2>3. PICK j \in DOMAIN t.steps : t.steps[j].name = n
    BY <2>2 DEF Names, Named
  <2>4. <<w, j>> \in DOMAIN E /\ E[<<w, j>>].name = m
    BY <2>1, <2>2, <2>3, TemplateNode
  <2>. QED  BY <1>1, <2>1, <2>4
<1>3. CASE ~ \E x \in DOMAIN plan : plan[x].name = d /\ Uses(plan[x])
  <2>1. m = d
    BY <1>1, <1>3 DEF RewiredEntry
  <2>2. PICK w \in DOMAIN plan : plan[w].name = d
    BY <1>1 DEF Ready, Sound, R8, Names, Named
  <2>3. ~Uses(plan[w])
    BY <1>3, <2>2
  <2>4. <<w, 0>> \in DOMAIN E /\ E[<<w, 0>>].name = m
    BY <2>1, <2>2, <2>3, OwnNode
  <2>. QED  BY <1>1, <2>2, <2>4
<1>. QED  BY <1>2, <1>3

\* A step that waited for something still does.
LEMMA RewiredSome ==
  ASSUME NEW plan, NEW lib, Ready(plan, lib), NEW y \in DOMAIN plan,
         plan[y].dependsOn # <<>>
  PROVE  Rewired(plan, lib, plan[y]) # {}
<1>1. plan[y].dependsOn \in Seq(Name)
  BY StoredStepType DEF Ready, Sound
<1>2. PICK d : d \in Range(plan[y].dependsOn)
  BY <1>1, ListIsEmpty
<1>3. RewiredEntry(plan, lib, d) # {}
  <2>1. CASE \E x \in DOMAIN plan : plan[x].name = d /\ Uses(plan[x])
    <3>1. PICK w \in DOMAIN plan : plan[w].name = d /\ Uses(plan[w])
      BY <2>1
    <3>2. Terminals(lib[plan[w].use]) # {}
      BY <3>1, TemplateOf, HasTerminal
    <3>3. PICK n : n \in Terminals(lib[plan[w].use])
      BY <3>2
    <3>4. Join(d, n) \in RewiredEntry(plan, lib, d)
      BY <3>1, <3>3 DEF RewiredEntry, JoinAll
    <3>. QED  BY <3>4
  <2>2. CASE ~ \E x \in DOMAIN plan : plan[x].name = d /\ Uses(plan[x])
    BY <2>2 DEF RewiredEntry
  <2>. QED  BY <2>1, <2>2
<1>. QED  BY <1>2, <1>3 DEF Rewired

------------------------------------------------------------------------------
(* The rules on the expansion, one by one.                                    *)

\* What a node waits for: steps of its own template, or what its step waits for.
LEMMA NodeWaits ==
  ASSUME NEW plan, NEW lib, Ready(plan, lib), NEW x \in DOMAIN Expansion(plan, lib),
         NEW m \in Range(Expansion(plan, lib)[x].dependsOn)
  PROVE  LET E == Expansion(plan, lib)
             y == x[1]
         IN  /\ y \in DOMAIN plan
             /\ \/ m \in Rewired(plan, lib, plan[y])
                \/ /\ Uses(plan[y])
                   /\ x[2] \in DOMAIN lib[plan[y].use].steps
                   /\ x = <<y, x[2]>>
                   /\ m \in JoinAll(plan[y].name,
                                    Range(lib[plan[y].use].steps[x[2]].dependsOn))
<1> DEFINE E == Expansion(plan, lib)
<1>1. PICK y \in DOMAIN plan :
        \/ ~Uses(plan[y]) /\ x = <<y, 0>>
        \/ Uses(plan[y]) /\ \E j \in DOMAIN lib[plan[y].use].steps : x = <<y, j>>
  BY NodeCases
<1>2. x[1] = y
  BY <1>1
<1>3. CASE ~Uses(plan[y])
  <2>1. E[x].dependsOn = Each(Rewired(plan, lib, plan[y]))
    BY <1>1, <1>3, OwnNode
  <2>2. m \in Rewired(plan, lib, plan[y])
    BY <2>1, RangeOfEach
  <2>. QED  BY <1>2, <2>2
<1>4. CASE Uses(plan[y])
  <2>1. PICK j \in DOMAIN lib[plan[y].use].steps : x = <<y, j>>
    BY <1>1, <1>4
  <2> DEFINE t == lib[plan[y].use].steps[j]
  <2>2. CASE Range(t.dependsOn) = {}
    <3>1. E[x].dependsOn = Each(Rewired(plan, lib, plan[y]))
      BY <1>4, <2>1, <2>2, TemplateNode
    <3>2. m \in Rewired(plan, lib, plan[y])
      BY <3>1, RangeOfEach
    <3>. QED  BY <1>2, <3>2
  <2>3. CASE Range(t.dependsOn) # {}
    <3>1. E[x].dependsOn = Each(JoinAll(plan[y].name, Range(t.dependsOn)))
      BY <1>4, <2>1, <2>3, TemplateNode
    <3>2. m \in JoinAll(plan[y].name, Range(t.dependsOn))
      BY <3>1, RangeOfEach
    <3>. QED  BY <1>2, <1>4, <2>1, <3>2
  <2>. QED  BY <2>2, <2>3
<1>. QED  BY <1>3, <1>4

\* R8: every reference still names a step.
LEMMA ExpansionResolves ==
  ASSUME NEW plan, NEW lib, Ready(plan, lib)
  PROVE  R8(Expansion(plan, lib))
<1> DEFINE E == Expansion(plan, lib)
<1> SUFFICES ASSUME NEW x \in DOMAIN E, NEW m \in Range(E[x].dependsOn)
             PROVE  \E z \in DOMAIN E : E[z].name = m
  BY NodeNames DEF R8, Names
<1> DEFINE y == x[1]
<1>1. CASE m \in Rewired(plan, lib, plan[y])
  BY <1>1, NodeWaits, RewiredNodes
<1>2. CASE m \notin Rewired(plan, lib, plan[y])
  <2> DEFINE t == lib[plan[y].use]
             j == x[2]
  <2>1. /\ y \in DOMAIN plan /\ Uses(plan[y]) /\ j \in DOMAIN t.steps
        /\ m \in JoinAll(plan[y].name, Range(t.steps[j].dependsOn))
    BY <1>2, NodeWaits
  <2>2. PICK n \in Range(t.steps[j].dependsOn) : m = Join(plan[y].name, n)
    BY <2>1 DEF JoinAll
  <2>3. StepsAccepted(t.steps)
    BY <2>1, TemplateOf
  <2>4. PICK h \in DOMAIN t.steps : t.steps[h].name = n
    BY <2>1, <2>2, <2>3 DEF StepsAccepted, NamedThroughout, GraphChecks, OtherGraphChecks, R8, Names, Named
  <2>5. /\ <<y, h>> \in DOMAIN E
        /\ E[<<y, h>>].name = Join(plan[y].name, t.steps[h].name)
    <3>1. y \in DOMAIN plan /\ Uses(plan[y])
      BY <2>1
    <3> HIDE DEF y, E
    <3>2. h \in DOMAIN lib[plan[y].use].steps
      OBVIOUS
    <3>3. /\ <<y, h>> \in DOMAIN Expansion(plan, lib)
          /\ Expansion(plan, lib)[<<y, h>>].name = Join(plan[y].name, lib[plan[y].use].steps[h].name)
      BY <3>1, <3>2, TemplateNodeName
    <3>. QED  BY <3>3 DEF E
  <2>. QED  BY <2>2, <2>4, <2>5
<1>. QED  BY <1>1, <1>2

\* R13: a gate waits for something and says what it validates; nothing else does.
LEMMA ExpansionGates ==
  ASSUME NEW plan, NEW lib, Ready(plan, lib)
  PROVE  R13(Expansion(plan, lib))
<1> DEFINE E == Expansion(plan, lib)
<1> SUFFICES ASSUME NEW x \in DOMAIN E
             PROVE  IF E[x].fanIn THEN E[x].dependsOn # <<>> /\ E[x].validates
                                  ELSE ~E[x].validates
  BY DEF R13
<1>1. PICK y \in DOMAIN plan :
        \/ ~Uses(plan[y]) /\ x = <<y, 0>>
        \/ Uses(plan[y]) /\ \E j \in DOMAIN lib[plan[y].use].steps : x = <<y, j>>
  BY NodeCases
<1>2. CASE ~Uses(plan[y])
  <2>1. /\ E[x].fanIn = plan[y].fanIn /\ E[x].validates = plan[y].validates
        /\ E[x].dependsOn = Each(Rewired(plan, lib, plan[y]))
    BY <1>1, <1>2, OwnNode
  <2>2. IF plan[y].fanIn THEN plan[y].dependsOn # <<>> /\ plan[y].validates
                         ELSE ~plan[y].validates
    BY DEF Ready, Sound, R13
  <2>3. plan[y].dependsOn # <<>> => E[x].dependsOn # <<>>
    BY <2>1, RewiredSome, EachIsNotEmpty
  <2>. QED  BY <2>1, <2>2, <2>3
<1>3. CASE Uses(plan[y])
  <2>1. PICK j \in DOMAIN lib[plan[y].use].steps : x = <<y, j>>
    BY <1>1, <1>3
  <2> DEFINE t == lib[plan[y].use].steps[j]
  <2>2. /\ E[x].fanIn = t.fanIn /\ E[x].validates = t.validates
        /\ Range(t.dependsOn) # {} =>
             E[x].dependsOn = Each(JoinAll(plan[y].name, Range(t.dependsOn)))
    BY <1>3, <2>1, TemplateNode
  <2>3. t.dependsOn \in Seq(Name) /\ StepsAccepted(lib[plan[y].use].steps)
    BY <1>3, <2>1, TemplateOf
  <2>4. IF t.fanIn THEN t.dependsOn # <<>> /\ t.validates ELSE ~t.validates
    BY <2>1, <2>3 DEF StepsAccepted, NamedThroughout, GraphChecks, OtherGraphChecks, R13
  <2>5. ASSUME t.dependsOn # <<>> PROVE E[x].dependsOn # <<>>
    <3>1. PICK n : n \in Range(t.dependsOn)
      BY <2>3, <2>5, ListIsEmpty
    <3>2. Join(plan[y].name, n) \in JoinAll(plan[y].name, Range(t.dependsOn))
      BY <3>1 DEF JoinAll
    <3>. QED  BY <2>2, <3>1, <3>2, EachIsNotEmpty
  <2>. QED  BY <2>2, <2>4, <2>5
<1>. QED  BY <1>2, <1>3

\* R17: there is no trigger left.
LEMMA ExpansionTriggers ==
  ASSUME NEW plan, NEW lib, Ready(plan, lib)
  PROVE  R17(Expansion(plan, lib))
<1> DEFINE E == Expansion(plan, lib)
<1> SUFFICES ASSUME NEW x \in DOMAIN E PROVE E[x].trigger = NoTrigger
  BY DEF R17
<1>1. PICK y \in DOMAIN plan :
        \/ ~Uses(plan[y]) /\ x = <<y, 0>>
        \/ Uses(plan[y]) /\ \E j \in DOMAIN lib[plan[y].use].steps : x = <<y, j>>
  BY NodeCases
<1>. QED  BY <1>1, OwnNode, TemplateNode

\* R11.  Of the steps some node of S comes from, one waits for none of the others; and
\* if it is a use-step, of its template's steps in S one waits for none of the others.
LEMMA ExpansionIsAcyclic ==
  ASSUME NEW plan, NEW lib, Ready(plan, lib), DistinctNames(Expansion(plan, lib))
  PROVE  Acyclic(Expansion(plan, lib))
<1> DEFINE E == Expansion(plan, lib)
<1>1. \A x, z \in DOMAIN E : E[x].name = E[z].name => x = z
  BY NodeNames DEF DistinctNames
<1> SUFFICES ASSUME NEW S \in SUBSET Names(E), S # {}
             PROVE  \E n \in S : \A m \in S : ~DependsOn(E, n, m)
  BY DEF Acyclic
<1> DEFINE N == {x \in DOMAIN E : E[x].name \in S}
           P == {plan[x[1]].name : x \in N}
<1>2. N # {} /\ \A m \in S : \E z \in N : E[z].name = m
  <2> HIDE DEF E
  <2>. QED  BY DEF Names, Named
<1>3. \A x \in N : x[1] \in DOMAIN plan
  <2> SUFFICES ASSUME NEW x \in DOMAIN E PROVE x[1] \in DOMAIN plan
    OBVIOUS
  <2>. QED  BY NodeCases
<1>4. PICK o \in P : \A p \in P : ~DependsOn(plan, o, p)
  <2>1. \A y \in DOMAIN plan : plan[y].name # Unnamed
    BY StoredStepType DEF Ready, Sound
  <2>2. P \in SUBSET Names(plan) /\ P # {}
    BY <1>2, <1>3, <2>1 DEF Names, Named
  <2>. QED  BY <2>2 DEF Ready, Sound, R11, Acyclic
<1>5. PICK x \in N : plan[x[1]].name = o
  BY <1>4
\* Nothing a node of that step inherits from it is in S.
<1>6. ASSUME NEW m \in S PROVE m \notin Rewired(plan, lib, plan[x[1]])
  <2> SUFFICES ASSUME m \in Rewired(plan, lib, plan[x[1]]) PROVE FALSE
    OBVIOUS
  <2>1. x[1] \in DOMAIN plan
    BY <1>3
  <2> HIDE DEF P, N
  <2>2. PICK z \in DOMAIN E :
          E[z].name = m /\ z[1] \in DOMAIN plan /\ plan[z[1]].name \in Range(plan[x[1]].dependsOn)
    BY <2>1, RewiredNodes
  <2>3. plan[z[1]].name \in P
    BY <2>2 DEF P, N
  <2>4. x[1] \in Named(plan)
    BY <2>1, StoredStepType DEF Ready, Sound, Named
  <2>5. DependsOn(plan, o, plan[z[1]].name)
    BY <1>5, <2>2, <2>4 DEF DependsOn
  <2>. QED  BY <1>4, <2>3, <2>5
<1>7. CASE ~Uses(plan[x[1]])
  <2>1. ASSUME NEW m \in S, DependsOn(E, E[x].name, m) PROVE FALSE
    <3>1. m \in Range(E[x].dependsOn)
      BY <1>1, <2>1 DEF DependsOn, Named
    <3>2. m \in Rewired(plan, lib, plan[x[1]])
      BY <1>7, <3>1, NodeWaits
    <3>. QED  BY <1>6, <3>2
  <2>. QED  BY <2>1
<1>8. CASE Uses(plan[x[1]])
  <2> DEFINE y == x[1]
             t == lib[plan[y].use]
             L == {z \in N : z[1] = y}
             T == {t.steps[z[2]].name : z \in L}
  <2>1. y \in DOMAIN plan /\ StepsAccepted(t.steps)
    BY <1>3, <1>8, TemplateOf
  <2>2. \A z \in L : z[2] \in DOMAIN t.steps /\ z = <<y, z[2]>>
    <3> SUFFICES ASSUME NEW z \in DOMAIN E, z[1] = y
                 PROVE  z[2] \in DOMAIN t.steps /\ z = <<y, z[2]>>
      OBVIOUS
    <3>1. PICK w \in DOMAIN plan :
            \/ ~Uses(plan[w]) /\ z = <<w, 0>>
            \/ Uses(plan[w]) /\ \E j \in DOMAIN lib[plan[w].use].steps : z = <<w, j>>
      BY NodeCases
    <3>2. w = y
      BY <3>1
    <3>. QED  BY <1>8, <3>1, <3>2
  <2>3. PICK l \in T : \A k \in T : ~DependsOn(t.steps, l, k)
    <3>1. T # {} /\ T \in SUBSET Names(t.steps)
      BY <2>1, <2>2 DEF StepsAccepted, NamedThroughout, Names
    <3>. QED  BY <2>1, <3>1 DEF StepsAccepted, NamedThroughout, GraphChecks, OtherGraphChecks, R11, Acyclic
  <2>4. PICK z \in L : t.steps[z[2]].name = l
    BY <2>3
  <2>5. ASSUME NEW m \in S, DependsOn(E, E[z].name, m) PROVE FALSE
    <3>1. m \in Range(E[z].dependsOn)
      BY <1>1, <2>5 DEF DependsOn, Named
    <3>2. m \in JoinAll(plan[y].name, Range(t.steps[z[2]].dependsOn))
      BY <1>6, <3>1, NodeWaits
    <3>3. PICK k \in Range(t.steps[z[2]].dependsOn) : m = Join(plan[y].name, k)
      BY <3>2 DEF JoinAll
    <3>4. PICK h \in DOMAIN t.steps : t.steps[h].name = k
      BY <2>1, <2>2, <3>3, ZenonT(30) DEF StepsAccepted, NamedThroughout, GraphChecks, OtherGraphChecks, R8, Names, Named
    <3>5. <<y, h>> \in DOMAIN E /\ E[<<y, h>>].name = m
      <4>1. Uses(plan[y])
        BY <1>8
      <4> HIDE DEF y, E
      <4>2. h \in DOMAIN lib[plan[y].use].steps
        OBVIOUS
      <4>3. /\ <<y, h>> \in DOMAIN Expansion(plan, lib)
            /\ Expansion(plan, lib)[<<y, h>>].name
                 = Join(plan[y].name, lib[plan[y].use].steps[h].name)
        BY <2>1, <4>1, <4>2, TemplateNodeName
      <4>. QED  BY <3>3, <3>4, <4>3 DEF E
    <3>6. <<y, h>> \in L
      BY <3>5
    <3>7. k \in T
      <4>1. <<y, h>>[2] = h
        OBVIOUS
      <4> HIDE DEF L, t
      <4>. QED  BY <3>4, <3>6, <4>1
    <3>8. DependsOn(t.steps, l, k)
      BY <2>1, <2>2, <2>4, <3>3 DEF DependsOn, StepsAccepted, NamedThroughout
    <3>. QED  BY <2>3, <3>7, <3>8
  <2>. QED  BY <2>4, <2>5
<1>. QED  BY <1>7, <1>8

\* What the gate's rules on plans and on templates are worth together: whatever plan
\* is stored and whatever good templates it finds, the graph the controller gets
\* breaks none of the rules, unless two of its names meet.
THEOREM ExpansionSound ==
  ASSUME NEW plan, NEW lib, Ready(plan, lib), DistinctNames(Expansion(plan, lib))
  PROVE  GraphChecks(Expansion(plan, lib))
<1> DEFINE E == Expansion(plan, lib)
<1>1. R8(E) /\ R13(E) /\ R17(E) /\ Acyclic(E)
  BY ExpansionResolves, ExpansionGates, ExpansionTriggers, ExpansionIsAcyclic
<1>2. R12(E)
  <2> SUFFICES ASSUME NEW x \in Named(E), E[x].name \in Range(E[x].dependsOn) PROVE FALSE
    BY DEF R12
  <2> HIDE DEF E
  <2>1. {E[x].name} \in SUBSET Names(E) /\ DependsOn(E, E[x].name, E[x].name)
    BY DEF Names, DependsOn
  <2>. QED  BY <1>1, <2>1 DEF Acyclic
<1>. QED  BY <1>1, <1>2 DEF GraphChecks, OtherGraphChecks, R7, R11

------------------------------------------------------------------------------
(* What plan-api stores of a plan the gate has accepted.                      *)

LEMMA PlanStepType ==
  ASSUME NEW doc \in PlanDoc, NEW i \in DOMAIN doc.steps, StepsAccepted(doc.steps)
  PROVE  /\ doc.steps[i] \in PlanStep
         /\ doc.steps[i].name \in Name
         /\ doc.steps[i].dependsOn \in Seq(Name)
<1>1. doc.steps \in Seq(PlanStep)
  BY DEF PlanDoc
<1>2. doc.steps[i] \in PlanStep
  BY <1>1, LenProperties
<1>3. doc.steps[i].name # Unnamed
  BY DEF StepsAccepted, NamedThroughout, Named
<1>. QED  BY <1>2, <1>3 DEF PlanStep, StepNamed

\* An author's step, as it is stored.
LEMMA OwnStep ==
  ASSUME NEW doc \in PlanDoc, NEW i \in DOMAIN doc.steps, StepsAccepted(doc.steps)
  PROVE  LET r == Submission(doc.steps)[<<i, "own">>]
             s == doc.steps[i]
         IN  /\ <<i, "own">> \in DOMAIN Submission(doc.steps)
             /\ r \in StoredStep
             /\ r.name = s.name /\ r.dependsOn = s.dependsOn /\ r.use = s.use
             /\ r.with = s.with /\ r.fanIn = s.fanIn /\ r.validates = s.validates
             /\ r.agent = s.agent /\ r.kind = s.kind /\ r.repo = s.repo
             /\ r.inputs = s.inputs
<1> DEFINE s == doc.steps[i]
<1>1. /\ <<i, "own">> \in DOMAIN Submission(doc.steps)
      /\ Submission(doc.steps)[<<i, "own">>] = [s EXCEPT !.trigger = NoTrigger]
  BY DEF Submission, ProjectStep
<1>2. s \in PlanStep /\ s.name \in Name
  BY PlanStepType
<1>3. s.name \in Seq(Atom \cup {Injected}) \ {<<>>}
  BY <1>2, NameType
<1> HIDE DEF s
<1>4. [s EXCEPT !.trigger = NoTrigger] \in StoredStep
  BY <1>2, <1>3 DEF PlanStep, StepNamed, StoredStep
<1>. QED  BY <1>1, <1>2, <1>4 DEF s, PlanStep, StepNamed

\* The verification injected after it.
LEMMA InjectedStep ==
  ASSUME NEW doc \in PlanDoc, NEW i \in DOMAIN doc.steps, StepsAccepted(doc.steps),
         DeployableStep(doc.steps[i])
  PROVE  LET r == Submission(doc.steps)[<<i, "verify">>]
             s == doc.steps[i]
         IN  /\ <<i, "verify">> \in DOMAIN Submission(doc.steps)
             /\ r \in StoredStep
             /\ r.name = Join(s.name, <<Injected>>) /\ Range(r.dependsOn) = {s.name}
             /\ r.use = Verify /\ r.with = Param
             /\ ~r.fanIn /\ ~r.validates
             /\ r.agent = NoAgent
<1> DEFINE s == doc.steps[i]
           r == Submission(doc.steps)[<<i, "verify">>]
<1>1. /\ <<i, "verify">> \in DOMAIN Submission(doc.steps)
      /\ r = VerifyStep(ProjectStep(s))
  BY DEF Submission
<1>2. s \in PlanStep /\ s.name \in Name /\ ~s.fanIn
  BY PlanStepType DEF DeployableStep, Concrete
<1>3. s.name \in Seq(Atom \cup {Injected}) /\ s.name # <<>>
  BY <1>2, NameType
<1>4. Join(s.name, <<Injected>>) \in Seq(Atom \cup {Injected}) \ {<<>>}
  <2>1. <<Injected>> \in Seq(Atom \cup {Injected})
    OBVIOUS
  <2>. QED  BY <1>3, <2>1, ConcatProperties, ConcatSimplifications DEF Join
<1>5. <<s.name>> \in Seq(Name) /\ Range(<<s.name>>) = {s.name}
  BY <1>2 DEF Range
<1> HIDE DEF s
<1>6. /\ VerifyStep(ProjectStep(s)).name = Join(s.name, <<Injected>>)
      /\ VerifyStep(ProjectStep(s)).dependsOn = <<s.name>>
      /\ VerifyStep(ProjectStep(s)).use = Verify
      /\ VerifyStep(ProjectStep(s)).with = Param
      /\ ~VerifyStep(ProjectStep(s)).fanIn
      /\ ~VerifyStep(ProjectStep(s)).validates
      /\ VerifyStep(ProjectStep(s)).agent = NoAgent
  BY <1>2 DEF PlanStep, StepNamed, VerifyStep, ProjectStep
<1>7. VerifyStep(ProjectStep(s)) \in StoredStep
  <2> DEFINE r2 == [name |-> Join(s.name, <<Injected>>), dependsOn |-> <<s.name>>,
                    trigger |-> NoTrigger, fanIn |-> s.fanIn, validates |-> FALSE,
                    use |-> Verify, with |-> Param, sha |-> s.sha, kind |-> "none",
                    agent |-> NoAgent, repo |-> NoRepo, inputs |-> s.inputs,
                    declares |-> s.declares]
  <2> DEFINE p == ProjectStep(s)
  <2>4. /\ p \in StepNamed(Name \cup {Unnamed}, {NoTrigger})
        /\ p.name = s.name /\ p.fanIn = s.fanIn /\ p.sha = s.sha
        /\ p.inputs = s.inputs /\ p.declares = s.declares
    BY <1>2 DEF PlanStep, StepNamed, ProjectStep
  <2>1. VerifyStep(p) = r2
    <3> HIDE DEF p
    <3>1. /\ VerifyStep(p).name = r2.name /\ VerifyStep(p).dependsOn = r2.dependsOn
          /\ VerifyStep(p).trigger = r2.trigger /\ VerifyStep(p).fanIn = r2.fanIn
          /\ VerifyStep(p).validates = r2.validates /\ VerifyStep(p).use = r2.use
          /\ VerifyStep(p).with = r2.with /\ VerifyStep(p).sha = r2.sha
          /\ VerifyStep(p).kind = r2.kind /\ VerifyStep(p).agent = r2.agent
          /\ VerifyStep(p).repo = r2.repo /\ VerifyStep(p).inputs = r2.inputs
          /\ VerifyStep(p).declares = r2.declares
      BY <2>4 DEF StepNamed, VerifyStep
    <3>2. VerifyStep(p) = [x \in DOMAIN p |-> VerifyStep(p)[x]]
      BY <2>4 DEF StepNamed, VerifyStep
    <3>3. r2 = [x \in DOMAIN p |-> r2[x]]
      BY <2>4 DEF StepNamed
    <3>4. DOMAIN p = {"name", "dependsOn", "trigger", "fanIn", "validates", "use", "with", "sha",
                      "kind", "agent", "repo", "inputs", "declares"}
      BY <2>4 DEF StepNamed
    <3> HIDE DEF r2
    <3>. QED  BY <3>1, <3>2, <3>3, <3>4
  <2>2. /\ s.fanIn \in BOOLEAN /\ s.sha \in {"none", "commit", "other"}
        /\ s.inputs \in Inputs /\ s.declares \in SUBSET {"runtime", "unknown", "misdirected"}
    BY <1>2 DEF PlanStep, StepNamed
  <2>3. r2 \in StoredStep
    BY <1>4, <1>5, <2>2, LintAssumption DEF StepNamed, StoredStep
  <2>. QED  BY <2>1, <2>3
<1>. QED  BY <1>1, <1>5, <1>6, <1>7 DEF s

LEMMA SubmissionCases ==
  ASSUME NEW steps, NEW x \in DOMAIN Submission(steps)
  PROVE  \E i \in DOMAIN steps :
           \/ x = <<i, "own">>
           \/ x = <<i, "verify">> /\ DeployableStep(steps[i])
BY DEF Submission

\* An injected step is named like no step of the author's.
LEMMA InjectedNameIsNew ==
  ASSUME NEW n \in Name, NEW m \in Name
  PROVE  Join(n, <<Injected>>) # m
<1> SUFFICES ASSUME n \o <<Injected>> = m PROVE FALSE
  BY DEF Join
<1>1. n \in Seq(Atom \cup {Injected}) /\ Len(n) \in Nat
  BY NameType, LenProperties
<1>2. <<Injected>> \in Seq(Atom \cup {Injected}) /\ Len(<<Injected>>) = 1
  OBVIOUS
<1>3. Len(m) = Len(n) + 1 /\ m[Len(n) + 1] = Injected
  BY <1>1, <1>2, ConcatProperties
<1>4. m \in Seq(Atom)
  BY NameAssumption
<1>5. m[Len(n) + 1] \in Atom
  BY <1>1, <1>3, <1>4, LenProperties
<1>. QED  BY <1>3, <1>5, InjectedAssumption

LEMMA JoinedNames ==
  ASSUME NEW n \in Name, NEW m \in Name, Join(n, <<Injected>>) = Join(m, <<Injected>>)
  PROVE  n = m
<1>1. n \in Seq(Atom \cup {Injected}) /\ m \in Seq(Atom \cup {Injected})
  BY NameType
<1>2. <<Injected>> \in Seq(Atom \cup {Injected})
  OBVIOUS
<1>. QED  BY <1>1, <1>2, ConcatSimplifications DEF Join

\* A stored plan is sound: the injected steps add neither a clash of names nor a
\* cycle, and projecting the author's steps takes nothing from the rules.
LEMMA SubmissionSound ==
  ASSUME NEW doc \in PlanDoc, NEW index, LintPlan(doc, index)
  PROVE  Sound(Submission(doc.steps))
<1> DEFINE steps == doc.steps
           W == Submission(steps)
<1>1. StepsAccepted(steps) /\ Named(steps) = DOMAIN steps
  BY DEF LintPlan, StepsAccepted, NamedThroughout
<1>2. \A i \in DOMAIN steps : steps[i].name \in Name
  BY <1>1, PlanStepType
<1>3. \A i \in DOMAIN steps :
        /\ <<i, "own">> \in DOMAIN W
        /\ W[<<i, "own">>].name = steps[i].name
        /\ W[<<i, "own">>].dependsOn = steps[i].dependsOn
        /\ W[<<i, "own">>].fanIn = steps[i].fanIn
        /\ W[<<i, "own">>].validates = steps[i].validates
  BY <1>1, OwnStep
<1>4. \A i \in DOMAIN steps : DeployableStep(steps[i]) =>
        /\ W[<<i, "verify">>].name = Join(steps[i].name, <<Injected>>)
        /\ Range(W[<<i, "verify">>].dependsOn) = {steps[i].name}
        /\ ~W[<<i, "verify">>].fanIn /\ ~W[<<i, "verify">>].validates
  BY <1>1, InjectedStep
<1>5. \A x \in DOMAIN W : W[x] \in StoredStep /\ W[x].name # Unnamed
  <2> SUFFICES ASSUME NEW x \in DOMAIN W PROVE W[x] \in StoredStep
    BY StoredStepType
  <2>1. PICK i \in DOMAIN steps :
          x = <<i, "own">> \/ (x = <<i, "verify">> /\ DeployableStep(steps[i]))
    BY SubmissionCases
  <2>. QED  BY <1>1, <2>1, OwnStep, InjectedStep
<1>6. \A x \in DOMAIN W : \E i \in DOMAIN steps :
        x = <<i, "own">> \/ (x = <<i, "verify">> /\ DeployableStep(steps[i]))
  BY SubmissionCases
<1> HIDE DEF W
<1>7. Named(W) = DOMAIN W /\ Names(W) = {W[x].name : x \in DOMAIN W}
  BY <1>5 DEF Named, Names
<1>8. Names(steps) \subseteq Names(W) /\ Names(steps) \subseteq Name
  BY <1>1, <1>2, <1>3, <1>7, ZenonT(30) DEF Names
<1>9. R7(W)
  <2> SUFFICES ASSUME NEW x \in DOMAIN W, NEW z \in DOMAIN W, W[x].name = W[z].name
               PROVE  x = z
    BY <1>7 DEF R7, DistinctNames
  <2>1. PICK i \in DOMAIN steps :
          x = <<i, "own">> \/ (x = <<i, "verify">> /\ DeployableStep(steps[i]))
    BY <1>6
  <2>2. PICK j \in DOMAIN steps :
          z = <<j, "own">> \/ (z = <<j, "verify">> /\ DeployableStep(steps[j]))
    BY <1>6
  <2>3. steps[i].name = steps[j].name => i = j
    BY <1>1 DEF StepsAccepted, NamedThroughout, GraphChecks, OtherGraphChecks, R7, DistinctNames
  <2>4. x[2] = z[2] /\ steps[i].name = steps[j].name
    BY <1>2, <1>3, <1>4, <2>1, <2>2, InjectedNameIsNew, JoinedNames
  <2>. QED  BY <2>1, <2>2, <2>3, <2>4
<1>10. R8(W)
  <2> SUFFICES ASSUME NEW x \in DOMAIN W PROVE Range(W[x].dependsOn) \subseteq Names(W)
    BY DEF R8
  <2>1. PICK i \in DOMAIN steps :
          x = <<i, "own">> \/ (x = <<i, "verify">> /\ DeployableStep(steps[i]))
    BY <1>6
  <2>2. steps[i].name \in Names(steps) /\ Range(steps[i].dependsOn) \subseteq Names(steps)
    BY <1>1 DEF StepsAccepted, NamedThroughout, GraphChecks, OtherGraphChecks, R8, Names
  <2>. QED  BY <1>3, <1>4, <1>8, <2>1, <2>2
<1>11. R13(W)
  <2> SUFFICES ASSUME NEW x \in DOMAIN W
               PROVE  IF W[x].fanIn THEN W[x].dependsOn # <<>> /\ W[x].validates
                                    ELSE ~W[x].validates
    BY DEF R13
  <2>1. PICK i \in DOMAIN steps :
          x = <<i, "own">> \/ (x = <<i, "verify">> /\ DeployableStep(steps[i]))
    BY <1>6
  <2>2. IF steps[i].fanIn THEN steps[i].dependsOn # <<>> /\ steps[i].validates
                          ELSE ~steps[i].validates
    BY <1>1 DEF StepsAccepted, NamedThroughout, GraphChecks, OtherGraphChecks, R13
  <2>. QED  BY <1>3, <1>4, <2>1, <2>2
<1>12. Acyclic(W)
  <2> SUFFICES ASSUME NEW S \in SUBSET Names(W), S # {}
               PROVE  \E n \in S : \A m \in S : ~DependsOn(W, n, m)
    BY DEF Acyclic
  <2>1. \A n, m : DependsOn(W, n, m) =>
          \E x \in DOMAIN W : W[x].name = n /\ m \in Range(W[x].dependsOn)
    BY <1>7 DEF DependsOn
  <2>2. CASE S \cap Names(steps) = {}
    <3> SUFFICES ASSUME NEW n \in S, NEW m \in S, DependsOn(W, n, m) PROVE FALSE
      OBVIOUS
    <3>1. PICK x \in DOMAIN W : W[x].name = n /\ m \in Range(W[x].dependsOn)
      BY <2>1
    <3>2. PICK i \in DOMAIN steps :
            x = <<i, "own">> \/ (x = <<i, "verify">> /\ DeployableStep(steps[i]))
      BY <1>6
    <3>3. steps[i].name \in Names(steps)
      BY <1>1 DEF Names
    <3>. QED  BY <1>3, <1>4, <2>2, <3>1, <3>2, <3>3
  <2>3. CASE S \cap Names(steps) # {}
    <3>1. PICK n \in S \cap Names(steps) :
            \A m \in S \cap Names(steps) : ~DependsOn(steps, n, m)
      BY <1>1, <2>3 DEF StepsAccepted, NamedThroughout, GraphChecks, OtherGraphChecks, R11, Acyclic
    <3>2. ASSUME NEW m \in S, DependsOn(W, n, m) PROVE FALSE
      <4>1. PICK x \in DOMAIN W : W[x].name = n /\ m \in Range(W[x].dependsOn)
        BY <2>1, <3>2
      <4>2. PICK i \in DOMAIN steps :
              x = <<i, "own">> \/ (x = <<i, "verify">> /\ DeployableStep(steps[i]))
        BY <1>6
      <4>3. n \in Name
        BY <1>8
      <4>4. x = <<i, "own">>
        BY <1>2, <1>4, <4>1, <4>2, <4>3, InjectedNameIsNew
      <4>5. steps[i].name = n /\ m \in Range(steps[i].dependsOn)
        BY <1>3, <4>1, <4>4
      <4>6. DependsOn(steps, n, m) /\ m \in Names(steps)
        BY <1>1, <4>5 DEF DependsOn, StepsAccepted, NamedThroughout, GraphChecks, OtherGraphChecks, R8
      <4>. QED  BY <3>1, <4>6
    <3>. QED  BY <3>1, <3>2
  <2>. QED  BY <2>2, <2>3
<1>. QED  BY <1>5, <1>9, <1>10, <1>11, <1>12 DEF Sound, R11, W

------------------------------------------------------------------------------
(* The system.  What the properties rest on is where the Plan object and its  *)
(* expansion came from: documents the gate has read together.                 *)

PlanInv ==
  submitted # NoPlan => \E doc \in SomePlans, index \in Linted :
    /\ LintPlan(doc, index)
    /\ submitted = Submission(doc.steps)
    /\ outcome = "none" => agreed = index

ExpansionInv ==
  outcome \notin {"none", "error"} =>
    /\ submitted # NoPlan
    /\ \E lib \in Linted : Expandable(submitted, lib) /\ expanded = Expansion(submitted, lib)

\* All that main has held was accepted when it was merged.
Vetted ==
  /\ merged \in [TemplateName -> SUBSET Versions]
  /\ \A n \in TemplateName : \A t \in merged[n] : t \in SomeTemplates[n] /\ LintTemplate(t)

Inv ==
  /\ Vetted
  /\ templates \in Linted /\ library \in Linted /\ agreed \in Linted
  /\ outcome \in Outcome
  /\ submitted = NoPlan => outcome = "none"
  /\ outcome \in {"none", "error"} <=> expanded = NoPlan
  /\ PlanInv
  /\ ExpansionInv

LEMMA NothingIsLinted == Nothing \in Linted
<1>1. Nothing \in [TemplateName -> Versions \cup {Absent}]
  BY DEF Nothing
<1>2. \A n \in TemplateName : Nothing[n] = Absent
  BY DEF Nothing
<1>. QED  BY <1>1, <1>2 DEF Linted, Catalogs, LintCatalog

LEMMA LintedIsGood ==
  ASSUME NEW lib \in Linted
  PROVE  GoodLibrary(lib) /\ lib \in Catalogs
<1>1. lib \in Catalogs /\ LintCatalog(lib, {})
  BY DEF Linted
<1>2. ASSUME NEW n \in TemplateName, lib[n] # Absent
      PROVE  /\ lib[n] \in Template /\ LintTemplate(lib[n])
             /\ \A j \in DOMAIN lib[n].steps : lib[n].steps[j].trigger = NoTrigger
  <2>1. lib[n] \in SomeTemplates[n] /\ SomeTemplates[n] \in SUBSET Template
    BY <1>1, <1>2, AdmissionAssumption DEF Catalogs
  <2>. QED  BY <1>1, <1>2, <2>1, AdmissionAssumption DEF LintCatalog
<1>. QED  BY <1>1, <1>2 DEF GoodLibrary

LEMMA InitInv == Init => Inv
<1>. SUFFICES ASSUME Init PROVE Inv
  OBVIOUS
<1>1. library = Nothing /\ Vetted
  BY DEF Init, Library!Init, Nothing, Vetted
<1>. QED  BY <1>1, NothingIsLinted DEF Init, Inv, Outcome, PlanInv, ExpansionInv

LEMMA MergeTemplatesVetted ==
  ASSUME Vetted, NEW ts \in Linted, MergeTemplates(ts)
  PROVE  Vetted'
<1>1. ASSUME NEW n \in TemplateName
      PROVE  /\ merged'[n] = merged[n] \cup ({ts[n]} \ {Absent})
             /\ ts[n] # Absent => /\ ts[n] \in Versions /\ ts[n] \in SomeTemplates[n]
                                 /\ LintTemplate(ts[n])
  BY <1>1 DEF MergeTemplates, Linted, Catalogs, LintCatalog
<1>2. \A n \in TemplateName : merged'[n] \subseteq Versions
  BY <1>1 DEF Vetted
<1>3. merged' \in [TemplateName -> SUBSET Versions]
  BY <1>2 DEF MergeTemplates
<1>. QED  BY <1>1, <1>3 DEF Vetted

\* A library of templates that main has held passes the gate as a whole.
LEMMA PublishLinted ==
  ASSUME Vetted, library \in Linted, Library!Publish
  PROVE  library' \in Linted
<1>1. library \in Catalogs /\ LintCatalog(library, {})
  BY DEF Linted
<1>2. ASSUME NEW n \in TemplateName, library'[n] # Absent
      PROVE  /\ library'[n] \in SomeTemplates[n] /\ library'[n] \in Versions
             /\ LintTemplate(library'[n])
  <2>1. library'[n] = library[n] \/ library'[n] \in merged[n]
    BY <1>2 DEF Library!Publish
  <2>2. CASE library'[n] = library[n]
    BY <1>1, <1>2, <2>2 DEF Catalogs, LintCatalog, Versions
  <2>3. CASE library'[n] \in merged[n]
    BY <2>3 DEF Vetted
  <2>. QED  BY <2>1, <2>2, <2>3
<1>3. library' \in [TemplateName -> Versions \cup {Absent}]
  BY <1>2 DEF Library!Publish
<1>. QED  BY <1>2, <1>3 DEF Linted, Catalogs, LintCatalog

LEMMA NextInv == Inv /\ [Next]_vars => Inv'
<1> SUFFICES ASSUME Inv, [Next]_vars PROVE Inv'
  OBVIOUS
<1>1. ASSUME NEW ts \in Linted, MergeTemplates(ts) PROVE Inv'
  <2>1. Vetted'
    BY <1>1, MergeTemplatesVetted DEF Inv
  <2>. QED  BY <1>1, <2>1 DEF Inv, MergeTemplates, PlanInv, ExpansionInv
<1>2. ASSUME NEW doc \in SomePlans, MergePlan(doc) PROVE Inv'
  <2>1. Submission(doc.steps) # NoPlan
    BY NoPlanAssumption
  <2>2. LintPlan(doc, templates)
    BY <1>2 DEF MergePlan, LintCatalog
  <2>4. outcome = "none" /\ templates \in Linted
    BY <1>2 DEF Inv, MergePlan
  <2>5. PlanInv'
    BY <1>2, <2>2, <2>4 DEF MergePlan, PlanInv
  <2>. QED  BY <1>2, <2>1, <2>4, <2>5 DEF Inv, Vetted, MergePlan, ExpansionInv
<1>3. CASE Sync
  <2>1. library' \in Linted
    BY <1>3, PublishLinted DEF Inv, Sync
  <2>2. merged' = merged
    BY <1>3 DEF Sync, Library!Publish
  <2>. QED  BY <1>3, <2>1, <2>2 DEF Inv, Vetted, Sync, PlanInv, ExpansionInv
<1>4. CASE Expand
  <2>1. PICK doc \in SomePlans : submitted = Submission(doc.steps)
    BY <1>4 DEF Expand, Inv, PlanInv
  <2>2. library \in Catalogs /\ library \in Linted /\ agreed' \in Linted
    BY <1>4, LintedIsGood, NothingIsLinted DEF Inv, Expand
  <2>3. Expandable(submitted, library) => Expansion(submitted, library) # NoPlan
    BY <2>1, <2>2, NoPlanAssumption
  <2>4. PlanInv'
    BY <1>4 DEF Expand, Inv, PlanInv
  <2>5. ExpansionInv'
    BY <1>4, <2>2 DEF Expand, ExpansionInv
  <2>6. outcome' \in {"none", "error"} <=> expanded' = NoPlan
    BY <1>4, <2>3 DEF Expand, Inv
  <2>. QED  BY <1>4, <2>2, <2>4, <2>5, <2>6 DEF Inv, Vetted, Expand, Outcome
<1>5. CASE Validate
  BY <1>5 DEF Inv, Vetted, Validate, PlanInv, ExpansionInv, Outcome
<1>6. CASE Delete
  BY <1>6, NothingIsLinted DEF Inv, Vetted, Delete, PlanInv, ExpansionInv, Outcome
<1>7. CASE UNCHANGED vars
  BY <1>7 DEF Inv, Vetted, vars, PlanInv, ExpansionInv
<1>. QED  BY <1>1, <1>2, <1>3, <1>4, <1>5, <1>6, <1>7 DEF Next

\* Whatever has happened to the catalog since, the Plan object is a plan the gate
\* accepted beside templates it accepted, and its expansion used such templates.
THEOREM Invariant == Spec => []Inv
<1>. QED  BY InitInv, NextInv, PTL DEF Spec

LEMMA LibraryStep == [Next]_vars => [Library!Next]_(Library!vars)
<1>. SUFFICES ASSUME [Next]_vars PROVE [Library!Next]_(Library!vars)
  OBVIOUS
<1>1. ASSUME NEW ts \in Linted, MergeTemplates(ts) PROVE Library!Next
  <2>1. ts \in [TemplateName -> Versions \cup {Absent}]
    BY DEF Linted, Catalogs
  <2>. QED  BY <1>1, <2>1 DEF MergeTemplates, Library!Merge, Library!Next
<1>2. CASE Sync
  BY <1>2 DEF Sync, Library!Next
<1>3. ASSUME \/ \E doc \in SomePlans : MergePlan(doc)
             \/ Expand \/ Validate \/ Delete \/ UNCHANGED vars
      PROVE  UNCHANGED Library!vars
  BY <1>3 DEF MergePlan, Expand, Validate, Delete, vars, Library!vars
<1>. QED  BY <1>1, <1>2, <1>3 DEF Next

\* The library plans are expanded with here is the one TemplateSync implements, so
\* that everything below holds whatever that script does.
THEOREM LibraryIsTheSyncs == Spec => Library!Spec
<1>1. Init => Library!Init
  BY DEF Init
<1>. QED  BY <1>1, LibraryStep, PTL DEF Spec, Library!Spec

\* A Plan object comes from a plan the gate accepted.
LEMMA Origin ==
  ASSUME Inv, submitted # NoPlan
  PROVE  \E doc \in SomePlans, index \in Linted :
           /\ doc \in PlanDoc
           /\ LintPlan(doc, index)
           /\ submitted = Submission(doc.steps)
           /\ outcome = "none" => agreed = index
BY AdmissionAssumption DEF Inv, PlanInv

\* TypeOK: what is stored of a plan is what a request can carry, no trigger among it.
THEOREM TypeCorrect == Spec => []TypeOK
<1>1. ASSUME Inv PROVE TypeOK
  <2>1. templates \in Catalogs /\ library \in Catalogs /\ agreed \in Catalogs
    BY <1>1, LintedIsGood DEF Inv
  <2>2. ASSUME submitted # NoPlan, NEW x \in DOMAIN submitted
        PROVE  submitted[x] \in StoredStep
    BY <1>1, <2>2, Origin, SubmissionSound DEF Sound
  <2>. QED  BY <1>1, <2>1, <2>2 DEF Inv, Vetted, TypeOK
<1>. QED  BY <1>1, Invariant, PTL

\* GraphSurvives: R7, R8, R11, R12 and R13, checked on plans and on templates before
\* anything is injected or expanded, hold of what the controller gets.
THEOREM GraphSurvivesCorrect == Spec => []GraphSurvives
<1>1. ASSUME Inv PROVE GraphSurvives
  <2> SUFFICES ASSUME outcome = "inlined", DistinctNames(expanded) PROVE GraphChecks(expanded)
    BY DEF GraphSurvives
  <2>1. PICK lib \in Linted : Expandable(submitted, lib) /\ expanded = Expansion(submitted, lib)
    BY <1>1 DEF Inv, ExpansionInv
  <2>2. Sound(submitted)
    BY <1>1, Origin, SubmissionSound DEF Inv, ExpansionInv
  <2>3. Ready(submitted, lib)
    BY <2>1, <2>2, LintedIsGood DEF Ready
  <2>. QED  BY <2>1, <2>3, ExpansionSound
<1>. QED  BY <1>1, Invariant, PTL

\* ExpandsAsReviewed: R16 over the templates beside the plan is enough.
THEOREM ExpandsAsReviewedCorrect == Spec => []ExpandsAsReviewed
<1>1. ASSUME Inv PROVE ExpandsAsReviewed
  <2> SUFFICES ASSUME submitted # NoPlan, outcome = "none", LibraryAsReviewed,
                      NEW x \in DOMAIN submitted, Uses(submitted[x])
               PROVE  /\ library[submitted[x].use] # Absent
                      /\ library[submitted[x].use].required \subseteq submitted[x].with
    BY DEF ExpandsAsReviewed, Expandable
  <2>1. PICK doc \in SomePlans, index \in Linted :
          /\ doc \in PlanDoc /\ LintPlan(doc, index)
          /\ submitted = Submission(doc.steps)
          /\ agreed = index
    BY <1>1, Origin
  <2>2. /\ library[submitted[x].use] # Absent
        /\ library[submitted[x].use] = index[submitted[x].use]
    BY <2>1 DEF LibraryAsReviewed
  <2>3. PICK i \in DOMAIN doc.steps :
          x = <<i, "own">> \/ (x = <<i, "verify">> /\ DeployableStep(doc.steps[i]))
    BY <2>1, SubmissionCases
  <2>4. StepsAccepted(doc.steps) /\ StepClean(doc.steps[i], index)
    BY <2>1 DEF LintPlan
  <2>5. CASE x = <<i, "own">>
    <3>1. submitted[x].use = doc.steps[i].use /\ submitted[x].with = doc.steps[i].with
      BY <2>1, <2>4, <2>5, OwnStep
    <3>. QED  BY <2>2, <2>4, <3>1 DEF StepClean, R16, Uses
  <2>6. CASE x = <<i, "verify">> /\ DeployableStep(doc.steps[i])
    <3>1. submitted[x].use = Verify /\ submitted[x].with = Param
      BY <2>1, <2>4, <2>6, InjectedStep
    <3>2. library[Verify] \in Template
      BY <1>1, <2>2, <3>1, LintedIsGood, LintAssumption DEF Inv, GoodLibrary
    <3>. QED  BY <2>2, <3>1, <3>2 DEF Template
  <2>. QED  BY <2>3, <2>5, <2>6
<1>. QED  BY <1>1, Invariant, PTL

\* VerifiedOnce: R23 and the injection agree on the steps to verify.
THEOREM VerifiedOnceCorrect == Spec => []VerifiedOnce
<1>1. ASSUME Inv PROVE VerifiedOnce
  <2> SUFFICES ASSUME submitted # NoPlan,
                      NEW x \in DOMAIN submitted, DeployableStep(submitted[x])
               PROVE  \E y \in DOMAIN submitted : \A z \in DOMAIN submitted :
                        (z = y) <=> /\ submitted[z].use = Verify
                                    /\ submitted[x].name \in Range(submitted[z].dependsOn)
    BY DEF VerifiedOnce
  <2>1. PICK doc \in SomePlans, index \in Linted :
          /\ doc \in PlanDoc /\ LintPlan(doc, index)
          /\ submitted = Submission(doc.steps)
    BY <1>1, Origin
  <2> DEFINE steps == doc.steps
  <2>2. StepsAccepted(steps) /\ Named(steps) = DOMAIN steps
    BY <2>1 DEF LintPlan, StepsAccepted, NamedThroughout
  <2>3. PICK i \in DOMAIN steps :
          x = <<i, "own">> \/ (x = <<i, "verify">> /\ DeployableStep(steps[i]))
    BY <2>1, SubmissionCases
  <2>4. x = <<i, "own">>
    <3>1. ~Uses(submitted[x])
      BY DEF DeployableStep, Concrete
    <3>2. x = <<i, "verify">> /\ DeployableStep(steps[i]) => submitted[x].use = Verify
      BY <2>1, <2>2, InjectedStep
    <3>. QED  BY <2>3, <3>1, <3>2, LintAssumption DEF Uses
  <2>5. submitted[x].name = steps[i].name /\ DeployableStep(steps[i])
    <3>1. /\ submitted[x].name = steps[i].name /\ submitted[x].use = steps[i].use
          /\ submitted[x].fanIn = steps[i].fanIn /\ submitted[x].kind = steps[i].kind
          /\ submitted[x].repo = steps[i].repo /\ submitted[x].inputs = steps[i].inputs
      BY <2>1, <2>2, <2>4, OwnStep
    <3>. QED  BY <3>1 DEF DeployableStep, Concrete, Uses
  <2>6. steps[i].name \in DeployableNames(steps)
    BY <2>2, <2>5 DEF DeployableNames, DeployableStep, StepTargetRepo
  <2> DEFINE y == <<i, "verify">>
  <2>7. /\ y \in DOMAIN submitted /\ submitted[y].use = Verify
        /\ Range(submitted[y].dependsOn) = {steps[i].name}
    BY <2>1, <2>2, <2>5, InjectedStep
  <2>8. ASSUME NEW z \in DOMAIN submitted, submitted[z].use = Verify,
               steps[i].name \in Range(submitted[z].dependsOn)
        PROVE  z = y
    <3>1. PICK k \in DOMAIN steps :
            z = <<k, "own">> \/ (z = <<k, "verify">> /\ DeployableStep(steps[k]))
      BY <2>1, SubmissionCases
    <3>2. z # <<k, "own">>
      <4> SUFFICES ASSUME z = <<k, "own">> PROVE FALSE
        OBVIOUS
      <4>1. submitted[z].use = steps[k].use /\ submitted[z].dependsOn = steps[k].dependsOn
        BY <2>1, <2>2, OwnStep
      <4>. QED  BY <2>1, <2>6, <2>8, <4>1 DEF LintPlan, R23
    <3>3. Range(submitted[z].dependsOn) = {steps[k].name}
      BY <2>1, <2>2, <3>1, <3>2, InjectedStep
    <3>4. k = i
      BY <2>2, <2>8, <3>3 DEF StepsAccepted, NamedThroughout, GraphChecks, OtherGraphChecks, R7, DistinctNames
    <3>. QED  BY <3>1, <3>2, <3>4
  <2>. QED  BY <2>5, <2>7, <2>8
<1>. QED  BY <1>1, Invariant, PTL

\* PrivilegeOnlyByTemplate: nothing between the gate and the controller gives a
\* plan's own step an agent or a repository its rules keep from it.
THEOREM PrivilegeOnlyByTemplateCorrect == Spec => []PrivilegeOnlyByTemplate
<1>1. ASSUME Inv PROVE PrivilegeOnlyByTemplate
  <2> SUFFICES ASSUME expanded # NoPlan, NEW x \in DOMAIN expanded, ~expanded[x].fanIn,
                      \/ expanded[x].agent \in InfraAgent
                      \/ StepTargetRepo(expanded[x]) \in GitOpsRepo,
                      ~Uses(submitted[x[1]])
               PROVE  FALSE
    BY DEF PrivilegeOnlyByTemplate
  <2>1. PICK lib \in Linted : Expandable(submitted, lib) /\ expanded = Expansion(submitted, lib)
    BY <1>1 DEF Inv, ExpansionInv
  <2>2. PICK doc \in SomePlans, index \in Linted :
          /\ doc \in PlanDoc /\ LintPlan(doc, index)
          /\ submitted = Submission(doc.steps)
    BY <1>1, Origin DEF Inv
  <2>3. Ready(submitted, lib)
    BY <2>1, <2>2, SubmissionSound, LintedIsGood DEF Ready
  <2>4. PICK y \in DOMAIN submitted : x = <<y, 0>> /\ ~Uses(submitted[y])
    BY <2>1, NodeCases
  <2>5. /\ expanded[x].fanIn = submitted[y].fanIn /\ expanded[x].agent = submitted[y].agent
        /\ expanded[x].repo = submitted[y].repo /\ expanded[x].inputs = submitted[y].inputs
    BY <2>1, <2>3, <2>4, OwnNode
  <2>6. StepsAccepted(doc.steps)
    BY <2>2 DEF LintPlan
  <2>7. PICK i \in DOMAIN doc.steps :
          y = <<i, "own">> \/ (y = <<i, "verify">> /\ DeployableStep(doc.steps[i]))
    BY <2>2, SubmissionCases
  <2>8. y = <<i, "own">>
    <3>1. y = <<i, "verify">> /\ DeployableStep(doc.steps[i]) => submitted[y].use = Verify
      BY <2>2, <2>6, InjectedStep
    <3>. QED  BY <2>4, <2>7, <3>1, LintAssumption DEF Uses
  <2>9. /\ submitted[y].fanIn = doc.steps[i].fanIn /\ submitted[y].agent = doc.steps[i].agent
        /\ submitted[y].repo = doc.steps[i].repo /\ submitted[y].inputs = doc.steps[i].inputs
        /\ submitted[y].use = doc.steps[i].use
    BY <2>2, <2>6, <2>8, OwnStep
  <2>10. Concrete(doc.steps[i]) /\ StepClean(doc.steps[i], index)
    BY <2>2, <2>4, <2>5, <2>9 DEF LintPlan, Concrete, Uses
  <2>. QED  BY <2>5, <2>9, <2>10 DEF StepClean, R22, R26, IsInfraAgent, StepTargetRepo
<1>. QED  BY <1>1, Invariant, PTL

==============================================================================
