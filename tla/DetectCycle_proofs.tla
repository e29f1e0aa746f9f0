----------------------- MODULE DetectCycle_proofs -----------------------
(***************************************************************************)
(* detectCycle is right: a list of steps with distinct names is reported   *)
(* acyclic only if it is, and any list cyclic only if it is.  The argument:*)
(* the grey names are the calls of visit in progress and form a path; a    *)
(* name is made black after every declared name it waits for, so the black *)
(* names are closed under waiting and no set of them waits for itself.     *)
(***************************************************************************)
EXTENDS DetectCycle, SequenceTheorems, FiniteSetTheorems, WellFoundedInduction, TLAPS

Black == {n \in Name : color[n] = "black"}

\* The first loop: what has been collected is what the list says.
Collected ==
  /\ \A n \in Name : n \in known <=> \E j \in DOMAIN order : order[j] = n
  /\ known = {steps[i].name : i \in {j \in Named(steps) : pc = "collect" => j < at}}
  /\ DistinctNames(steps) =>
       \A i \in Named(steps) :
         (pc = "collect" => i < at) => deps[steps[i].name] = steps[i].dependsOn
  /\ \A n \in known : \E i \in Named(steps) :
       steps[i].name = n /\ deps[n] = steps[i].dependsOn
  /\ pc = "collect" => stack = <<>> /\ \A n \in Name : color[n] = "white"

ColoursKnown == \A n \in Name : color[n] # "white" => n \in known

\* Grey is exactly "has a call in progress", and no name has two.
GreyIsStack ==
  /\ \A n \in Name : color[n] = "grey" <=> \E k \in DOMAIN stack : stack[k].name = n
  /\ \A j, k \in DOMAIN stack : stack[j].name = stack[k].name => j = k

\* Each call in progress waits on the entry it examined last.
StackIsPath ==
  \A k \in DOMAIN stack :
    /\ stack[k].next >= 1
    /\ k < Len(stack) =>
         /\ stack[k].next - 1 \in DOMAIN deps[stack[k].name]
         /\ deps[stack[k].name][stack[k].next - 1] = stack[k+1].name

\* The declared entries a call has passed are black, but for the one it waits on.
Explored ==
  \A k \in DOMAIN stack : \A i \in DOMAIN deps[stack[k].name] :
    i < stack[k].next /\ deps[stack[k].name][i] \in known =>
      \/ color[deps[stack[k].name][i]] = "black"
      \/ k < Len(stack) /\ i = stack[k].next - 1

BlackClosed ==
  \A n \in Black : \A i \in DOMAIN deps[n] : deps[n][i] \in known => deps[n][i] \in Black

BlackAcyclic ==
  \A S \in SUBSET Black :
    S # {} => \E n \in S : \A i \in DOMAIN deps[n] : deps[n][i] \notin S

RootsVisited ==
  pc = "search" => \A j \in DOMAIN order : j < at => color[order[j]] # "white"

ResultMeans ==
  /\ pc # "done" => result = "none"
  /\ result = "acyclic" => known \subseteq Black
  /\ result = "cycle" =>
       \E S \in SUBSET known :
         S # {} /\ \A n \in S : \E i \in DOMAIN deps[n] : deps[n][i] \in S

IInv ==
  /\ TypeOK
  /\ Collected
  /\ ColoursKnown
  /\ GreyIsStack
  /\ StackIsPath
  /\ Explored
  /\ BlackClosed
  /\ BlackAcyclic
  /\ RootsVisited
  /\ ResultMeans

------------------------------------------------------------------------------

\* The first entry of a nonempty set of steps, and what Top is.
LEMMA TopFacts ==
  ASSUME TypeOK, stack # <<>>
  PROVE  /\ Len(stack) \in DOMAIN stack
         /\ Len(stack) \in Nat \ {0}
         /\ Top \in Frame
         /\ Top = stack[Len(stack)]
<1>1. stack \in Seq(Frame)
  BY DEF TypeOK
<1>2. stack \in [1 .. Len(stack) -> Frame] /\ Len(stack) \in Nat \ {0}
  BY <1>1, EmptySeq, LenProperties
<1>. QED  BY <1>2 DEF Top

\* The stack after the innermost call has gone on to its next entry.
LEMMA AdvancedFacts ==
  ASSUME TypeOK, stack # <<>>
  PROVE  /\ Advanced \in Seq(Frame)
         /\ Len(Advanced) = Len(stack)
         /\ \A k \in 1 .. Len(stack) :
              /\ Advanced[k] \in Frame
              /\ Advanced[k].name = stack[k].name
              /\ Advanced[k].next = IF k = Len(stack) THEN stack[k].next + 1
                                                     ELSE stack[k].next
<1> DEFINE frame == [stack[Len(stack)] EXCEPT !.next = @ + 1]
<1>1. stack \in Seq(Frame) /\ Len(stack) \in 1 .. Len(stack)
  BY TopFacts DEF TypeOK
<1>2. \A k \in 1 .. Len(stack) : stack[k] \in Frame
  BY <1>1, LenProperties
<1>3. /\ frame \in Frame
      /\ frame.name = stack[Len(stack)].name
      /\ frame.next = stack[Len(stack)].next + 1
  BY <1>1, <1>2 DEF Frame
<1>4. Advanced = [stack EXCEPT ![Len(stack)] = frame]
  BY DEF Advanced
<1> HIDE DEF frame
<1>5. /\ Advanced \in Seq(Frame)
      /\ Len(Advanced) = Len(stack)
      /\ \A k \in 1 .. Len(stack) :
           Advanced[k] = IF k = Len(stack) THEN frame ELSE stack[k]
  BY <1>1, <1>3, <1>4, ExceptSeq
<1>. QED  BY <1>2, <1>3, <1>5

\* The stacks after the outermost call, after a nested call, and after a return.
LEMMA FirstCall ==
  ASSUME NEW n \in Name
  PROVE  LET s == <<[name |-> n, next |-> 1]>>
         IN  /\ s \in Seq(Frame)
             /\ Len(s) = 1
             /\ s[1].name = n
             /\ s[1].next = 1
<1> DEFINE frame == [name |-> n, next |-> 1]
<1>1. frame \in Frame /\ frame.name = n /\ frame.next = 1
  BY DEF Frame
<1> HIDE DEF frame
<1>2. /\ <<frame>> \in Seq(Frame)
      /\ Len(<<frame>>) = 1
      /\ <<frame>>[1] = frame
  BY <1>1
<1>. QED  BY <1>1, <1>2 DEF frame

LEMMA NestedCall ==
  ASSUME TypeOK, stack # <<>>, NEW n \in Name
  PROVE  LET s == Append(Advanced, [name |-> n, next |-> 1])
         IN  /\ s \in Seq(Frame)
             /\ Len(s) = Len(stack) + 1
             /\ \A k \in 1 .. Len(stack) : s[k] = Advanced[k]
             /\ s[Len(stack) + 1].name = n
             /\ s[Len(stack) + 1].next = 1
<1> DEFINE frame == [name |-> n, next |-> 1]
<1>1. frame \in Frame /\ frame.name = n /\ frame.next = 1
  BY DEF Frame
<1>2. Advanced \in Seq(Frame) /\ Len(Advanced) = Len(stack)
  BY AdvancedFacts
<1> HIDE DEF frame
<1>3. /\ Append(Advanced, frame) \in Seq(Frame)
      /\ Len(Append(Advanced, frame)) = Len(stack) + 1
      /\ \A k \in 1 .. Len(stack) : Append(Advanced, frame)[k] = Advanced[k]
      /\ Append(Advanced, frame)[Len(stack) + 1] = frame
  BY <1>1, <1>2, AppendProperties
<1>. QED  BY <1>1, <1>3 DEF frame

LEMMA CallReturned ==
  ASSUME TypeOK, stack # <<>>
  PROVE  LET s == SubSeq(stack, 1, Len(stack) - 1)
         IN  /\ s \in Seq(Frame)
             /\ Len(s) = Len(stack) - 1
             /\ \A k \in 1 .. Len(stack) - 1 : s[k] = stack[k]
<1> DEFINE m == Len(stack) - 1
<1>1. stack \in Seq(Frame) /\ m \in Nat
  BY TopFacts DEF TypeOK
<1>2. \A k \in 1 .. m : stack[k] \in Frame
  BY <1>1, LenProperties
<1> HIDE DEF m
<1>3. /\ SubSeq(stack, 1, m) \in Seq(Frame)
      /\ Len(SubSeq(stack, 1, m)) = IF 1 <= m THEN m - 1 + 1 ELSE 0
      /\ \A k \in 1 .. m - 1 + 1 : SubSeq(stack, 1, m)[k] = stack[1 + k - 1]
  BY <1>1, <1>2, SubSeqProperties, SMT
<1>4. /\ Len(SubSeq(stack, 1, m)) = m
      /\ \A k \in 1 .. m : SubSeq(stack, 1, m)[k] = stack[k]
  BY <1>1, <1>3
<1>. QED  BY <1>3, <1>4 DEF m

LEMMA TypeInit == Init => TypeOK
BY DEF Init, TypeOK

\* What one element of the list is.
LEMMA StepType ==
  ASSUME TypeOK, NEW i \in Named(steps)
  PROVE  /\ i \in DOMAIN steps
         /\ steps[i] \in Step
         /\ steps[i].name \in Name
         /\ steps[i].dependsOn \in Seq(Name)
<1>1. steps \in Seq(Step)
  BY StepsAssumption DEF TypeOK
<1>2. i \in DOMAIN steps /\ steps[i].name # Unnamed
  BY DEF Named
<1>3. steps[i] \in Step
  BY <1>1, <1>2, LenProperties
<1>. QED  BY <1>2, <1>3 DEF Step

LEMMA TypeNext == TypeOK /\ [Next]_vars => TypeOK'
<1> SUFFICES ASSUME TypeOK, [Next]_vars PROVE TypeOK'
  OBVIOUS
<1>1. CASE CollectNamed
  <2>1. steps[at].name \in Name /\ steps[at].dependsOn \in Seq(Name)
    BY <1>1, StepType DEF CollectNamed
  <2>. QED  BY <1>1, <2>1 DEF CollectNamed, TypeOK
<1>2. CASE SkipUnnamed
  BY <1>2 DEF SkipUnnamed, TypeOK
<1>3. CASE StartSearch
  BY <1>3 DEF StartSearch, TypeOK
<1>4. CASE VisitRoot
  <2>1. order[at] \in Name
    BY <1>4, LenProperties DEF VisitRoot, TypeOK
  <2>2. CASE color[order[at]] = "white"
    <3>2. stack' \in Seq(Frame)
      BY <1>4, <2>1, <2>2, FirstCall DEF VisitRoot
    <3>3. color' \in [Name -> {"white", "grey", "black"}]
      BY <1>4, <2>1, <2>2 DEF VisitRoot, TypeOK
    <3>. QED  BY <1>4, <3>2, <3>3 DEF VisitRoot, TypeOK
  <2>3. CASE color[order[at]] # "white"
    BY <1>4, <2>3 DEF VisitRoot, TypeOK
  <2>. QED  BY <2>2, <2>3
<1>5. ASSUME NEW dep \in Name, MeetsGrey(dep) PROVE TypeOK'
  BY <1>5 DEF MeetsGrey, TypeOK
<1>6. ASSUME NEW dep \in Name, Examining(dep)
      PROVE  Advanced \in Seq(Frame)
  BY <1>6, AdvancedFacts DEF Examining
<1>7. ASSUME NEW dep \in Name, Descends(dep) PROVE TypeOK'
  BY <1>7, NestedCall DEF Descends, Examining, TypeOK
<1>8. ASSUME NEW dep \in Name, PassesOver(dep) PROVE TypeOK'
  BY <1>6, <1>8 DEF PassesOver, TypeOK
<1>9. CASE Returns
  BY <1>9, CallReturned DEF Returns, TypeOK
<1>10. CASE Finish
  BY <1>10 DEF Finish, TypeOK
<1>11. CASE UNCHANGED vars
  BY <1>11 DEF vars, TypeOK
<1>. QED  BY <1>1, <1>2, <1>3, <1>4, <1>5, <1>7, <1>8, <1>9, <1>10, <1>11 DEF Next

\* Every state of detectCycle is well typed, for every set of step lists.
THEOREM TypeCorrect == Spec => []TypeOK
BY TypeInit, TypeNext, PTL DEF Spec

------------------------------------------------------------------------------
(* The invariant is inductive: one lemma per action, one step per conjunct.   *)

\* What the domains and elements of the sequences are in a state of the search.
LEMMA SearchFacts ==
  ASSUME IInv
  PROVE  /\ DOMAIN stack = 1 .. Len(stack) /\ Len(stack) \in Nat
         /\ \A k \in 1 .. Len(stack) : stack[k] \in Frame
         /\ DOMAIN order = 1 .. Len(order) /\ Len(order) \in Nat
         /\ \A j \in 1 .. Len(order) : order[j] \in Name
         /\ \A n \in Name : /\ DOMAIN deps[n] = 1 .. Len(deps[n])
                            /\ Len(deps[n]) \in Nat
                            /\ \A i \in 1 .. Len(deps[n]) : deps[n][i] \in Name
<1>1. stack \in Seq(Frame) /\ order \in Seq(Name) /\ \A n \in Name : deps[n] \in Seq(Name)
  BY DEF IInv, TypeOK
<1>2. DOMAIN stack = 1 .. Len(stack) /\ Len(stack) \in Nat
  BY <1>1, LenProperties
<1>3. \A k \in 1 .. Len(stack) : stack[k] \in Frame
  BY <1>1, ElementOfSeq
<1>4. DOMAIN order = 1 .. Len(order) /\ Len(order) \in Nat
  BY <1>1, LenProperties
<1>5. \A j \in 1 .. Len(order) : order[j] \in Name
  BY <1>1, ElementOfSeq
<1>6. \A n \in Name : DOMAIN deps[n] = 1 .. Len(deps[n]) /\ Len(deps[n]) \in Nat
  BY <1>1, LenProperties
<1>7. \A n \in Name : \A i \in 1 .. Len(deps[n]) : deps[n][i] \in Name
  BY <1>1, ElementOfSeq
<1>. QED  BY <1>2, <1>3, <1>4, <1>5, <1>6, <1>7

LEMMA StackIsNonEmpty ==
  ASSUME IInv, stack # <<>>
  PROVE  /\ Len(stack) \in 1 .. Len(stack)
         /\ Top = stack[Len(stack)]
         /\ Top \in Frame
         /\ Top.name \in Name
         /\ Top.next \in Nat
         /\ color[Top.name] = "grey"
         /\ Top.name \in known
<1>1. /\ Len(stack) \in 1 .. Len(stack)
      /\ Len(stack) \in DOMAIN stack
      /\ Top = stack[Len(stack)]
      /\ Top \in Frame
  BY TopFacts DEF IInv
<1>2. Top.name \in Name /\ Top.next \in Nat
  BY <1>1 DEF Frame
<1>3. color[Top.name] = "grey"
  BY <1>1, <1>2 DEF IInv, GreyIsStack
<1>4. Top.name \in known
  BY <1>2, <1>3 DEF IInv, ColoursKnown
<1>. QED  BY <1>1, <1>2, <1>3, <1>4

LEMMA IInit == Init => IInv
<1> SUFFICES ASSUME Init PROVE IInv
  OBVIOUS
<1>1. TypeOK
  BY TypeInit
<1>2. DOMAIN order = {} /\ DOMAIN stack = {}
  BY DEF Init
<1>3. \A i \in Named(steps) : ~(i < at)
  <2>1. steps \in Seq(Step)
    BY <1>1, StepsAssumption DEF TypeOK
  <2>. QED  BY <2>1, LenProperties DEF Init, Named
<1>4. Collected
  BY <1>1, <1>2, <1>3 DEF Init, Collected
<1>5. Black = {}
  BY DEF Init, Black
<1>6. ColoursKnown /\ GreyIsStack /\ StackIsPath /\ Explored
  BY <1>2 DEF Init, ColoursKnown, GreyIsStack, StackIsPath, Explored
<1>7. BlackClosed /\ BlackAcyclic
  BY <1>5 DEF BlackClosed, BlackAcyclic
<1>8. RootsVisited /\ ResultMeans
  BY DEF Init, RootsVisited, ResultMeans
<1>. QED  BY <1>1, <1>4, <1>6, <1>7, <1>8 DEF IInv

\* The search leaves what the first loop collected alone.
LEMMA CollectedKept ==
  ASSUME IInv, pc = "search", pc' # "collect", UNCHANGED <<steps, order, known, deps>>
  PROVE  Collected'
BY DEF IInv, Collected

LEMMA CollectNamedKeeps == IInv /\ CollectNamed => IInv'
<1> SUFFICES ASSUME IInv, CollectNamed PROVE IInv'
  OBVIOUS
<1> DEFINE new == steps[at].name
<1>1. TypeOK'
  BY TypeNext DEF IInv, Next
<1>2. /\ at \in Named(steps) /\ at \in Nat
      /\ new \in Name /\ steps[at].dependsOn \in Seq(Name)
  BY StepType DEF IInv, CollectNamed, TypeOK
<1>3. stack = <<>> /\ \A n \in Name : color[n] = "white"
  BY DEF IInv, Collected, CollectNamed
<1>4. Collected'
  <2>1. \A n \in Name : n \in known' <=> \E j \in DOMAIN order' : order'[j] = n
    <3> HIDE DEF new
    <3>1. order \in Seq(Name) /\ order' = Append(order, new)
      BY DEF IInv, TypeOK, CollectNamed, new
    <3>2. /\ DOMAIN order' = 1 .. Len(order) + 1
          /\ DOMAIN order = 1 .. Len(order) /\ Len(order) \in Nat
          /\ \A j \in 1 .. Len(order) : order'[j] = order[j]
          /\ order'[Len(order) + 1] = new
      BY <1>2, <3>1, AppendProperties, LenProperties
    <3>3. known' = known \cup {new}
      BY DEF CollectNamed, new
    <3>4. \A n \in Name : n \in known <=> \E j \in DOMAIN order : order[j] = n
      BY DEF IInv, Collected
    <3>. QED  BY <3>2, <3>3, <3>4
  <2>2. {j \in Named(steps) : j < at + 1} = {j \in Named(steps) : j < at} \cup {at}
    <3>1. Named(steps) \subseteq Nat
      <4>1. steps \in Seq(Step)
        BY StepsAssumption DEF IInv, TypeOK
      <4>. QED  BY <4>1, LenProperties DEF Named
    <3>. QED  BY <1>2, <3>1
  <2>3. known' = {steps[i].name : i \in {j \in Named(steps) : j < at + 1}}
    <3>1. known = {steps[i].name : i \in {j \in Named(steps) : j < at}}
      BY DEF IInv, Collected, CollectNamed
    <3>2. known' = known \cup {steps[at].name}
      BY DEF CollectNamed
    <3>. QED  BY <2>2, <3>1, <3>2
  <2>4. ASSUME DistinctNames(steps), NEW i \in Named(steps), i < at + 1
        PROVE  deps'[steps[i].name] = steps[i].dependsOn
    <3>1. deps' = [deps EXCEPT ![new] = steps[at].dependsOn] /\ deps \in [Name -> Seq(Name)]
      BY DEF IInv, TypeOK, CollectNamed
    <3>2. CASE i = at
      BY <1>2, <3>1, <3>2
    <3>3. CASE i # at
      <4>1. i < at
        BY <2>2, <2>4, <3>3
      <4>2. deps[steps[i].name] = steps[i].dependsOn
        BY <2>4, <4>1 DEF IInv, Collected, CollectNamed
      <4>3. steps[i].name # new /\ steps[i].name \in Name
        BY <1>2, <2>4, <3>3, StepType DEF DistinctNames, IInv
      <4>. QED  BY <3>1, <4>2, <4>3
    <3>. QED  BY <3>2, <3>3
  <2>5. pc' = "collect" /\ steps' = steps /\ at' = at + 1 /\ stack' = stack /\ color' = color
    BY DEF CollectNamed
  <2>6. ASSUME NEW n \in known'
        PROVE  \E i \in Named(steps) : steps[i].name = n /\ deps'[n] = steps[i].dependsOn
    <3>1. /\ deps' = [deps EXCEPT ![new] = steps[at].dependsOn] /\ deps \in [Name -> Seq(Name)]
          /\ known' = known \cup {new} /\ known \subseteq Name
      BY DEF IInv, TypeOK, CollectNamed, new
    <3>2. CASE n = new
      BY <1>2, <3>1, <3>2 DEF new
    <3>3. CASE n # new
      <4>1. n \in known /\ deps'[n] = deps[n]
        BY <2>6, <3>1, <3>3
      <4>. QED  BY <4>1 DEF IInv, Collected
    <3>. QED  BY <3>2, <3>3
  <2>. QED  BY <1>3, <2>1, <2>3, <2>4, <2>5, <2>6 DEF Collected
<1>5. Black' = {}
  BY <1>3 DEF CollectNamed, Black
<1>6. ColoursKnown' /\ GreyIsStack' /\ StackIsPath' /\ Explored'
  <2>1. DOMAIN stack' = {} /\ \A n \in Name : color'[n] = "white"
    BY <1>3 DEF CollectNamed
  <2>. QED  BY <2>1 DEF ColoursKnown, GreyIsStack, StackIsPath, Explored
<1>7. BlackClosed' /\ BlackAcyclic'
  BY <1>5 DEF BlackClosed, BlackAcyclic
<1>8. RootsVisited' /\ ResultMeans'
  BY DEF IInv, CollectNamed, RootsVisited, ResultMeans
<1>. QED  BY <1>1, <1>4, <1>6, <1>7, <1>8 DEF IInv

LEMMA SkipUnnamedKeeps == IInv /\ SkipUnnamed => IInv'
<1> SUFFICES ASSUME IInv, SkipUnnamed PROVE IInv'
  OBVIOUS
<1>1. TypeOK'
  BY TypeNext DEF IInv, Next
<1>2. {j \in Named(steps) : j < at + 1} = {j \in Named(steps) : j < at}
  <2>1. steps \in Seq(Step) /\ at \in Nat /\ at \notin Named(steps)
    BY StepsAssumption DEF IInv, TypeOK, SkipUnnamed
  <2>2. Named(steps) \subseteq Nat
    BY <2>1, LenProperties DEF Named
  <2>. QED  BY <2>1, <2>2
<1>3. Collected'
  BY <1>2 DEF IInv, Collected, SkipUnnamed
<1>4. ColoursKnown' /\ GreyIsStack' /\ StackIsPath' /\ Explored'
  BY DEF IInv, SkipUnnamed, ColoursKnown, GreyIsStack, StackIsPath, Explored
<1>5. BlackClosed' /\ BlackAcyclic'
  BY DEF IInv, SkipUnnamed, BlackClosed, BlackAcyclic, Black
<1>6. RootsVisited' /\ ResultMeans'
  BY DEF IInv, SkipUnnamed, RootsVisited, ResultMeans
<1>. QED  BY <1>1, <1>3, <1>4, <1>5, <1>6 DEF IInv

LEMMA StartSearchKeeps == IInv /\ StartSearch => IInv'
<1> SUFFICES ASSUME IInv, StartSearch PROVE IInv'
  OBVIOUS
<1>1. TypeOK'
  BY TypeNext DEF IInv, Next
<1>2. \A j \in Named(steps) : j < at
  <2>1. steps \in Seq(Step) /\ at \in Nat \ {0} /\ at \notin DOMAIN steps
    BY StepsAssumption DEF IInv, TypeOK, StartSearch
  <2>. QED  BY <2>1, LenProperties DEF Named
<1>3. Collected'
  BY <1>2 DEF IInv, Collected, StartSearch
<1>4. ColoursKnown' /\ GreyIsStack' /\ StackIsPath' /\ Explored'
  BY DEF IInv, StartSearch, ColoursKnown, GreyIsStack, StackIsPath, Explored
<1>5. BlackClosed' /\ BlackAcyclic'
  BY DEF IInv, StartSearch, BlackClosed, BlackAcyclic, Black
<1>6. RootsVisited'
  BY SearchFacts DEF StartSearch, RootsVisited
<1>7. ResultMeans'
  BY DEF IInv, StartSearch, ResultMeans
<1>. QED  BY <1>1, <1>3, <1>4, <1>5, <1>6, <1>7 DEF IInv

\* A root a search has been at: only the loop goes on.
LEMMA VisitRootKeeps == IInv /\ VisitRoot => IInv'
<1> SUFFICES ASSUME IInv, VisitRoot PROVE IInv'
  OBVIOUS
<1> DEFINE root == order[at]
<1>1. TypeOK'
  BY TypeNext DEF IInv, Next
<1>2. Collected'
  BY CollectedKept DEF VisitRoot
<1>3. root \in Name /\ root \in known
  <2>1. root \in Name
    BY SearchFacts DEF VisitRoot
  <2>. QED  BY <2>1 DEF IInv, Collected, VisitRoot
<1>4. RootsVisited'
  <2>1. /\ DOMAIN order = 1 .. Len(order) /\ at \in DOMAIN order /\ at' = at + 1
        /\ \A j \in 1 .. Len(order) : order[j] \in Name
    BY SearchFacts DEF VisitRoot
  <2>2. \A n \in Name : color[n] # "white" => color'[n] # "white"
    BY <1>3 DEF IInv, TypeOK, VisitRoot
  <2>3. color'[root] # "white"
    BY <1>3 DEF IInv, TypeOK, VisitRoot
  <2>. QED  BY <2>1, <2>2, <2>3 DEF IInv, RootsVisited, VisitRoot
<1>5. ResultMeans'
  BY DEF IInv, ResultMeans, VisitRoot
<1>6. CASE color[root] # "white"
  <2>1. ColoursKnown' /\ GreyIsStack' /\ StackIsPath' /\ Explored'
    BY <1>6 DEF IInv, VisitRoot, ColoursKnown, GreyIsStack, StackIsPath, Explored
  <2>2. BlackClosed' /\ BlackAcyclic'
    BY <1>6 DEF IInv, VisitRoot, BlackClosed, BlackAcyclic, Black
  <2>. QED  BY <1>1, <1>2, <1>4, <1>5, <2>1, <2>2 DEF IInv
<1>7. CASE color[root] = "white"
  <2>1. /\ color' = [color EXCEPT ![root] = "grey"]
        /\ color \in [Name -> {"white", "grey", "black"}]
        /\ stack = <<>> /\ DOMAIN stack = {}
        /\ known' = known /\ deps' = deps
    BY <1>7 DEF IInv, TypeOK, VisitRoot
  <2>2. DOMAIN stack' = {1} /\ stack'[1].name = root /\ stack'[1].next = 1 /\ Len(stack') = 1
    <3> HIDE DEF root
    <3>1. stack' = <<[name |-> root, next |-> 1]>>
      BY <1>7 DEF VisitRoot, root
    <3>2. /\ stack' \in Seq(Frame) /\ Len(stack') = 1
          /\ stack'[1].name = root /\ stack'[1].next = 1
      BY <1>3, <3>1, FirstCall
    <3>. QED  BY <3>2, LenProperties
  <2>3. ColoursKnown'
    BY <1>3, <2>1 DEF IInv, ColoursKnown
  <2>4. GreyIsStack'
    <3>1. \A n \in Name : color[n] # "grey"
      BY <2>1 DEF IInv, GreyIsStack
    <3>. QED  BY <1>3, <2>1, <2>2, <3>1 DEF GreyIsStack
  <2>5. StackIsPath' /\ Explored'
    <3>1. \A i \in DOMAIN deps[root] : ~(i < 1)
      BY <1>3, SearchFacts
    <3>. QED  BY <2>1, <2>2, <3>1 DEF StackIsPath, Explored
  <2>6. Black' = Black
    BY <1>3, <1>7, <2>1 DEF Black
  <2>7. BlackClosed' /\ BlackAcyclic'
    BY <2>1, <2>6 DEF IInv, BlackClosed, BlackAcyclic
  <2>. QED  BY <1>1, <1>2, <1>4, <1>5, <2>3, <2>4, <2>5, <2>7 DEF IInv
<1>. QED  BY <1>6, <1>7

\* The calls from the grey name up to the innermost are the cycle.
LEMMA MeetsGreyKeeps == \A dep \in Name : IInv /\ MeetsGrey(dep) => IInv'
<1> SUFFICES ASSUME NEW dep \in Name, IInv, MeetsGrey(dep) PROVE IInv'
  OBVIOUS
<1>1. TypeOK'
  BY TypeNext DEF IInv, Next
<1>2. Collected'
  BY CollectedKept DEF MeetsGrey, Examining
<1>3. ColoursKnown' /\ GreyIsStack' /\ StackIsPath' /\ Explored'
  BY DEF IInv, MeetsGrey, ColoursKnown, GreyIsStack, StackIsPath, Explored
<1>4. BlackClosed' /\ BlackAcyclic'
  BY DEF IInv, MeetsGrey, BlackClosed, BlackAcyclic, Black
<1>5. RootsVisited'
  BY DEF MeetsGrey, RootsVisited
<1>6. ResultMeans'
  <2>1. stack # <<>> /\ Top.next \in DOMAIN deps[Top.name] /\ deps[Top.name][Top.next] = dep
    BY DEF MeetsGrey, Examining
  <2>2. PICK k \in DOMAIN stack : stack[k].name = dep
    BY DEF IInv, GreyIsStack, MeetsGrey
  <2> DEFINE S == {stack[j].name : j \in k .. Len(stack)}
  <2>3. k \in 1 .. Len(stack) /\ Len(stack) \in 1 .. Len(stack) /\ Top = stack[Len(stack)]
    BY <2>1, StackIsNonEmpty, SearchFacts
  <2>4. \A j \in k .. Len(stack) : j \in DOMAIN stack /\ stack[j].name \in known
    <3>1. \A j \in k .. Len(stack) : j \in 1 .. Len(stack)
      BY <2>3
    <3>2. \A j \in 1 .. Len(stack) : j \in DOMAIN stack /\ stack[j].name \in Name
      BY SearchFacts DEF Frame
    <3>3. \A j \in 1 .. Len(stack) : color[stack[j].name] = "grey"
      BY <3>2 DEF IInv, GreyIsStack
    <3>. QED  BY <3>1, <3>2, <3>3 DEF IInv, ColoursKnown
  <2>5. S \in SUBSET known /\ S # {}
    BY <2>3, <2>4
  <2>6. ASSUME NEW n \in S PROVE \E i \in DOMAIN deps[n] : deps[n][i] \in S
    <3>1. PICK j \in k .. Len(stack) : n = stack[j].name
      BY <2>6
    <3>2. CASE j = Len(stack)
      <4>1. dep \in S
        BY <2>2, <2>3
      <4>. QED  BY <2>1, <2>3, <3>1, <3>2, <4>1
    <3>3. CASE j # Len(stack)
      <4>1. j < Len(stack) /\ j + 1 \in k .. Len(stack)
        BY <2>3, <3>1, <3>3
      <4>2. /\ stack[j].next - 1 \in DOMAIN deps[stack[j].name]
            /\ deps[stack[j].name][stack[j].next - 1] = stack[j+1].name
        BY <2>4, <3>1, <4>1 DEF IInv, StackIsPath
      <4>3. stack[j+1].name \in S
        BY <4>1
      <4>. QED  BY <3>1, <4>2, <4>3
    <3>. QED  BY <3>2, <3>3
  <2> HIDE DEF S
  <2>7. /\ pc' = "done" /\ result' = "cycle"
        /\ known' = known /\ deps' = deps
    BY DEF MeetsGrey
  <2>. QED  BY <2>5, <2>6, <2>7 DEF ResultMeans
<1>. QED  BY <1>1, <1>2, <1>3, <1>4, <1>5, <1>6 DEF IInv

\* What Descends and PassesOver share: the innermost call goes on to its next entry.
LEMMA ExaminingFacts ==
  ASSUME IInv, NEW dep \in Name, Examining(dep)
  PROVE  /\ pc = "search" /\ stack # <<>>
         /\ Len(stack) \in 1 .. Len(stack)
         /\ DOMAIN stack = 1 .. Len(stack)
         /\ \A k \in 1 .. Len(stack) : stack[k].name \in Name /\ stack[k].next \in Nat
         /\ stack[Len(stack)].next \in DOMAIN deps[stack[Len(stack)].name]
         /\ dep = deps[stack[Len(stack)].name][stack[Len(stack)].next]
BY StackIsNonEmpty, SearchFacts DEF Examining, Frame

LEMMA PassesOverKeeps == \A dep \in Name : IInv /\ PassesOver(dep) => IInv'
<1> SUFFICES ASSUME NEW dep \in Name, IInv, PassesOver(dep) PROVE IInv'
  OBVIOUS
<1> DEFINE L == Len(stack)
<1>1. TypeOK'
  BY TypeNext DEF IInv, Next
<1>2. Collected'
  BY CollectedKept, ExaminingFacts DEF PassesOver
<1>3. /\ L \in 1 .. L /\ DOMAIN stack = 1 .. L
      /\ \A k \in 1 .. L : stack[k].name \in Name /\ stack[k].next \in Nat
      /\ stack[L].next \in DOMAIN deps[stack[L].name]
      /\ dep = deps[stack[L].name][stack[L].next]
  BY ExaminingFacts DEF PassesOver
<1>4. /\ DOMAIN stack' = 1 .. L /\ Len(stack') = L
      /\ \A k \in 1 .. L :
           /\ stack'[k].name = stack[k].name
           /\ stack'[k].next = IF k = L THEN stack[k].next + 1 ELSE stack[k].next
  <2>1. stack' = Advanced /\ stack # <<>>
    BY DEF PassesOver, Examining
  <2>. QED  BY <2>1, AdvancedFacts, LenProperties DEF IInv
<1>5. /\ deps' = deps /\ known' = known /\ color' = color
      /\ color[dep] # "grey" /\ (color[dep] = "white" => dep \notin known)
  BY DEF PassesOver
<1>6. ColoursKnown'
  BY DEF IInv, PassesOver, ColoursKnown
<1>7. GreyIsStack'
  <2>1. /\ \A n \in Name : color[n] = "grey" <=> \E k \in 1 .. L : stack[k].name = n
        /\ \A j, k \in 1 .. L : stack[j].name = stack[k].name => j = k
    BY <1>3 DEF IInv, GreyIsStack
  <2> HIDE DEF L
  <2>2. /\ \A n \in Name : color'[n] = "grey" <=> \E k \in 1 .. L : stack'[k].name = n
        /\ \A j, k \in 1 .. L : stack'[j].name = stack'[k].name => j = k
    BY <1>4, <1>5, <2>1
  <2>. QED  BY <1>4, <2>2 DEF GreyIsStack
<1> HIDE DEF L
<1>8. StackIsPath'
  <2> SUFFICES ASSUME NEW k \in 1 .. L
               PROVE  /\ stack'[k].next >= 1
                      /\ k < L => /\ stack'[k].next - 1 \in DOMAIN deps[stack'[k].name]
                                  /\ deps[stack'[k].name][stack'[k].next - 1] = stack'[k+1].name
    BY <1>4, <1>5 DEF StackIsPath
  <2>1. /\ stack[k].next >= 1
        /\ k < L => /\ stack[k].next - 1 \in DOMAIN deps[stack[k].name]
                    /\ deps[stack[k].name][stack[k].next - 1] = stack[k+1].name
    BY <1>3 DEF IInv, StackIsPath, L
  <2>2. k < L => k + 1 \in 1 .. L
    BY <1>3
  <2>. QED  BY <1>3, <1>4, <2>1, <2>2
<1>9. Explored'
  <2> SUFFICES ASSUME NEW k \in 1 .. L, NEW i \in DOMAIN deps[stack[k].name],
                      i < stack'[k].next, deps[stack[k].name][i] \in known
               PROVE  \/ color[deps[stack[k].name][i]] = "black"
                      \/ k < L /\ i = stack'[k].next - 1
    BY <1>4, <1>5 DEF Explored
  <2>1. /\ i \in Nat
        /\ i < stack[k].next => \/ color[deps[stack[k].name][i]] = "black"
                                \/ k < L /\ i = stack[k].next - 1
    BY <1>3, SearchFacts DEF IInv, Explored, L
  <2>2. CASE k # L
    BY <1>4, <2>1, <2>2
  <2>3. CASE k = L /\ i < stack[k].next
    BY <1>3, <2>1, <2>3
  <2>4. CASE k = L /\ ~(i < stack[k].next)
    <3>1. i = stack[L].next
      BY <1>3, <1>4, <2>1, <2>4
    <3>2. color[dep] \in {"white", "grey", "black"}
      BY DEF IInv, TypeOK
    <3>. QED  BY <1>3, <1>5, <2>4, <3>1, <3>2
  <2>. QED  BY <2>2, <2>3, <2>4
<1>10. BlackClosed' /\ BlackAcyclic'
  BY DEF IInv, PassesOver, BlackClosed, BlackAcyclic, Black
<1>11. RootsVisited' /\ ResultMeans'
  BY DEF IInv, PassesOver, Examining, RootsVisited, ResultMeans
<1>. QED  BY <1>1, <1>2, <1>6, <1>7, <1>8, <1>9, <1>10, <1>11 DEF IInv

LEMMA DescendsKeeps == \A dep \in Name : IInv /\ Descends(dep) => IInv'
<1> SUFFICES ASSUME NEW dep \in Name, IInv, Descends(dep) PROVE IInv'
  OBVIOUS
<1> DEFINE L == Len(stack)
<1>1. TypeOK'
  BY TypeNext DEF IInv, Next
<1>2. Collected'
  BY CollectedKept, ExaminingFacts DEF Descends
<1>3. /\ L \in 1 .. L /\ DOMAIN stack = 1 .. L
      /\ \A k \in 1 .. L : stack[k].name \in Name /\ stack[k].next \in Nat
      /\ stack[L].next \in DOMAIN deps[stack[L].name]
      /\ dep = deps[stack[L].name][stack[L].next]
  BY ExaminingFacts DEF Descends
<1>4. /\ DOMAIN stack' = 1 .. L + 1 /\ Len(stack') = L + 1
      /\ \A k \in 1 .. L :
           /\ stack'[k].name = stack[k].name
           /\ stack'[k].next = IF k = L THEN stack[k].next + 1 ELSE stack[k].next
      /\ stack'[L + 1].name = dep
      /\ stack'[L + 1].next = 1
  <2>1. stack' = Append(Advanced, [name |-> dep, next |-> 1]) /\ stack # <<>> /\ TypeOK
    BY DEF Descends, Examining, IInv
  <2>2. /\ stack' \in Seq(Frame) /\ Len(stack') = L + 1
        /\ \A k \in 1 .. L : stack'[k] = Advanced[k]
        /\ stack'[L + 1].name = dep /\ stack'[L + 1].next = 1
    BY <2>1, NestedCall
  <2>. QED  BY <2>1, <2>2, AdvancedFacts, LenProperties
<1>5. /\ deps' = deps /\ known' = known
      /\ color' = [color EXCEPT ![dep] = "grey"]
      /\ color \in [Name -> {"white", "grey", "black"}]
      /\ color[dep] = "white" /\ dep \in known
  BY DEF Descends, IInv, TypeOK
<1>6. ColoursKnown'
  BY <1>5 DEF IInv, ColoursKnown
<1> HIDE DEF L
<1>7. GreyIsStack'
  <2>1. /\ \A n \in Name : color[n] = "grey" <=> \E k \in 1 .. L : stack[k].name = n
        /\ \A j, k \in 1 .. L : stack[j].name = stack[k].name => j = k
    BY <1>3 DEF IInv, GreyIsStack
  <2>2. \A k \in 1 .. L + 1 : k \in 1 .. L \/ k = L + 1
    BY <1>3
  <2>3. 1 .. L \subseteq 1 .. L + 1 /\ L + 1 \in 1 .. L + 1
    BY <1>3
  <2>4. \A k \in 1 .. L : stack[k].name # dep
    BY <1>5, <2>1
  <2>5. \A n \in Name : color'[n] = "grey" <=> \E k \in DOMAIN stack' : stack'[k].name = n
    <3> SUFFICES ASSUME NEW n \in Name
                 PROVE  color'[n] = "grey" <=> \E k \in 1 .. L + 1 : stack'[k].name = n
      BY <1>4
    <3>1. CASE n = dep
      BY <1>4, <1>5, <2>3, <3>1
    <3>2. CASE n # dep
      <4>1. color'[n] = "grey" <=> \E k \in 1 .. L : stack[k].name = n
        BY <1>5, <2>1, <3>2
      <4>2. stack'[L + 1].name # n
        BY <1>4, <3>2
      <4>. QED  BY <1>4, <2>2, <2>3, <4>1, <4>2
    <3>. QED  BY <3>1, <3>2
  <2>6. \A j, k \in DOMAIN stack' : stack'[j].name = stack'[k].name => j = k
    BY <1>3, <1>4, <2>1, <2>2, <2>4
  <2>. QED  BY <2>5, <2>6 DEF GreyIsStack
<1>8. StackIsPath'
  <2> SUFFICES ASSUME NEW k \in 1 .. L + 1
               PROVE  /\ stack'[k].next >= 1
                      /\ k < L + 1 =>
                           /\ stack'[k].next - 1 \in DOMAIN deps[stack'[k].name]
                           /\ deps[stack'[k].name][stack'[k].next - 1] = stack'[k+1].name
    BY <1>4, <1>5 DEF StackIsPath
  <2>1. CASE k = L + 1
    BY <1>3, <1>4, <2>1
  <2>2. CASE k = L
    BY <1>3, <1>4, <2>2
  <2>3. CASE k < L
    <3>1. /\ stack[k].next >= 1
          /\ stack[k].next - 1 \in DOMAIN deps[stack[k].name]
          /\ deps[stack[k].name][stack[k].next - 1] = stack[k+1].name
      BY <1>3, <2>3 DEF IInv, StackIsPath, L
    <3>2. k \in 1 .. L /\ k + 1 \in 1 .. L
      BY <1>3, <2>3
    <3>. QED  BY <1>4, <2>3, <3>1, <3>2
  <2>. QED  BY <1>3, <2>1, <2>2, <2>3
<1>9. Explored'
  <2> SUFFICES ASSUME NEW k \in 1 .. L + 1, NEW i \in DOMAIN deps[stack'[k].name],
                      i < stack'[k].next, deps[stack'[k].name][i] \in known
               PROVE  \/ color'[deps[stack'[k].name][i]] = "black"
                      \/ k < L + 1 /\ i = stack'[k].next - 1
    BY <1>4, <1>5 DEF Explored
  <2>1. CASE k = L + 1
    <3>1. i \in 1 .. Len(deps[dep])
      BY <1>4, <2>1, SearchFacts
    <3>. QED  BY <1>4, <2>1, <3>1
  <2>2. CASE k \in 1 .. L
    <3>0. /\ stack'[k].name = stack[k].name /\ stack[k].name \in Name
          /\ i \in DOMAIN deps[stack[k].name] /\ deps[stack[k].name][i] \in known
      BY <1>3, <1>4, <2>2
    <3>1. /\ i \in Nat
          /\ i < stack[k].next => \/ color[deps[stack[k].name][i]] = "black"
                                  \/ k < L /\ i = stack[k].next - 1
      <4>1. i \in Nat
        BY <3>0, SearchFacts
      <4>. QED  BY <1>3, <2>2, <3>0, <4>1 DEF IInv, Explored, L
    <3>2. \A n \in known : color[n] = "black" => color'[n] = "black"
      BY <1>5 DEF IInv, TypeOK
    <3>3. CASE i < stack[k].next
      BY <1>3, <1>4, <2>2, <3>1, <3>2, <3>3
    <3>4. CASE ~(i < stack[k].next)
      BY <1>3, <1>4, <2>2, <3>1, <3>4
    <3>. QED  BY <3>3, <3>4
  <2>. QED  BY <1>3, <2>1, <2>2
<1>10. Black' = Black
  BY <1>5 DEF Black
<1>11. BlackClosed' /\ BlackAcyclic'
  BY <1>5, <1>10 DEF IInv, BlackClosed, BlackAcyclic
<1>12. RootsVisited'
  <2>1. \A n \in Name : color[n] # "white" => color'[n] # "white"
    BY <1>5
  <2>. QED  BY <2>1, SearchFacts DEF IInv, Descends, RootsVisited
<1>13. ResultMeans'
  BY DEF IInv, Descends, Examining, ResultMeans
<1>. QED  BY <1>1, <1>2, <1>6, <1>7, <1>8, <1>9, <1>11, <1>12, <1>13 DEF IInv

LEMMA ReturnsKeeps == IInv /\ Returns => IInv'
<1> SUFFICES ASSUME IInv, Returns PROVE IInv'
  OBVIOUS
<1> DEFINE L == Len(stack)
           t == stack[L].name
<1>1. TypeOK'
  BY TypeNext DEF IInv, Next
<1>2. Collected'
  BY CollectedKept DEF Returns
<1>3. /\ L \in 1 .. L /\ DOMAIN stack = 1 .. L
      /\ \A k \in 1 .. L : stack[k].name \in Name /\ stack[k].next \in Nat
      /\ stack[L].next \notin DOMAIN deps[t]
      /\ t \in Name /\ t \in known /\ color[t] = "grey"
  BY StackIsNonEmpty, SearchFacts DEF Returns, Frame
<1>4. /\ DOMAIN stack' = 1 .. L - 1 /\ Len(stack') = L - 1
      /\ \A k \in 1 .. L - 1 : stack'[k] = stack[k]
  <2>1. /\ stack' \in Seq(Frame) /\ Len(stack') = L - 1
        /\ \A k \in 1 .. L - 1 : stack'[k] = stack[k]
    BY CallReturned DEF Returns, IInv
  <2>. QED  BY <2>1, LenProperties
<1>5. /\ deps' = deps /\ known' = known
      /\ color' = [color EXCEPT ![t] = "black"]
      /\ color \in [Name -> {"white", "grey", "black"}]
  BY StackIsNonEmpty DEF Returns, IInv, TypeOK
<1>6. \A k \in 1 .. L : stack[k].next >= 1
  BY <1>3 DEF IInv, StackIsPath
\* The call has passed every entry of its list.
<1>7. \A i \in DOMAIN deps[t] : deps[t][i] \in known => deps[t][i] \in Black
  <2> SUFFICES ASSUME NEW i \in DOMAIN deps[t], deps[t][i] \in known
               PROVE  color[deps[t][i]] = "black" /\ deps[t][i] \in Name
    BY DEF Black
  <2>1. i \in 1 .. Len(deps[t]) /\ DOMAIN deps[t] = 1 .. Len(deps[t]) /\ Len(deps[t]) \in Nat
    BY <1>3, SearchFacts
  <2>2. i < stack[L].next
    BY <1>3, <1>6, <2>1
  <2>3. color[deps[t][i]] = "black" \/ L < Len(stack)
    BY <1>3, <2>2 DEF IInv, Explored
  <2>4. ~(L < Len(stack))
    BY <1>3
  <2>. QED  BY <1>3, <2>1, <2>3, <2>4, SearchFacts
<1> HIDE DEF t
<1>8. Black' = Black \cup {t} /\ t \notin Black
  BY <1>3, <1>5 DEF Black
<1>9. ColoursKnown'
  BY <1>3, <1>5 DEF IInv, ColoursKnown
<1>10. GreyIsStack'
  <2>1. /\ \A n \in Name : color[n] = "grey" <=> \E k \in 1 .. L : stack[k].name = n
        /\ \A j, k \in 1 .. L : stack[j].name = stack[k].name => j = k
    BY <1>3 DEF IInv, GreyIsStack
  <2> HIDE DEF L
  <2>2. \A k \in 1 .. L : k = L \/ k \in 1 .. L - 1
    BY <1>3
  <2>3. 1 .. L - 1 \subseteq 1 .. L /\ L \in 1 .. L /\ L \notin 1 .. L - 1
    BY <1>3
  <2>4. \A k \in 1 .. L - 1 : stack[k].name # t
    BY <2>1, <2>3 DEF t
  <2>5. \A n \in Name : color'[n] = "grey" <=> \E k \in 1 .. L - 1 : stack'[k].name = n
    <3> SUFFICES ASSUME NEW n \in Name
                 PROVE  color'[n] = "grey" <=> \E k \in 1 .. L - 1 : stack[k].name = n
      BY <1>4
    <3>1. CASE n = t
      BY <1>5, <2>4, <3>1
    <3>2. CASE n # t
      BY <1>5, <2>1, <2>2, <2>3, <3>2 DEF t
    <3>. QED  BY <3>1, <3>2
  <2>6. \A j, k \in 1 .. L - 1 : stack'[j].name = stack'[k].name => j = k
    BY <1>4, <2>1, <2>3
  <2>. QED  BY <1>4, <2>5, <2>6 DEF GreyIsStack
<1>11. StackIsPath'
  <2> SUFFICES ASSUME NEW k \in 1 .. L - 1
               PROVE  /\ stack[k].next >= 1
                      /\ k < L - 1 =>
                           /\ stack[k].next - 1 \in DOMAIN deps[stack[k].name]
                           /\ deps[stack[k].name][stack[k].next - 1] = stack'[k+1].name
    BY <1>4, <1>5 DEF StackIsPath
  <2>1. k \in 1 .. L /\ k < L /\ (k < L - 1 => k + 1 \in 1 .. L - 1)
    BY <1>3
  <2>. QED  BY <1>3, <1>4, <2>1 DEF IInv, StackIsPath
<1>12. Explored'
  <2> SUFFICES ASSUME NEW k \in 1 .. L - 1, NEW i \in DOMAIN deps[stack[k].name],
                      i < stack[k].next, deps[stack[k].name][i] \in known
               PROVE  \/ color'[deps[stack[k].name][i]] = "black"
                      \/ k < L - 1 /\ i = stack[k].next - 1
    BY <1>4, <1>5 DEF Explored
  <2>1. k \in 1 .. L /\ k < L
    BY <1>3
  <2>2. /\ \/ color[deps[stack[k].name][i]] = "black"
           \/ i = stack[k].next - 1
        /\ deps[stack[k].name][stack[k].next - 1] = stack[k+1].name
        /\ deps[stack[k].name][i] \in Name
    BY <1>3, <2>1 DEF IInv, TypeOK, Explored, StackIsPath
  <2>3. CASE color[deps[stack[k].name][i]] = "black"
    BY <1>5, <2>2, <2>3
  <2>4. CASE i = stack[k].next - 1 /\ k = L - 1
    <3>1. deps[stack[k].name][i] = t
      BY <1>3, <2>2, <2>4 DEF t
    <3>. QED  BY <1>5, <2>2, <3>1
  <2>5. CASE i = stack[k].next - 1 /\ k # L - 1
    BY <1>3, <2>5
  <2>. QED  BY <2>2, <2>3, <2>4, <2>5
<1>13. BlackClosed'
  BY <1>5, <1>7, <1>8 DEF IInv, BlackClosed
<1>14. BlackAcyclic'
  <2> SUFFICES ASSUME NEW S \in SUBSET (Black \cup {t}), S # {}
               PROVE  \E n \in S : \A i \in DOMAIN deps[n] : deps[n][i] \notin S
    BY <1>5, <1>8 DEF BlackAcyclic
  <2>1. CASE S \subseteq Black
    BY <2>1 DEF IInv, BlackAcyclic
  <2>2. CASE S = {t}
    <3>1. \A i \in DOMAIN deps[t] : deps[t][i] # t
      BY <1>3, <1>7, <1>8
    <3>. QED  BY <2>2, <3>1
  <2>3. CASE t \in S /\ S # {t}
    <3>1. S \ {t} \in SUBSET Black /\ S \ {t} # {}
      BY <2>3
    <3>2. PICK n \in S \ {t} : \A i \in DOMAIN deps[n] : deps[n][i] \notin S \ {t}
      BY <3>1 DEF IInv, BlackAcyclic
    <3>3. \A i \in DOMAIN deps[n] : deps[n][i] # t
      BY <1>3, <1>8, <3>1, <3>2 DEF IInv, BlackClosed
    <3>. QED  BY <3>2, <3>3
  <2>. QED  BY <2>1, <2>2, <2>3
<1>15. RootsVisited'
  <2>1. \A n \in Name : color[n] # "white" => color'[n] # "white"
    BY <1>5
  <2>. QED  BY <2>1, SearchFacts DEF IInv, Returns, RootsVisited
<1>16. ResultMeans'
  BY DEF IInv, Returns, ResultMeans
<1>. QED  BY <1>1, <1>2, <1>9, <1>10, <1>11, <1>12, <1>13, <1>14, <1>15, <1>16 DEF IInv

\* Every root was visited and no call is in progress: every name is black.
LEMMA FinishKeeps == IInv /\ Finish => IInv'
<1> SUFFICES ASSUME IInv, Finish PROVE IInv'
  OBVIOUS
<1>1. TypeOK'
  BY TypeNext DEF IInv, Next
<1>2. Collected'
  BY CollectedKept DEF Finish
<1>3. ColoursKnown' /\ GreyIsStack' /\ StackIsPath' /\ Explored'
  BY DEF IInv, Finish, ColoursKnown, GreyIsStack, StackIsPath, Explored
<1>4. BlackClosed' /\ BlackAcyclic'
  BY DEF IInv, Finish, BlackClosed, BlackAcyclic, Black
<1>5. RootsVisited'
  BY DEF Finish, RootsVisited
<1>6. ResultMeans'
  <2>1. \A j \in DOMAIN order : j < at
    BY SearchFacts DEF Finish, IInv, TypeOK
  <2>2. \A n \in known : n \in Name /\ color[n] # "white"
    BY <2>1 DEF Finish, IInv, TypeOK, Collected, RootsVisited
  <2>3. \A n \in Name : color[n] # "grey"
    <3>1. DOMAIN stack = {}
      BY DEF Finish
    <3>. QED  BY <3>1 DEF IInv, GreyIsStack
  <2>4. \A n \in known : n \in Black
    BY <2>2, <2>3 DEF IInv, TypeOK, Black
  <2>5. pc' = "done" /\ result' = "acyclic" /\ known' = known /\ Black' = Black
    BY DEF Finish, Black
  <2>. QED  BY <2>4, <2>5 DEF ResultMeans
<1>. QED  BY <1>1, <1>2, <1>3, <1>4, <1>5, <1>6 DEF IInv

LEMMA StutterKeeps == IInv /\ UNCHANGED vars => IInv'
<1> SUFFICES ASSUME IInv, UNCHANGED vars PROVE IInv'
  OBVIOUS
<1> USE DEF IInv, vars
<1>1. TypeOK' /\ Collected' /\ ColoursKnown'
  BY DEF TypeOK, Collected, ColoursKnown
<1>2. GreyIsStack' /\ StackIsPath' /\ Explored'
  BY DEF GreyIsStack, StackIsPath, Explored
<1>3. BlackClosed' /\ BlackAcyclic'
  BY DEF BlackClosed, BlackAcyclic, Black
<1>4. RootsVisited' /\ ResultMeans'
  BY DEF RootsVisited, ResultMeans, Black
<1>. QED  BY <1>1, <1>2, <1>3, <1>4

\* The search keeps its bookkeeping, for every set of step lists.
THEOREM Invariance == Spec => []IInv
<1>1. IInv /\ [Next]_vars => IInv'
  BY CollectNamedKeeps, SkipUnnamedKeeps, StartSearchKeeps, VisitRootKeeps,
     MeetsGreyKeeps, DescendsKeeps, PassesOverKeeps, ReturnsKeeps, FinishKeeps,
     StutterKeeps DEF Next
<1>. QED  BY IInit, <1>1, PTL DEF Spec

------------------------------------------------------------------------------
(* What the answer means.                                                     *)

\* When the search is over, the lists it followed are those of the steps.
LEMMA WaitsAreDeps ==
  ASSUME IInv, pc = "done", DistinctNames(steps)
  PROVE  /\ Names(steps) = known
         /\ \A n \in known, m \in Name :
              DependsOn(steps, n, m) <=> \E i \in DOMAIN deps[n] : deps[n][i] = m
<1>1. Names(steps) = known
  BY DEF IInv, Collected, Names
<1>2. \A i \in Named(steps) : deps[steps[i].name] = steps[i].dependsOn
  BY DEF IInv, Collected
<1>3. ASSUME NEW n \in known, NEW m \in Name
      PROVE  DependsOn(steps, n, m) <=> \E i \in DOMAIN deps[n] : deps[n][i] = m
  <2>1. DependsOn(steps, n, m) <=> \E i \in Named(steps) : steps[i].name = n /\ m \in Range(deps[n])
    BY <1>2 DEF DependsOn
  <2>2. \E i \in Named(steps) : steps[i].name = n
    BY <1>1, <1>3 DEF Names
  <2>. QED  BY <2>1, <2>2 DEF Range
<1>. QED  BY <1>1, <1>3

\* No cycle message: no set of steps with distinct names waits for itself.
THEOREM NoCycleMissedCorrect == Spec => []NoCycleMissed
<1>1. IInv => NoCycleMissed
  <2> SUFFICES ASSUME IInv, result = "acyclic", DistinctNames(steps),
                      NEW S \in SUBSET Names(steps), S # {}
               PROVE  \E n \in S : \A m \in S : ~DependsOn(steps, n, m)
    BY DEF NoCycleMissed, Acyclic
  <2>1. pc = "done"
    BY DEF IInv, ResultMeans
  <2>2. S \in SUBSET Black /\ S \subseteq known /\ known \subseteq Name
    BY <2>1, WaitsAreDeps DEF IInv, TypeOK, ResultMeans
  <2>3. PICK n \in S : \A i \in DOMAIN deps[n] : deps[n][i] \notin S
    BY <2>2 DEF IInv, BlackAcyclic
  <2>. QED  BY <2>1, <2>2, <2>3, WaitsAreDeps
<1>. QED  BY Invariance, <1>1, PTL

\* A cycle message: some set of the steps does wait for itself, whatever the list.
THEOREM NoFalseCycleCorrect == Spec => []NoFalseCycle
<1>1. IInv => NoFalseCycle
  <2> SUFFICES ASSUME IInv, result = "cycle"
               PROVE  ~Acyclic(steps)
    BY DEF NoFalseCycle
  <2>1. pc = "done"
    BY DEF IInv, ResultMeans
  <2>2. PICK S \in SUBSET known :
          S # {} /\ \A n \in S : \E i \in DOMAIN deps[n] : deps[n][i] \in S
    BY DEF IInv, ResultMeans
  <2>3. S \in SUBSET Names(steps)
    BY <2>1 DEF IInv, Collected, Names
  <2>4. \A n \in S : \E m \in S : DependsOn(steps, n, m)
    <3> SUFFICES ASSUME NEW n \in S PROVE \E m \in S : DependsOn(steps, n, m)
      OBVIOUS
    <3>1. PICK j \in DOMAIN deps[n] : deps[n][j] \in S
      BY <2>2
    <3>2. PICK i \in Named(steps) : steps[i].name = n /\ deps[n] = steps[i].dependsOn
      BY DEF IInv, Collected
    <3>. QED  BY <3>1, <3>2 DEF DependsOn, Range
  <2>. QED  BY <2>2, <2>3, <2>4 DEF Acyclic
<1>. QED  BY Invariance, <1>1, PTL

------------------------------------------------------------------------------
(* The search ends: what is left to do grows less with every step.            *)

\* No loop has gone past its end, and there are finitely many names to visit.
Bounded ==
  /\ at <= Len(IF pc = "collect" THEN steps ELSE order) + 1
  /\ \A k \in DOMAIN stack : stack[k].next <= Len(deps[stack[k].name]) + 1
  /\ IsFiniteSet(known)

White == {n \in known : color[n] = "white"}

LEMMA BoundedInit == Init => Bounded
<1>. SUFFICES ASSUME Init PROVE Bounded
  OBVIOUS
<1>1. steps \in Seq(Step) /\ Len(steps) \in Nat /\ DOMAIN stack = {}
  BY StepsAssumption, LenProperties DEF Init
<1>. QED  BY <1>1, FS_EmptySet DEF Init, Bounded

LEMMA BoundedNext == IInv /\ Bounded /\ [Next]_vars => Bounded'
<1>. SUFFICES ASSUME IInv, Bounded, [Next]_vars PROVE Bounded'
  OBVIOUS
<1>0. /\ steps \in Seq(Step) /\ DOMAIN steps = 1 .. Len(steps) /\ Len(steps) \in Nat
      /\ order \in Seq(Name) /\ DOMAIN order = 1 .. Len(order) /\ Len(order) \in Nat
      /\ at \in Nat \ {0}
      /\ DOMAIN stack = 1 .. Len(stack) /\ Len(stack) \in Nat
      /\ \A n \in Name : DOMAIN deps[n] = 1 .. Len(deps[n]) /\ Len(deps[n]) \in Nat
      /\ pc = "collect" => DOMAIN stack = {} /\ stack = <<>>
  <2>1. /\ steps \in Seq(Step) /\ DOMAIN steps = 1 .. Len(steps) /\ Len(steps) \in Nat
        /\ order \in Seq(Name) /\ at \in Nat \ {0}
    BY StepsAssumption, LenProperties DEF IInv, TypeOK
  <2>. QED  BY <2>1, SearchFacts DEF IInv, Collected
<1>1. CASE CollectNamed
  <2>1. at' <= Len(steps) + 1 /\ pc' = "collect" /\ steps' = steps
    BY <1>0, <1>1 DEF CollectNamed, Named
  <2>2. IsFiniteSet(known')
    BY <1>1, FS_AddElement DEF CollectNamed, Bounded
  <2>3. DOMAIN stack' = {}
    BY <1>0, <1>1 DEF CollectNamed
  <2>. QED  BY <2>1, <2>2, <2>3 DEF Bounded
<1>2. CASE SkipUnnamed
  <2>1. at' <= Len(steps) + 1 /\ pc' = "collect" /\ steps' = steps
    BY <1>0, <1>2 DEF SkipUnnamed
  <2>. QED  BY <1>0, <1>2, <2>1 DEF SkipUnnamed, Bounded
<1>3. CASE StartSearch
  BY <1>0, <1>3 DEF StartSearch, Bounded
<1>4. CASE VisitRoot
  <2>1. at' <= Len(order) + 1 /\ pc' = "search" /\ order' = order
    BY <1>0, <1>4 DEF VisitRoot
  <2>2. CASE color[order[at]] = "white"
    <3>1. order[at] \in Name
      BY <1>4, SearchFacts DEF VisitRoot
    <3>2. stack' = <<[name |-> order[at], next |-> 1]>>
      BY <1>4, <2>2 DEF VisitRoot
    <3>3. stack' \in Seq(Frame) /\ Len(stack') = 1 /\ stack'[1].name = order[at] /\ stack'[1].next = 1
      BY <3>1, <3>2, FirstCall
    <3>4. DOMAIN stack' = {1}
      BY <3>3, LenProperties
    <3>5. \A k \in DOMAIN stack' : stack'[k].next <= Len(deps[stack'[k].name]) + 1
      BY <1>0, <3>1, <3>3, <3>4
    <3>. QED  BY <1>4, <2>1, <3>5 DEF VisitRoot, Bounded
  <2>3. CASE color[order[at]] # "white"
    BY <1>4, <2>1, <2>3 DEF VisitRoot, Bounded
  <2>. QED  BY <2>2, <2>3
<1>5. ASSUME NEW dep \in Name, MeetsGrey(dep) PROVE Bounded'
  BY <1>5 DEF MeetsGrey, Examining, Bounded
<1>6. ASSUME NEW dep \in Name, Examining(dep)
      PROVE  \A k \in 1 .. Len(stack) : Advanced[k].next <= Len(deps[Advanced[k].name]) + 1
  <2>. SUFFICES ASSUME NEW k \in 1 .. Len(stack)
                PROVE  Advanced[k].next <= Len(deps[Advanced[k].name]) + 1
    OBVIOUS
  <2>1. /\ Advanced[k].name = stack[k].name
        /\ Advanced[k].next = IF k = Len(stack) THEN stack[k].next + 1 ELSE stack[k].next
    BY <1>6, AdvancedFacts DEF Examining, IInv
  <2>2. CASE k = Len(stack)
    <3>1. Top = stack[k] /\ Top.name \in Name /\ Top.next \in Nat
      BY <1>6, <2>2, StackIsNonEmpty DEF Examining
    <3>2. Top.next \in 1 .. Len(deps[Top.name])
      BY <1>0, <1>6, <3>1 DEF Examining
    <3>. QED  BY <1>0, <2>1, <2>2, <3>1, <3>2
  <2>3. CASE k # Len(stack)
    BY <1>0, <2>1, <2>3 DEF Bounded
  <2>. QED  BY <2>2, <2>3
<1>7. ASSUME NEW dep \in Name, Descends(dep) PROVE Bounded'
  <2>1. Examining(dep) /\ stack # <<>>
    BY <1>7 DEF Descends, Examining
  <2>2. /\ stack' = Append(Advanced, [name |-> dep, next |-> 1])
        /\ UNCHANGED <<steps, pc, at, order, known, deps>>
    BY <1>7 DEF Descends
  <2>3. /\ stack' \in Seq(Frame) /\ Len(stack') = Len(stack) + 1
        /\ \A k \in 1 .. Len(stack) : stack'[k] = Advanced[k]
        /\ stack'[Len(stack) + 1].name = dep
        /\ stack'[Len(stack) + 1].next = 1
    BY <2>1, <2>2, NestedCall DEF IInv
  <2>4. ASSUME NEW k \in DOMAIN stack' PROVE stack'[k].next <= Len(deps[stack'[k].name]) + 1
    <3>1. k \in 1 .. Len(stack) \/ k = Len(stack) + 1
      BY <1>0, <2>3, LenProperties
    <3>2. CASE k \in 1 .. Len(stack)
      <4>1. stack'[k] = Advanced[k]
        BY <2>3, <3>2
      <4>. QED  BY <1>6, <2>1, <3>2, <4>1
    <3>3. CASE k = Len(stack) + 1
      BY <1>0, <2>3, <3>3
    <3>. QED  BY <3>1, <3>2, <3>3
  <2>. QED  BY <2>2, <2>4 DEF Bounded
<1>8. ASSUME NEW dep \in Name, PassesOver(dep) PROVE Bounded'
  <2>1. Examining(dep) /\ stack # <<>> /\ stack' = Advanced
    BY <1>8 DEF PassesOver, Examining
  <2>2. DOMAIN Advanced = 1 .. Len(stack)
    BY <2>1, AdvancedFacts, LenProperties DEF IInv
  <2>. QED  BY <1>6, <1>8, <2>1, <2>2 DEF PassesOver, Bounded
<1>9. CASE Returns
  <2>1. stack # <<>> /\ stack' = SubSeq(stack, 1, Len(stack) - 1)
    BY <1>9 DEF Returns
  <2>2. /\ stack' \in Seq(Frame) /\ Len(stack') = Len(stack) - 1
        /\ \A k \in 1 .. Len(stack) - 1 : stack'[k] = stack[k]
    BY <2>1, CallReturned DEF IInv
  <2>3. \A k \in DOMAIN stack' : k \in DOMAIN stack /\ stack'[k] = stack[k]
    BY <1>0, <2>2, LenProperties, SMTT(30)
  <2>. QED  BY <1>9, <2>3 DEF Returns, Bounded
<1>10. CASE Finish
  BY <1>10 DEF Finish, Bounded
<1>11. CASE UNCHANGED vars
  BY <1>11 DEF vars, Bounded
<1>. QED  BY <1>1, <1>2, <1>3, <1>4, <1>5, <1>7, <1>8, <1>9, <1>10, <1>11 DEF Next

LEMMA LeftFacts ==
  /\ Left[1] = IF pc = "collect" THEN 2 ELSE IF pc = "search" THEN 1 ELSE 0
  /\ Left[2] = Len(IF pc = "collect" THEN steps ELSE order) + 1 - at
  /\ Left[3] = Cardinality(White)
  /\ Left[4] = Len(stack)
  /\ Left[5] = IF stack = <<>> THEN 0 ELSE Len(deps[Top.name]) + 1 - Top.next
  /\ DOMAIN Left = 1..5
BY DEF Left, White

LEMMA LeftIsNatural == IInv /\ Bounded => Left \in [1..5 -> Nat]
<1>. SUFFICES ASSUME IInv, Bounded PROVE Left \in [1..5 -> Nat]
  OBVIOUS
<1>1. steps \in Seq(Step) /\ Len(steps) \in Nat /\ at \in Nat
  BY StepsAssumption, LenProperties DEF IInv, TypeOK
<1>2. Left[1] \in Nat
  BY LeftFacts
<1>3. Left[2] \in Nat
  BY <1>1, LeftFacts, SearchFacts DEF Bounded
<1>4. Left[3] \in Nat
  BY LeftFacts, FS_Subset, FS_CardinalityType DEF Bounded, White
<1>5. Left[4] \in Nat
  BY LeftFacts, SearchFacts
<1>6. Left[5] \in Nat
  <2>1. CASE stack = <<>>
    BY <2>1, LeftFacts
  <2>2. CASE stack # <<>>
    <3>1. /\ Top = stack[Len(stack)] /\ Len(stack) \in DOMAIN stack
          /\ Top.name \in Name /\ Top.next \in Nat
      BY <2>2, StackIsNonEmpty, SearchFacts
    <3>2. Len(deps[Top.name]) \in Nat /\ Top.next <= Len(deps[Top.name]) + 1
      BY <3>1, SearchFacts DEF Bounded
    <3>. QED  BY <2>2, <3>1, <3>2, LeftFacts
  <2>. QED  BY <2>1, <2>2
<1>7. Left = [k \in 1..5 |-> Left[k]]
  BY DEF Left
<1>8. \A k \in 1..5 : k = 1 \/ k = 2 \/ k = 3 \/ k = 4 \/ k = 5
  OBVIOUS
<1>. QED  BY <1>2, <1>3, <1>4, <1>5, <1>6, <1>7, <1>8

LEMMA NearerAt ==
  ASSUME NEW a, NEW b, NEW k \in 1..5, a[k] < b[k], \A j \in 1..k - 1 : a[j] = b[j]
  PROVE  Nearer(a, b)
BY DEF Nearer

\* A phase of the program is over.
LEMMA PhaseNearer ==
  ASSUME \/ pc = "collect" /\ pc' # "collect"
         \/ pc = "search" /\ pc' = "done"
  PROVE  Nearer(Left', Left)
<1>1. /\ Left[1] = IF pc = "collect" THEN 2 ELSE IF pc = "search" THEN 1 ELSE 0
      /\ Left'[1] = IF pc' = "collect" THEN 2 ELSE IF pc' = "search" THEN 1 ELSE 0
  BY DEF Left
<1>2. Left'[1] < Left[1]
  BY <1>1
<1>3. \A j \in 1..1 - 1 : Left'[j] = Left[j]
  OBVIOUS
<1>4. 1 \in 1..5
  OBVIOUS
<1>. QED  BY <1>2, <1>3, <1>4, NearerAt

\* The loop of the phase goes on.
LEMMA LoopNearer ==
  ASSUME at \in Nat, at' = at + 1, pc' = pc, UNCHANGED <<steps, order>>,
         Len(IF pc = "collect" THEN steps ELSE order) \in Nat
  PROVE  Nearer(Left', Left)
<1>1. Left'[1] = Left[1] /\ Left'[2] < Left[2]
  BY DEF Left
<1>2. \A j \in 1..2 - 1 : j = 1
  OBVIOUS
<1>3. 2 \in 1..5
  OBVIOUS
<1>. QED  BY <1>1, <1>2, <1>3, NearerAt

LEMMA StepNearer == IInv /\ Bounded /\ Next => Nearer(Left', Left)
<1>. SUFFICES ASSUME IInv, Bounded, Next PROVE Nearer(Left', Left)
  OBVIOUS
<1>0. /\ at \in Nat /\ Len(steps) \in Nat /\ Len(order) \in Nat /\ Len(stack) \in Nat
      /\ \A n \in Name : Len(deps[n]) \in Nat
  <2>1. steps \in Seq(Step) /\ at \in Nat
    BY StepsAssumption DEF IInv, TypeOK
  <2>. QED  BY <2>1, SearchFacts, LenProperties
<1>1. CASE CollectNamed
  <2>1. /\ Left'[1] = Left[1] /\ Left'[2] < Left[2]
    BY <1>0, <1>1 DEF CollectNamed, Left
  <2>2. 2 \in 1..5 /\ \A j \in 1..2 - 1 : j = 1
    OBVIOUS
  <2>. QED  BY <2>1, <2>2, NearerAt
<1>2. CASE SkipUnnamed
  BY <1>0, <1>2, LoopNearer DEF SkipUnnamed
<1>3. CASE StartSearch
  BY <1>3, PhaseNearer DEF StartSearch
<1>4. CASE VisitRoot
  BY <1>0, <1>4, LoopNearer DEF VisitRoot
<1>5. ASSUME NEW dep \in Name, MeetsGrey(dep) PROVE Nearer(Left', Left)
  BY <1>5, PhaseNearer DEF MeetsGrey, Examining
<1>6. CASE Finish
  BY <1>6, PhaseNearer DEF Finish
<1>7. ASSUME pc = "search", pc' = pc, at' = at, order' = order
      PROVE  Left'[1] = Left[1] /\ Left'[2] = Left[2]
  BY <1>7 DEF Left
<1>8. ASSUME NEW dep \in Name, Descends(dep) PROVE Nearer(Left', Left)
  <2>1. /\ color' = [color EXCEPT ![dep] = "grey"] /\ color[dep] = "white"
        /\ dep \in known /\ known' = known
    BY <1>8 DEF Descends
  <2>2. White' = White \ {dep} /\ dep \in White
    BY <2>1 DEF White, IInv, TypeOK
  <2>3. IsFiniteSet(White)
    BY FS_Subset DEF Bounded, White
  <2>4. Cardinality(White') < Cardinality(White)
    <3>1. Cardinality(White \ {dep}) = Cardinality(White) - 1 /\ Cardinality(White) \in Nat
      BY <2>2, <2>3, FS_RemoveElement, FS_CardinalityType
    <3>. QED  BY <2>2, <3>1
  <2>5. Left'[3] < Left[3]
    BY <2>4 DEF Left, White
  <2>6. Left'[1] = Left[1] /\ Left'[2] = Left[2]
    BY <1>7, <1>8 DEF Descends, Examining
  <2>7. 3 \in 1..5 /\ \A j \in 1..3 - 1 : j = 1 \/ j = 2
    OBVIOUS
  <2>. QED  BY <2>5, <2>6, <2>7, NearerAt
<1>9. ASSUME NEW dep \in Name, PassesOver(dep) PROVE Nearer(Left', Left)
  <2>1. /\ Examining(dep) /\ stack # <<>> /\ stack' = Advanced
        /\ UNCHANGED <<pc, at, order, known, deps, color>>
    BY <1>9 DEF PassesOver, Examining
  <2>2. /\ Len(stack) \in 1 .. Len(stack) /\ Top = stack[Len(stack)]
        /\ Top.name \in Name /\ Top.next \in Nat
    BY <2>1, StackIsNonEmpty
  <2>3. /\ stack' \in Seq(Frame) /\ Len(stack') = Len(stack)
        /\ stack'[Len(stack)].name = Top.name
        /\ stack'[Len(stack)].next = Top.next + 1
    BY <2>1, <2>2, AdvancedFacts DEF IInv
  <2>4. Top'.name = Top.name /\ Top'.next = Top.next + 1 /\ stack' # <<>>
    <3>1. Top' = stack'[Len(stack)]
      BY <2>3 DEF Top
    <3>2. stack' # <<>>
      BY <2>2, <2>3, EmptySeq
    <3>. QED  BY <2>3, <3>1, <3>2
  <2>5. Left'[1] = Left[1] /\ Left'[2] = Left[2]
    BY <1>7, <2>1 DEF Examining
  <2>6. Left'[3] = Left[3]
    BY <2>1 DEF Left
  <2>7. Left'[4] = Left[4]
    BY <2>3 DEF Left
  <2>8. Left'[5] < Left[5]
    <3>1. Left[5] = Len(deps[Top.name]) + 1 - Top.next
      BY <2>1, LeftFacts
    <3>2. Left'[5] = Len(deps[Top.name]) + 1 - (Top.next + 1)
      BY <2>1, <2>4 DEF Left
    <3>. QED  BY <1>0, <2>2, <3>1, <3>2
  <2>9. 5 \in 1..5 /\ \A j \in 1..5 - 1 : j = 1 \/ j = 2 \/ j = 3 \/ j = 4
    OBVIOUS
  <2>. QED  BY <2>5, <2>6, <2>7, <2>8, <2>9, NearerAt
<1>10. CASE Returns
  <2>1. /\ stack # <<>> /\ stack' = SubSeq(stack, 1, Len(stack) - 1)
        /\ color' = [color EXCEPT ![Top.name] = "black"]
        /\ pc = "search" /\ UNCHANGED <<pc, at, order, known, deps>>
    BY <1>10 DEF Returns
  <2>2. color[Top.name] = "grey" /\ Top.name \in Name
    BY <2>1, StackIsNonEmpty
  <2>3. White' = White
    BY <2>1, <2>2 DEF White, IInv, TypeOK
  <2>4. Left'[3] = Left[3]
    BY <2>3 DEF Left, White
  <2>5. Len(stack') = Len(stack) - 1
    BY <2>1, CallReturned DEF IInv
  <2>6. Left'[4] < Left[4]
    BY <1>0, <2>5 DEF Left
  <2>7. Left'[1] = Left[1] /\ Left'[2] = Left[2]
    BY <1>7, <2>1
  <2>8. 4 \in 1..5 /\ \A j \in 1..4 - 1 : j = 1 \/ j = 2 \/ j = 3
    OBVIOUS
  <2>. QED  BY <2>4, <2>6, <2>7, <2>8, NearerAt
<1>. QED  BY <1>1, <1>2, <1>3, <1>4, <1>5, <1>6, <1>8, <1>9, <1>10 DEF Next

LEMMA LeftIsNaturalNext == (IInv /\ Bounded)' => (Left \in [1..5 -> Nat])'
BY LeftIsNatural, PTL

\* Whatever the list, each step of the search leaves less to do.
THEOREM ApproachesCorrect == Spec => Approaches
<1>1. IInv /\ Bounded /\ [Next]_vars /\ (IInv /\ Bounded)'
        => [Left' \in [1..5 -> Nat] /\ Nearer(Left', Left)]_vars
  BY StepNearer, LeftIsNaturalNext
<1>. QED  BY <1>1, Invariance, BoundedInit, BoundedNext, PTL DEF Spec, Approaches

------------------------------------------------------------------------------
(* ... and one cannot go on doing that.                                       *)

Smaller == {ss \in Nat \X Nat : ss[1] < ss[2]}

LEMMA LeastAt ==
  ASSUME NEW T, T \subseteq [1..5 -> Nat], T # {}, NEW k \in 1..5
  PROVE  \E m \in T : \A t \in T : m[k] <= t[k]
<1> DEFINE V == {t[k] : t \in T}
<1>1. V \subseteq Nat /\ V # {}
  OBVIOUS
<1>2. IsWellFoundedOn(Smaller, Nat)
  BY NatLessThanWellFounded, SMT DEF OpToRel, Smaller
<1> HIDE DEF V
<1>3. PICK x \in V : \A y \in V : <<y, x>> \notin Smaller
  BY <1>1, <1>2, WFMin
<1>4. ASSUME NEW y \in V PROVE x <= y
  <2>1. x \in Nat /\ y \in Nat /\ <<y, x>> \notin Smaller
    BY <1>1, <1>3
  <2>2. y < x => <<y, x>> \in Smaller
    BY <2>1 DEF Smaller
  <2>. QED  BY <2>1, <2>2
<1>5. PICK m \in T : x = m[k]
  BY DEF V
<1>6. \A t \in T : t[k] \in V
  BY DEF V
<1>. QED  BY <1>4, <1>5, <1>6

\* Among any things left to do there is one that is nearest to the end.
LEMMA Nearest ==
  ASSUME NEW T, T \subseteq [1..5 -> Nat], T # {}
  PROVE  \E m \in T : \A t \in T : ~Nearer(t, m)
<1> 1 \in 1..5 /\ 2 \in 1..5 /\ 3 \in 1..5 /\ 4 \in 1..5 /\ 5 \in 1..5
  OBVIOUS
<1>1. PICK a \in T : \A t \in T : a[1] <= t[1]
  BY LeastAt, Zenon
<1> DEFINE A == {t \in T : t[1] = a[1]}
<1>2. PICK b \in A : \A t \in A : b[2] <= t[2]
  <2>1. A \subseteq [1..5 -> Nat] /\ A # {}
    OBVIOUS
  <2> HIDE DEF A
  <2>. QED  BY <2>1, LeastAt, Zenon
<1> DEFINE B == {t \in A : t[2] = b[2]}
<1>3. PICK c \in B : \A t \in B : c[3] <= t[3]
  <2>1. B \subseteq [1..5 -> Nat] /\ B # {}
    OBVIOUS
  <2> HIDE DEF B
  <2>. QED  BY <2>1, LeastAt, Zenon
<1> DEFINE C == {t \in B : t[3] = c[3]}
<1>4. PICK d \in C : \A t \in C : d[4] <= t[4]
  <2>1. C \subseteq [1..5 -> Nat] /\ C # {}
    OBVIOUS
  <2> HIDE DEF C
  <2>. QED  BY <2>1, LeastAt, Zenon
<1> DEFINE D == {t \in C : t[4] = d[4]}
<1>5. PICK e \in D : \A t \in D : e[5] <= t[5]
  <2>1. D \subseteq [1..5 -> Nat] /\ D # {}
    OBVIOUS
  <2> HIDE DEF D
  <2>. QED  BY <2>1, LeastAt, Zenon
<1>6. ASSUME NEW t \in T, Nearer(t, e) PROVE FALSE
  <2>1. PICK k \in 1..5 : t[k] < e[k] /\ \A j \in 1..k - 1 : t[j] = e[j]
    BY <1>6 DEF Nearer
  <2>2. /\ e[1] = a[1] /\ e[2] = b[2] /\ e[3] = c[3] /\ e[4] = d[4]
    OBVIOUS
  <2>3. /\ a \in [1..5 -> Nat] /\ b \in [1..5 -> Nat] /\ c \in [1..5 -> Nat]
        /\ d \in [1..5 -> Nat] /\ e \in [1..5 -> Nat] /\ t \in [1..5 -> Nat]
    OBVIOUS
  <2>4. /\ k > 1 => t[1] = a[1]
        /\ k > 2 => t[2] = b[2]
        /\ k > 3 => t[3] = c[3]
        /\ k > 4 => t[4] = d[4]
    BY <2>1, <2>2
  <2>5. CASE k = 1
    BY <1>1, <2>1, <2>2, <2>3, <2>5
  <2>6. CASE k = 2
    BY <1>2, <2>1, <2>2, <2>3, <2>4, <2>6
  <2>7. CASE k = 3
    BY <1>3, <2>1, <2>2, <2>3, <2>4, <2>7
  <2>8. CASE k = 4
    BY <1>4, <2>1, <2>2, <2>3, <2>4, <2>8
  <2>9. CASE k = 5
    BY <1>5, <2>1, <2>2, <2>3, <2>4, <2>9
  <2>. QED  BY <2>5, <2>6, <2>7, <2>8, <2>9
<1>. QED  BY <1>6

\* No list keeps the search busy for ever: there is no endless series of things left
\* to do in which each is nearer the end than the one before.
THEOREM NoEndlessSearch ==
  ~\E left \in [Nat -> [1..5 -> Nat]] : \A n \in Nat : Nearer(left[n + 1], left[n])
<1>. SUFFICES ASSUME NEW left \in [Nat -> [1..5 -> Nat]],
                     \A n \in Nat : Nearer(left[n + 1], left[n])
              PROVE  FALSE
  OBVIOUS
<1> DEFINE T == {left[n] : n \in Nat}
<1>1. T \subseteq [1..5 -> Nat] /\ T # {}
  OBVIOUS
<1>2. \A n \in Nat : left[n] \in T
  OBVIOUS
<1>3. \A t \in T : \E n \in Nat : t = left[n]
  OBVIOUS
<1> HIDE DEF T
<1>4. PICK m \in T : \A t \in T : ~Nearer(t, m)
  BY <1>1, Nearest
<1>5. PICK n \in Nat : m = left[n]
  BY <1>3
<1>6. n + 1 \in Nat /\ left[n + 1] \in T
  BY <1>2
<1>. QED  BY <1>4, <1>5, <1>6

==============================================================================
