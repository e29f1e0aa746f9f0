--------------------------- MODULE LintRun_proofs ---------------------------
(***************************************************************************)
(* What the gate's verdict on a catalog is worth to those who read the     *)
(* same files again, for every tree, set of paths, names and rules.        *)
(***************************************************************************)
EXTENDS LintRun, SequenceTheorems, TLAPS

USE LintRunAssumption

------------------------------------------------------------------------------
(* The inductive invariant: the verdict is Run's and that of the schemas on a *)
(* tree that stays, and a release is of a tree the gate let pass.             *)

IInv ==
  /\ tree \in SomeCatalogs
  /\ stage \in {"open", "accepted", "rejected", "merged"}
  /\ Accepted => (Files(tree) = {} \/ Run(tree)) /\ Conformance(tree)
  /\ stage = "rejected" => ~Run(tree) \/ ~Conformance(tree)
  /\ release # NoRelease => /\ stage = "merged"
                            /\ release.scope \subseteq Released(tree)
                            /\ release.sent = Sends(release.scope)

LEMMA InitIInv == Init => IInv
BY DEF Init, IInv, Accepted

LEMMA NextIInv ==
  ASSUME IInv, [Next]_vars
  PROVE  IInv'
<1>1. CASE Lint
  <2>1. PICK asJSON \in BOOLEAN :
          stage' = IF ExitsZero(tree, asJSON) /\ Conformance(tree)
                     THEN "accepted" ELSE "rejected"
    BY <1>1 DEF Lint
  <2>2. CASE ExitsZero(tree, asJSON) /\ Conformance(tree)
    BY <1>1, <2>1, <2>2 DEF Lint, IInv, Accepted, ExitsZero
  <2>3. CASE ~(ExitsZero(tree, asJSON) /\ Conformance(tree))
    BY <1>1, <2>1, <2>3 DEF Lint, IInv, Accepted, ExitsZero
  <2>. QED  BY <2>2, <2>3
<1>2. CASE Merge
  BY <1>2 DEF Merge, IInv, Accepted
<1>3. ASSUME NEW scope \in SUBSET Released(tree), Release(scope)
      PROVE  IInv'
  <2>1. UNCHANGED <<tree, stage>> /\ stage = "merged"
    BY <1>3 DEF Release
  <2>2. release'.scope = scope /\ release'.sent = Sends(scope)
    BY <1>3 DEF Release
  <2>3. Sends(release.scope)' = Sends(scope)
    BY <2>1, <2>2 DEF Sends
  <2>4. (release.scope \subseteq Released(tree))'
    BY <2>1, <2>2 DEF Released
  <2>. QED  BY <2>1, <2>2, <2>3, <2>4 DEF IInv, Accepted
<1>4. CASE UNCHANGED vars
  <2>1. UNCHANGED <<tree, stage, release>>
    BY <1>4 DEF vars
  <2>. QED  BY <2>1 DEF IInv, Accepted, Sends
<1>. QED  BY <1>1, <1>2, <1>3, <1>4 DEF Next

\* Whatever is proposed, the verdict is Run's and the schemas', and every release is made of the files
\* of a tree that has it.
THEOREM Invariance == Spec => []IInv
<1>. QED  BY InitIInv, NextIInv, PTL DEF Spec

------------------------------------------------------------------------------
(* Documents and where they are.                                              *)

LEMMA DocumentAt ==
  ASSUME NEW files \in CatalogTree, NEW x \in Decoded(files)
  PROVE  /\ x[1] \in Files(files)
         /\ x[1] \in Nat /\ x[2] \in Nat /\ x = <<x[1], x[2]>>
         /\ x[2] \in DOMAIN files[x[1]]
         /\ Documents(files)[x] = files[x[1]][x[2]]
         /\ Documents(files)[x] \in Document
<1>1. PICK p \in Files(files) : x \in {p} \X DOMAIN files[p]
  BY DEF Decoded
<1>2. p \in DOMAIN Path /\ files[p] # Absent
  BY DEF Files
<1>3. files[p] \in Seq(Document \cup {Blank, Garbage})
  BY <1>2 DEF CatalogTree
<1>4. p \in Nat
  BY <1>2, LenProperties
<1>5. x[1] = p /\ x[2] \in DOMAIN files[p] /\ x = <<x[1], x[2]>>
  BY <1>1
<1>6. x[2] \in Nat /\ x[2] \in 1..x[2]
  <2>1. x[2] \in 1..Len(files[p]) /\ Len(files[p]) \in Nat
    BY <1>3, <1>5, LenProperties
  <2>. QED  BY <2>1
<1>7. files[p][x[2]] \in Document \cup {Blank, Garbage}
  BY <1>3, <1>5, ElementOfSeq, LenProperties
<1>8. files[p][x[2]] # Blank /\ files[p][x[2]] # Garbage
  BY <1>5, <1>6 DEF Decoded
<1>. QED  BY <1>4, <1>5, <1>6, <1>7, <1>8 DEF Documents

LEMMA DocumentOf ==
  ASSUME NEW files \in CatalogTree, NEW p \in Files(files), NEW i \in DOMAIN files[p],
         AllDecode(files[p]), files[p][i] # Blank
  PROVE  <<p, i>> \in Decoded(files) /\ Documents(files)[<<p, i>>] = files[p][i]
<1>1. files[p] \in Seq(Document \cup {Blank, Garbage})
  BY DEF CatalogTree, Files
<1>2. i \in 1..Len(files[p]) /\ DOMAIN files[p] = 1..Len(files[p]) /\ Len(files[p]) \in Nat
  BY <1>1, LenProperties
<1>3. \A j \in 1..i : files[p][j] # Garbage
  BY <1>2 DEF AllDecode
<1>4. <<p, i>> \in {p} \X DOMAIN files[p]
  OBVIOUS
<1>. QED  BY <1>3, <1>4 DEF Decoded, Documents

LEMMA Tree ==
  ASSUME IInv
  PROVE  /\ tree \in CatalogTree
         /\ DOMAIN docs = Decoded(tree)
         /\ Accepted => \A p \in Files(tree) : AllDecode(tree[p])
         /\ Accepted => LintDocs(docs)
<1>1. tree \in CatalogTree
  BY DEF IInv
<1>2. DOMAIN docs = Decoded(tree)
  BY DEF docs, Documents
<1>3. ASSUME Accepted PROVE \A p \in Files(tree) : AllDecode(tree[p])
  BY <1>3 DEF IInv, Run
<1>4. ASSUME Accepted PROVE LintDocs(docs)
  <2>1. CASE Files(tree) = {}
    BY <1>2, <2>1 DEF LintDocs, Decoded
  <2>2. CASE Run(tree)
    BY <2>2 DEF Run, docs
  <2>. QED  BY <1>4, <2>1, <2>2 DEF IInv
<1>. QED  BY <1>1, <1>2, <1>3, <1>4

------------------------------------------------------------------------------
(* What a release makes of them.                                              *)

LEMMA HeadIsFirst ==
  ASSUME NEW S, NEW seq \in Seq(S), seq # <<>>
  PROVE  Head(seq) = seq[1] /\ 1 \in DOMAIN seq /\ seq[1] \in S
<1>1. Len(seq) \in Nat /\ Len(seq) # 0 /\ DOMAIN seq = 1..Len(seq)
  BY EmptySeq, LenProperties
<1>2. 1 \in DOMAIN seq
  BY <1>1
<1>. QED  BY <1>2, HeadTailProperties, ElementOfSeq, <1>1

\* A file that is not refused begins with a document, a Plan or one without a kind.
LEMMA ProjectableDocument ==
  ASSUME NEW files \in CatalogTree, NEW p \in Released(files),
         Submit!Projectable(AsSubmitted(files[p]))
  PROVE  /\ files[p] # <<>> /\ Head(files[p]) \in Document
         /\ Head(files[p]).kind \in {"Plan", ""}
         /\ Head(files[p]).name \in TemplateName
         /\ Head(files[p]).spec \in PlanDoc /\ Head(files[p]).spec.steps # <<>>
         /\ Submit!Project(AsSubmitted(files[p])) =
              [name |-> Head(files[p]).name, brief |-> Head(files[p]).spec.steps]
<1> DEFINE parts == files[p]
           doc == Head(parts)
<1>1. parts \in Seq(Document \cup {Blank, Garbage})
  BY DEF CatalogTree, Released
<1>2. parts # <<>> /\ doc # Blank
  BY DEF Submit!Projectable, AsSubmitted, Zero
<1>3. doc # Garbage /\ doc.typed
  BY <1>2 DEF Submit!Projectable, AsSubmitted, Zero
<1>4. doc \in Document
  BY <1>1, <1>2, <1>3, HeadIsFirst
<1> DEFINE brief == IF doc.spec = NoSpec THEN <<>> ELSE doc.spec.steps
           sent  == [kind |-> doc.kind, name |-> doc.name, extra |-> FALSE, brief |-> brief]
<1>5. AsSubmitted(parts) = sent
  BY <1>2, <1>3 DEF AsSubmitted
<1>6. sent.kind = doc.kind /\ sent.name = doc.name /\ sent.brief = brief
  OBVIOUS
<1>7. sent.kind \in {"Plan", ""} /\ sent.name # NoName /\ sent.brief # <<>>
  <2> HIDE DEF sent, doc
  <2>. QED  BY <1>5 DEF Submit!Projectable
<1>8. Submit!Project(AsSubmitted(parts)) = [name |-> sent.name, brief |-> sent.brief]
  <2> HIDE DEF sent
  <2>. QED  BY <1>5 DEF Submit!Project
<1> HIDE DEF sent
<1>9. doc.kind \in {"Plan", ""} /\ doc.name # NoName
  BY <1>6, <1>7
<1>10. doc.spec # NoSpec /\ doc.spec.steps # <<>> /\ brief = doc.spec.steps
  BY <1>6, <1>7
<1>11. doc.name \in TemplateName /\ doc.spec \in PlanDoc
  BY <1>4, <1>9, <1>10 DEF Document
<1>. QED  BY <1>2, <1>4, <1>6, <1>8, <1>9, <1>10, <1>11

LEMMA SentIs ==
  ASSUME IInv, release # NoRelease
  PROVE  /\ release.scope \subseteq Released(tree)
         /\ \/ /\ \A p \in release.scope : Submit!Projectable(AsSubmitted(tree[p]))
               /\ release.sent = [p \in release.scope |-> Submit!Project(AsSubmitted(tree[p]))]
            \/ /\ \E p \in release.scope : ~Submit!Projectable(AsSubmitted(tree[p]))
               /\ release.sent = <<>>
BY DEF IInv, Sends

LEMMA InvType ==
  ASSUME IInv
  PROVE  TypeOK
<1>1. ASSUME release # NoRelease
      PROVE  /\ release.sent \in [DOMAIN release.sent -> Submit!Request]
             /\ DOMAIN release.sent \in {{}, release.scope}
  <2>1. CASE release.sent = <<>>
    <3>1. DOMAIN release.sent = {}
      BY <2>1, EmptySeq
    <3>. QED  BY <2>1, <3>1
  <2>2. CASE /\ \A p \in release.scope : Submit!Projectable(AsSubmitted(tree[p]))
             /\ release.sent = [p \in release.scope |-> Submit!Project(AsSubmitted(tree[p]))]
    <3>1. ASSUME NEW p \in release.scope
          PROVE  Submit!Project(AsSubmitted(tree[p])) \in Submit!Request
      <4>1. Head(tree[p]).spec \in PlanDoc /\ Head(tree[p]).spec.steps # <<>>
             /\ Head(tree[p]).name \in TemplateName
             /\ Submit!Project(AsSubmitted(tree[p])) =
                  [name |-> Head(tree[p]).name, brief |-> Head(tree[p]).spec.steps]
        BY <1>1, <2>2, Tree, SentIs, ProjectableDocument
      <4>2. Head(tree[p]).spec.steps \in Seq(PlanStep) \ {<<>>}
        BY <4>1 DEF PlanDoc
      <4>. QED  BY <4>1, <4>2 DEF Submit!Request
    <3>. QED  BY <2>2, <3>1
  <2>. QED  BY <1>1, <2>1, <2>2, SentIs
<1>. QED  BY <1>1, SentIs DEF TypeOK, IInv

\* A release sends nothing but requests of plan-api's form, and none but for the files
\* it may send.
THEOREM TypeCorrect == Spec => []TypeOK
<1>. QED  BY Invariance, InvType, PTL

\* The gate has judged every file a release takes a .yaml plan from.
LEMMA ReleasedIsJudged ==
  ASSUME IInv, release # NoRelease, NEW p \in release.scope, Path[p].ext = "yaml"
  PROVE  p \in Files(tree) /\ AllDecode(tree[p]) /\ LintDocs(docs)
<1>1. Accepted
  BY DEF IInv, Accepted
<1>2. p \in Files(tree)
  BY SentIs DEF Released, Files
<1>. QED  BY <1>1, <1>2, Tree

LEMMA FirstDocument ==
  ASSUME IInv, NEW p \in Files(tree), AllDecode(tree[p]), LintDocs(docs),
         tree[p] # <<>>, Head(tree[p]) # Blank
  PROVE  /\ <<p, 1>> \in DOMAIN docs /\ docs[<<p, 1>>] = Head(tree[p])
         /\ Head(tree[p]) \in Document
         /\ LintDoc(Head(tree[p]), BuildIndex(docs))
<1>1. tree \in CatalogTree /\ DOMAIN docs = Decoded(tree)
  BY Tree
<1>2. tree[p] \in Seq(Document \cup {Blank, Garbage})
  BY <1>1 DEF CatalogTree, Files
<1>3. Head(tree[p]) = tree[p][1] /\ 1 \in DOMAIN tree[p]
  BY <1>2, HeadIsFirst
<1>4. <<p, 1>> \in Decoded(tree) /\ docs[<<p, 1>>] = Head(tree[p])
  BY <1>1, <1>3, DocumentOf DEF docs
<1>5. docs[<<p, 1>>] \in Document
  BY <1>1, <1>4, DocumentAt DEF docs
<1>. QED  BY <1>1, <1>4, <1>5 DEF LintDocs

\* kubeconform has held every file a release takes a plan from to its schema.
LEMMA ReleasedConforms ==
  ASSUME IInv, release # NoRelease, NEW p \in release.scope,
         tree[p] # <<>>, Head(tree[p]) # Blank
  PROVE  Conforms(Head(tree[p]))
<1>1. p \in Released(tree)
  BY SentIs
<1>2. p \in DOMAIN Path /\ tree[p] # Absent /\ Path[p].ext \in {"yaml", "yml"}
  BY <1>1 DEF Released, Submit!Submittable
<1>3. Conformance(tree)
  BY DEF IInv, Accepted
<1>4. FileConforms(tree[p])
  BY <1>2, <1>3 DEF Conformance
<1>5. tree[p] \in Seq(Document \cup {Blank, Garbage})
  BY <1>2, Tree DEF CatalogTree
<1>6. Head(tree[p]) = tree[p][1] /\ 1 \in DOMAIN tree[p]
  BY <1>5, HeadIsFirst
<1>. QED  BY <1>4, <1>6 DEF FileConforms

LEMMA InvSent ==
  ASSUME IInv
  PROVE  SentWasJudged
<1> SUFFICES ASSUME release # NoRelease, NEW p \in DOMAIN release.sent
             PROVE  /\ Head(tree[p]).kind = "Plan" /\ Conforms(Head(tree[p]))
                    /\ release.sent[p] =
                         [name |-> Head(tree[p]).name, brief |-> Head(tree[p]).spec.steps]
                    /\ Path[p].ext = "yaml" =>
                         \E x \in DOMAIN docs : /\ x[1] = p /\ docs[x] = Head(tree[p])
                                                /\ LintPlan(Head(tree[p]).spec, BuildIndex(docs))
  BY DEF SentWasJudged
<1> DEFINE doc == Head(tree[p])
<1>1. /\ p \in release.scope /\ p \in Released(tree)
      /\ Submit!Projectable(AsSubmitted(tree[p]))
      /\ release.sent[p] = Submit!Project(AsSubmitted(tree[p]))
  BY SentIs, EmptySeq
<1>2. /\ tree[p] # <<>> /\ doc \in Document /\ doc.kind \in {"Plan", ""}
      /\ release.sent[p] = [name |-> doc.name, brief |-> doc.spec.steps]
  BY <1>1, Tree, ProjectableDocument
<1>3. doc # Blank
  BY <1>2
<1>4. Conforms(doc)
  BY <1>1, <1>2, <1>3, ReleasedConforms
<1>5. doc.kind = "Plan"
  BY <1>2, <1>4 DEF Conforms
<1>6. ASSUME Path[p].ext = "yaml"
      PROVE  \E x \in DOMAIN docs : /\ x[1] = p /\ docs[x] = doc
                                    /\ LintPlan(doc.spec, BuildIndex(docs))
  <2>1. p \in Files(tree) /\ AllDecode(tree[p]) /\ LintDocs(docs)
    BY <1>1, <1>6, ReleasedIsJudged
  <2>2. /\ <<p, 1>> \in DOMAIN docs /\ docs[<<p, 1>>] = doc
        /\ LintDoc(doc, BuildIndex(docs))
    BY <1>2, <1>3, <2>1, FirstDocument
  <2>3. LintPlan(doc.spec, BuildIndex(docs))
    BY <1>5, <2>2 DEF LintDoc
  <2> DEFINE x == <<p, 1>>
  <2>4. x \in DOMAIN docs /\ x[1] = p /\ docs[x] = doc
    BY <2>2
  <2> HIDE DEF x
  <2>. QED  BY <2>3, <2>4
<1>. QED  BY <1>2, <1>4, <1>5, <1>6

\* Every request is the first document of its file, a Plan that conforms to the schema;
\* of a .yaml file it is as the gate has judged it.
THEOREM SentWasJudgedCorrect == Spec => []SentWasJudged
<1>. QED  BY Invariance, InvSent, PTL

LEMMA InvProjected ==
  ASSUME IInv
  PROVE  AcceptedIsProjected
<1> SUFFICES ASSUME release # NoRelease,
                    \A p \in release.scope :
                      /\ Path[p].ext = "yaml"
                      /\ tree[p] # <<>> /\ Head(tree[p]) # Blank
                      /\ Head(tree[p]).kind # "PlanTemplate"
             PROVE  DOMAIN release.sent = release.scope
  BY DEF AcceptedIsProjected
<1>1. ASSUME NEW p \in release.scope
      PROVE  Submit!Projectable(AsSubmitted(tree[p]))
  <2> DEFINE doc == Head(tree[p])
  <2>1. tree[p] # <<>> /\ doc # Blank /\ doc.kind # "PlanTemplate"
    OBVIOUS
  <2>0. doc.typed
    BY <2>1, ReleasedConforms DEF Conforms
  <2>2. doc \in Document /\ LintDoc(doc, BuildIndex(docs))
    BY <2>1, ReleasedIsJudged, FirstDocument
  <2>3. doc.kind = "Plan" /\ doc.name # NoName /\ doc.spec # NoSpec
    BY <2>1, <2>2 DEF LintDoc, R3
  <2>4. doc.spec.steps # <<>>
    BY <2>2, <2>3 DEF LintDoc, LintPlan, StepsAccepted, NamedThroughout
  <2>5. doc # Garbage
    BY <2>2
  <2>. QED  BY <2>0, <2>1, <2>3, <2>4, <2>5 DEF Submit!Projectable, AsSubmitted
<1>. QED  BY <1>1, SentIs

\* A release of .yaml files that begin with a document other than a template refuses
\* none of them.
THEOREM AcceptedIsProjectedCorrect == Spec => []AcceptedIsProjected
<1>. QED  BY Invariance, InvProjected, PTL

------------------------------------------------------------------------------
(* The index, when no two templates have one name.                            *)

Places(list) == \A x \in DOMAIN list : x[1] \in Nat /\ x[2] \in Nat

LEMMA IndexOfOne ==
  ASSUME NEW list, Places(list), OneEach(list),
         NEW n \in TemplateName, NEW z \in Declaring(list, n)
  PROVE  BuildIndex(list)[n] = TemplateMeta(list[z].spec)
<1> DEFINE D == Declaring(list, n)
<1>1. \A x \in D : x = z
  BY DEF Declaring, OneEach
<1>2. \A x \in D : ~Comes(z, x)
  <2>1. z[1] \in Nat /\ z[2] \in Nat
    BY DEF Declaring, Places
  <2>2. ~Comes(z, z)
    BY <2>1 DEF Comes
  <2>. QED  BY <1>1, <2>2
<1>3. \E x \in D : \A y \in D : ~Comes(x, y)
  BY <1>2
<1>4. LatestOf(D) \in D
  <2> HIDE DEF D
  <2>. QED  BY <1>3 DEF LatestOf
<1>5. LatestOf(D) = z
  BY <1>1, <1>4
<1>. QED  BY <1>5 DEF BuildIndex

LEMMA IndexOfNone ==
  ASSUME NEW list, NEW n \in TemplateName, Declaring(list, n) = {}
  PROVE  BuildIndex(list)[n] = Absent
BY DEF BuildIndex

\* A list whose documents are all in another knows of a template what that one knows,
\* or nothing.
LEMMA IndexOfPart ==
  ASSUME NEW list, NEW part, Places(list), OneEach(list), Places(part), OneEach(part),
         \A x \in DOMAIN part : \E y \in DOMAIN list : list[y] = part[x],
         NEW n \in TemplateName
  PROVE  BuildIndex(part)[n] \in {Absent, BuildIndex(list)[n]}
<1>1. CASE Declaring(part, n) = {}
  BY <1>1, IndexOfNone
<1>2. ASSUME NEW z \in Declaring(part, n)
      PROVE  BuildIndex(part)[n] = BuildIndex(list)[n]
  <2>1. z \in DOMAIN part
    BY DEF Declaring
  <2>2. PICK y \in DOMAIN list : list[y] = part[z]
    BY <2>1
  <2>3. y \in Declaring(list, n)
    BY <2>2 DEF Declaring
  <2>. QED  BY <2>2, <2>3, IndexOfOne
<1>. QED  BY <1>1, <1>2

\* Who knows fewer templates finds no more to report.
LEMMA FewerTemplates ==
  ASSUME NEW I, NEW J, \A n \in TemplateName : J[n] \in {Absent, I[n]},
         NEW doc \in Document, LintDoc(doc, I)
  PROVE  LintDoc(doc, J)
<1>1. ASSUME doc.kind = "Plan" PROVE LintPlan(doc.spec, J)
  <2> DEFINE steps == doc.spec.steps
  <2>1. LintPlan(doc.spec, I) /\ doc.spec \in PlanDoc
    BY <1>1 DEF LintDoc, Document
  <2>2. ASSUME NEW i \in DOMAIN steps PROVE StepClean(steps[i], J)
    <3>1. steps \in Seq(PlanStep)
      BY <2>1 DEF PlanDoc
    <3>2. steps[i] \in PlanStep
      BY <3>1, ElementOfSeq, LenProperties
    <3>3. Uses(steps[i]) => steps[i].use \in TemplateName
      BY <3>2 DEF PlanStep, StepNamed, Uses
    <3>4. StepClean(steps[i], I)
      BY <2>1 DEF LintPlan
    <3>5. R16(steps[i], J)
      BY <3>3, <3>4 DEF StepClean, R16
    <3>. QED  BY <3>4, <3>5 DEF StepClean
  <2>. QED  BY <2>1, <2>2 DEF LintPlan
<1>. QED  BY <1>1 DEF LintDoc

LEMMA PlacesOfDocs ==
  ASSUME IInv
  PROVE  Places(docs) /\ \A x \in DOMAIN docs : docs[x] \in Document
BY Tree, DocumentAt DEF docs, Places

------------------------------------------------------------------------------
(* The gate and the rules, the gate and plan-api.                             *)

LEMMA IndexIsTemplates ==
  ASSUME IInv, OneEach(docs), \A x \in DOMAIN docs : WellFormed(docs[x]),
         NEW n \in TemplateName
  PROVE  /\ BuildIndex(docs)[n] = Templates[n]
         /\ \A x \in Declaring(docs, n) : Templates[n] = docs[x].spec
         /\ Declaring(docs, n) = {} => Templates[n] = Absent
<1>1. CASE Declaring(docs, n) = {}
  BY <1>1, IndexOfNone DEF Templates
<1>2. ASSUME NEW x \in Declaring(docs, n)
      PROVE  BuildIndex(docs)[n] = Templates[n] /\ Templates[n] = docs[x].spec
  <2>1. \A y \in Declaring(docs, n) : y = x
    BY DEF Declaring, OneEach
  <2>2. Templates[n] = docs[x].spec
    <3>1. (CHOOSE y \in Declaring(docs, n) : TRUE) = x
      BY <2>1
    <3>. QED  BY <3>1 DEF Templates
  <2>3. docs[x].spec # NoSpec
    BY DEF Declaring, WellFormed
  <2>4. BuildIndex(docs)[n] = docs[x].spec
    BY <2>3, PlacesOfDocs, IndexOfOne DEF TemplateMeta
  <2>. QED  BY <2>2, <2>4
<1>. QED  BY <1>1, <1>2

\* Run's verdict is the two rules' on all templates and all plans.
LEMMA RunIsLintCatalog ==
  ASSUME IInv, OneEach(docs), \A x \in DOMAIN docs : WellFormed(docs[x])
  PROVE  LintDocs(docs) <=> LintCatalog(Templates, Plans)
<1> DEFINE I == BuildIndex(docs)
<1>1. I = Templates
  BY IndexIsTemplates DEF BuildIndex, Templates
<1>2. ASSUME LintDocs(docs) PROVE LintCatalog(Templates, Plans)
  <2>1. ASSUME NEW n \in TemplateName, Templates[n] # Absent PROVE LintTemplate(Templates[n])
    <3>1. PICK x \in Declaring(docs, n) : TRUE
      BY <2>1, IndexIsTemplates
    <3>2. x \in DOMAIN docs /\ docs[x].kind = "PlanTemplate"
      BY DEF Declaring
    <3>3. LintTemplate(docs[x].spec)
      BY <1>2, <3>2 DEF LintDocs, LintDoc
    <3>. QED  BY <3>1, <3>3, IndexIsTemplates
  <2>2. ASSUME NEW plan \in Plans PROVE LintPlan(plan, Templates)
    <3>1. PICK x \in DOMAIN docs : docs[x].kind = "Plan" /\ plan = docs[x].spec
      BY DEF Plans
    <3>2. LintPlan(docs[x].spec, I)
      BY <1>2, <3>1 DEF LintDocs, LintDoc
    <3>. QED  BY <1>1, <3>1, <3>2
  <2>. QED  BY <2>1, <2>2 DEF LintCatalog
<1>3. ASSUME LintCatalog(Templates, Plans), NEW x \in DOMAIN docs PROVE LintDoc(docs[x], I)
  <2>1. WellFormed(docs[x]) /\ docs[x] \in Document
    BY PlacesOfDocs
  <2>2. ASSUME docs[x].kind = "Plan" PROVE LintPlan(docs[x].spec, I)
    <3>1. docs[x].spec \in Plans
      BY <2>2 DEF Plans
    <3>. QED  BY <1>1, <1>3, <3>1 DEF LintCatalog
  <2>3. ASSUME docs[x].kind = "PlanTemplate" PROVE LintTemplate(docs[x].spec)
    <3> DEFINE n == docs[x].name
    <3>1. n \in TemplateName
      BY <2>1 DEF WellFormed
    <3>2. x \in Declaring(docs, n)
      BY <2>3 DEF Declaring
    <3>3. Templates[n] = docs[x].spec
      BY <3>1, <3>2, IndexIsTemplates
    <3>4. docs[x].spec \in Template /\ Templates[n] # Absent
      BY <2>1, <2>3, <3>3 DEF WellFormed, Document
    <3>. QED  BY <1>3, <3>1, <3>3, <3>4 DEF LintCatalog
  <2>. QED  BY <2>1, <2>2, <2>3 DEF LintDoc, WellFormed
<1>. QED  BY <1>2, <1>3 DEF LintDocs

LEMMA InvGate ==
  ASSUME IInv
  PROVE  GateIsLintCatalog
<1> SUFFICES ASSUME OneEach(docs), Conformance(tree),
                    \A x \in DOMAIN docs : WellFormed(docs[x])
             PROVE  /\ Accepted => LintCatalog(Templates, Plans)
                    /\ stage = "rejected" => ~LintCatalog(Templates, Plans)
  BY DEF GateIsLintCatalog
<1>1. Accepted => LintDocs(docs)
  BY Tree
<1>2. \A p \in Files(tree) : AllDecode(tree[p])
  BY DEF Conformance, FileConforms, Files
<1>3. stage = "rejected" => ~LintDocs(docs)
  BY <1>2 DEF IInv, Run, docs
<1>. QED  BY <1>1, <1>3, RunIsLintCatalog

\* The gate's verdict on a catalog of well-formed documents is that of the rules on its
\* templates and plans, in whatever files and in whatever order they are.
THEOREM GateIsLintCatalogCorrect == Spec => []GateIsLintCatalog
<1>. QED  BY Invariance, InvGate, PTL

LEMMA InvEverywhere ==
  ASSUME IInv
  PROVE  AcceptedEverywhere
<1> SUFFICES ASSUME Accepted, OneEach(docs)
             PROVE  /\ \A p \in Files(tree) : LintBytes(tree[p])
                    /\ \A D \in SUBSET DOMAIN docs : \A x \in DOMAIN docs :
                         LintOne(docs[x], [y \in D |-> docs[y]])
  BY DEF AcceptedEverywhere
<1>1. tree \in CatalogTree /\ LintDocs(docs) /\ DOMAIN docs = Decoded(tree)
  BY Tree
<1>2. Places(docs) /\ \A x \in DOMAIN docs : docs[x] \in Document
  BY PlacesOfDocs
<1>3. ASSUME NEW p \in Files(tree) PROVE LintBytes(tree[p])
  <2> DEFINE part == InBytes(tree[p])
  <2>1. AllDecode(tree[p])
    BY Tree
  <2>2. ASSUME NEW x \in DOMAIN part
        PROVE  /\ x[1] \in Nat /\ x[2] \in Nat /\ x = <<1, x[2]>>
               /\ <<p, x[2]>> \in DOMAIN docs /\ docs[<<p, x[2]>>] = part[x]
    <3>1. x \in {1} \X DOMAIN tree[p] /\ tree[p][x[2]] # Blank /\ part[x] = tree[p][x[2]]
      BY DEF InBytes
    <3>2. x[1] = 1 /\ x[2] \in DOMAIN tree[p] /\ x = <<1, x[2]>>
      BY <3>1
    <3>3. <<p, x[2]>> \in Decoded(tree) /\ docs[<<p, x[2]>>] = part[x]
      BY <1>1, <2>1, <3>1, <3>2, DocumentOf DEF docs
    <3>4. <<p, x[2]>>[2] \in Nat
      BY <1>1, <3>3, DocumentAt
    <3>. QED  BY <1>1, <3>2, <3>3, <3>4
  <2> HIDE DEF part
  <2>3. Places(part)
    BY <2>2 DEF Places
  <2>4. OneEach(part)
    <3> SUFFICES ASSUME NEW x \in DOMAIN part, NEW y \in DOMAIN part,
                        part[x].kind = "PlanTemplate", part[y].kind = "PlanTemplate",
                        part[x].name = part[y].name
                 PROVE  x = y
      BY DEF OneEach
    <3> DEFINE at(z) == <<p, z[2]>>
    <3>0. /\ at(x) \in DOMAIN docs /\ docs[at(x)] = part[x]
          /\ at(y) \in DOMAIN docs /\ docs[at(y)] = part[y]
      BY <2>2
    <3>1. at(x) = at(y)
      <4> HIDE DEF at
      <4>. QED  BY <3>0 DEF OneEach
    <3>2. x[2] = y[2]
      BY <3>1
    <3>. QED  BY <2>2, <3>2, ZenonT(30)
  <2>5. \A x \in DOMAIN part : \E y \in DOMAIN docs : docs[y] = part[x]
    BY <2>2
  <2>6. \A n \in TemplateName : BuildIndex(part)[n] \in {Absent, BuildIndex(docs)[n]}
    BY <1>2, <2>3, <2>4, <2>5, IndexOfPart
  <2>7. ASSUME NEW x \in DOMAIN part PROVE LintDoc(part[x], BuildIndex(part))
    <3>1. PICK y \in DOMAIN docs : docs[y] = part[x]
      BY <2>5
    <3>2. part[x] \in Document /\ LintDoc(part[x], BuildIndex(docs))
      BY <1>1, <1>2, <3>1 DEF LintDocs
    <3>. QED  BY <2>6, <3>2, FewerTemplates
  <2>. QED  BY <2>1, <2>7 DEF LintBytes, LintDocs, part
<1>4. ASSUME NEW D \in SUBSET DOMAIN docs, NEW x \in DOMAIN docs
      PROVE  LintOne(docs[x], [y \in D |-> docs[y]])
  <2> DEFINE part == [y \in D |-> docs[y]]
  <2>1. Places(part)
    BY <1>2 DEF Places
  <2>2. OneEach(part)
    BY DEF OneEach
  <2>3. \A y \in DOMAIN part : \E z \in DOMAIN docs : docs[z] = part[y]
    OBVIOUS
  <2> HIDE DEF part
  <2>4. \A n \in TemplateName : BuildIndex(part)[n] \in {Absent, BuildIndex(docs)[n]}
    BY <1>2, <2>1, <2>2, <2>3, IndexOfPart
  <2>5. LintDoc(docs[x], BuildIndex(docs))
    BY <1>1 DEF LintDocs
  <2>6. LintDoc(docs[x], BuildIndex(part))
    BY <1>2, <2>4, <2>5, FewerTemplates
  <2>. QED  BY <2>6 DEF LintOne, part
<1>. QED  BY <1>3, <1>4

\* What the gate has accepted plan-api accepts, file by file and document by document,
\* whichever of the catalog's templates it knows.
THEOREM AcceptedEverywhereCorrect == Spec => []AcceptedEverywhere
<1>. QED  BY Invariance, InvEverywhere, PTL

==============================================================================
