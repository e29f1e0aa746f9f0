------------------------------ MODULE LintRun ------------------------------
(***************************************************************************)
(* What the gate reads of a catalog, and what others make of the same      *)
(* bytes: Run and main of plan-lint and the schemas kubeconform holds the  *)
(* documents to, the in-memory entry points of api.go that plan-api calls, *)
(* and plan-submit, which reads the files of plans/ again once they are    *)
(* merged.  A behaviour is the way of one pull request: the tree it would  *)
(* leave on main is linted, merged and released.                           *)
(*                                                                         *)
(* A file is the sequence of the YAML documents in it.  A document is      *)
(* [api, kind, name, spec, laptop, typed]: api, whether apiVersion is the  *)
(* one of R2, or else one of another group (of another version the schemas *)
(* know nothing and refuse it as well); laptop, whether its spec refers to *)
(* a laptop path (R10); typed, whether the fields of its spec have the     *)
(* types of the schemas, which are those plan-submit decodes them to.  A   *)
(* name that is not a string is no name.                                   *)
(***************************************************************************)
EXTENDS PlanLint

CONSTANTS
  Path,          \* the paths of a catalog, in sort.Strings order
  Label,         \* the names R4 allows
  NoName,        \* no metadata.name
  NoSpec,        \* no spec, an empty one, or no mapping
  Blank,         \* an empty YAML document
  Garbage,       \* what does not decode; a file that cannot be read starts with it
  NoRelease,     \* nothing has been released yet
  SomeCatalogs   \* the trees pull requests propose

DocKind == {"Plan", "PlanTemplate", "", "other"}

Document ==
  {d \in [api : BOOLEAN, kind : DocKind, name : TemplateName \cup {NoName},
          spec : PlanDoc \cup Template \cup {NoSpec}, laptop : BOOLEAN, typed : BOOLEAN] :
     d.spec # NoSpec => (d.spec \in Template <=> d.kind = "PlanTemplate")}

CatalogTree == [DOMAIN Path -> Seq(Document \cup {Blank, Garbage}) \cup {Absent}]

\* Of a path: the directory it is under, and the parts of its name SubmitScope reads.
ASSUME LintRunAssumption ==
  /\ \A p \in DOMAIN Path : /\ Path[p].dir \in {"plans", "templates"}
                            /\ Path[p].ext \in {"yaml", "yml", "other"}
  /\ Path \in Seq(Range(Path))
  /\ Label \subseteq TemplateName
  /\ NoName \notin TemplateName
  /\ {NoSpec, Absent} \cap (PlanDoc \cup Template) = {}
  /\ Garbage # Blank /\ {Blank, Garbage} \cap Document = {}
  /\ Absent \notin Seq(Document \cup {Blank, Garbage})
  /\ SomeCatalogs \subseteq CatalogTree

Submit == INSTANCE SubmitScope
  WITH File <- Range(Path), Pos <- [f \in Range(Path) |-> 0], PlanName <- TemplateName,
       Brief <- Seq(PlanStep) \ {<<>>}, NoSteps <- <<>>, Extra <- BOOLEAN, NoSource <- Absent

------------------------------------------------------------------------------
(* Documents in an order: a family indexed by <<file, place in the file>>.    *)

Comes(x, y) == x[1] < y[1] \/ (x[1] = y[1] /\ x[2] < y[2])

Declaring(list, n) == {x \in DOMAIN list : list[x].kind = "PlanTemplate" /\ list[x].name = n}

LatestOf(D) == CHOOSE x \in D : \A y \in D : ~Comes(x, y)

\* templateMeta: what there is to know of a template, though it may break its own rules.
TemplateMeta(spec) == IF spec = NoSpec THEN [required |-> {}, steps |-> <<>>] ELSE spec

\* BuildIndex, and the first pass of Run: a later template replaces an earlier one.
BuildIndex(list) ==
  [n \in TemplateName |->
     LET D == Declaring(list, n)
     IN  IF D = {} THEN Absent ELSE TemplateMeta(list[LatestOf(D)].spec)]

R3(doc) == doc.kind \in {"Plan", "PlanTemplate"}

\* Seeded fault for AcceptedIsProjected: without a spec there is nothing to report.
LintDocIfAny(doc, index) ==
  /\ doc.api
  /\ R3(doc)
  /\ doc.name \in Label
  /\ doc.spec # NoSpec /\ doc.kind = "Plan" => LintPlan(doc.spec, index)
  /\ doc.spec # NoSpec /\ doc.kind = "PlanTemplate" => LintTemplate(doc.spec)
  /\ ~doc.laptop

\* Without a spec (R1) no further rule looks at the document.
LintDoc(doc, index) ==
  /\ doc.api                                                      \* R2
  /\ R3(doc)
  /\ doc.name \in Label                                           \* R4
  /\ doc.spec # NoSpec                                            \* R1
  /\ doc.kind = "Plan" => LintPlan(doc.spec, index)
  /\ doc.kind = "PlanTemplate" => LintTemplate(doc.spec)
  /\ ~doc.laptop                                                  \* R10

\* Seeded fault for GateIsLintCatalog: one pass, which knows only what it has read.
LintDocsInOnePass(list) ==
  \A x \in DOMAIN list :
    LintDoc(list[x], BuildIndex([y \in {z \in DOMAIN list : Comes(z, x)} |-> list[y]]))

LintDocs(list) == \A x \in DOMAIN list : LintDoc(list[x], BuildIndex(list))

------------------------------------------------------------------------------
(* The gate.                                                                  *)

Files(files) == {p \in DOMAIN Path : files[p] # Absent /\ Path[p].ext = "yaml"}

\* Decoding a file stops at the first document that does not decode.
Decoded(files) ==
  {x \in UNION {{p} \X DOMAIN files[p] : p \in Files(files)} :
     /\ files[x[1]][x[2]] # Blank
     /\ \A i \in 1..x[2] : files[x[1]][i] # Garbage}

Documents(files) == [x \in Decoded(files) |-> files[x[1]][x[2]]]

AllDecode(parts) == \A i \in DOMAIN parts : parts[i] # Garbage     \* R1

Run(files) ==
  /\ \A p \in Files(files) : AllDecode(files[p])
  /\ LintDocs(Documents(files))

\* main: the exit status is 0.
ExitsZero(files, asJSON) == (~asJSON /\ Files(files) = {}) \/ Run(files)

\* What the schema of a step says beyond the types of its fields.
StepConforms(s) ==
  /\ s.name # Unnamed
  /\ s.kind \in StepKinds \cup {"none"}
  /\ s.trigger # NoTrigger => s.trigger.step # NoTarget /\ s.trigger.phase \in TriggerPhase

\* The schemas do not ask for a spec, a name or a group.
Conforms(doc) ==
  /\ doc.kind \in {"Plan", "PlanTemplate"}
  /\ doc.typed
  /\ doc.spec # NoSpec =>
       doc.spec.steps # <<>> /\ \A i \in DOMAIN doc.spec.steps : StepConforms(doc.spec.steps[i])

FileConforms(parts) ==
  AllDecode(parts) /\ \A i \in DOMAIN parts : parts[i] = Blank \/ Conforms(parts[i])

\* Seeded fault for SentWasJudged: kubeconform is given the files plan-lint reads.
ConformanceOfYaml(files) == \A p \in Files(files) : FileConforms(files[p])

\* kubeconform goes through .yml files as well.
Conformance(files) ==
  \A p \in DOMAIN Path :
    files[p] # Absent /\ Path[p].ext \in {"yaml", "yml"} => FileConforms(files[p])

------------------------------------------------------------------------------
(* plan-api: one submission, or one document against templates of its own.    *)

InBytes(parts) ==
  [x \in {y \in {1} \X DOMAIN parts : parts[y[2]] # Blank} |-> parts[x[2]]]

LintBytes(parts) == AllDecode(parts) /\ LintDocs(InBytes(parts))

LintOne(doc, known) == LintDoc(doc, BuildIndex(known))

------------------------------------------------------------------------------
(* plan-submit: project decodes the first document of a file, into fields.    *)

Zero == [kind |-> "", name |-> NoName, brief |-> <<>>, extra |-> FALSE]

AsSubmitted(parts) ==
  IF parts = <<>> \/ Head(parts) = Blank THEN Zero
  ELSE IF Head(parts) = Garbage \/ ~Head(parts).typed
    THEN [Zero EXCEPT !.kind = "undecodable"]
  ELSE [kind |-> Head(parts).kind, name |-> Head(parts).name, extra |-> FALSE,
        brief |-> IF Head(parts).spec = NoSpec THEN <<>> ELSE Head(parts).spec.steps]

\* The files of plans/ a release may send.
Released(files) ==
  {p \in DOMAIN Path : files[p] # Absent /\ Path[p].dir = "plans" /\ Submit!Submittable(Path[p])}

------------------------------------------------------------------------------
(* One pull request.                                                          *)

VARIABLES
  tree,     \* the catalog with the pull request merged
  stage,    \* "open", "accepted", "rejected" or "merged"
  release   \* the last release: the files in its scope, and what it sent for which

vars == <<tree, stage, release>>

Accepted == stage \in {"accepted", "merged"}

\* What a release sends is the steps of a plan under its name.
TypeOK ==
  /\ tree \in SomeCatalogs
  /\ stage \in {"open", "accepted", "rejected", "merged"}
  /\ release # NoRelease =>
       /\ release.scope \subseteq Released(tree)
       /\ release.sent \in [DOMAIN release.sent -> Submit!Request]
       /\ DOMAIN release.sent \in {{}, release.scope}

Init ==
  /\ tree \in SomeCatalogs
  /\ stage = "open"
  /\ release = NoRelease

Lint ==
  /\ stage = "open"
  /\ \E asJSON \in BOOLEAN :
       stage' = IF ExitsZero(tree, asJSON) /\ Conformance(tree) THEN "accepted" ELSE "rejected"
  /\ UNCHANGED <<tree, release>>

Merge ==
  /\ stage = "accepted"
  /\ stage' = "merged"
  /\ UNCHANGED <<tree, release>>

\* projectAll: a release with a file that is refused sends nothing.
Sends(scope) ==
  IF \A p \in scope : Submit!Projectable(AsSubmitted(tree[p]))
    THEN [p \in scope |-> Submit!Project(AsSubmitted(tree[p]))]
    ELSE <<>>

\* Which files are in the scope is SubmitScope's; here it may be any.
Release(scope) ==
  /\ stage = "merged"
  /\ release' = [scope |-> scope, sent |-> Sends(scope)]
  /\ UNCHANGED <<tree, stage>>

Next ==
  \/ Lint \/ Merge
  \/ \E scope \in SUBSET Released(tree) : scope # {} /\ Release(scope)

Spec == Init /\ [][Next]_vars

------------------------------------------------------------------------------
(* Properties.                                                                *)

docs == Documents(tree)

OneEach(list) ==
  \A x, y \in DOMAIN list :
    list[x].kind = "PlanTemplate" /\ list[y].kind = "PlanTemplate" /\ list[x].name = list[y].name
      => x = y

Plans == {docs[x].spec : x \in {y \in DOMAIN docs : docs[y].kind = "Plan"}}

\* With one document for each name, no order is needed.
Templates ==
  [n \in TemplateName |->
     IF Declaring(docs, n) = {} THEN Absent ELSE docs[CHOOSE x \in Declaring(docs, n) : TRUE].spec]

WellFormed(doc) ==
  doc.api /\ R3(doc) /\ doc.name \in Label /\ doc.spec # NoSpec /\ ~doc.laptop

\* If every document is well formed and conforms to its schema, and no two templates
\* have one name, the gate passes exactly when every template is right by itself
\* and every plan is right beside all of the templates, whichever files they are
\* in, and in whatever order these are read: a plan may come before its template.
\* This is what PlanAdmission takes the gate to be.
\* (Run's index pass and lint pass, LintDoc; main's exit status in both modes.)
GateIsLintCatalog ==
  /\ OneEach(docs)
  /\ Conformance(tree)
  /\ \A x \in DOMAIN docs : WellFormed(docs[x])
  => /\ Accepted => LintCatalog(Templates, Plans)
     /\ stage = "rejected" => ~LintCatalog(Templates, Plans)

\* What the gate has accepted plan-api accepts too, by the same rules: a file
\* submitted by itself, and each document beside whichever of the catalog's
\* templates plan-api has by then, as long as no two templates have one name.
\* (api.go's promise of one source of truth; R15 only warns of an unknown template.)
AcceptedEverywhere ==
  Accepted /\ OneEach(docs) =>
    /\ \A p \in Files(tree) : LintBytes(tree[p])
    /\ \A D \in SUBSET DOMAIN docs : \A x \in DOMAIN docs :
         LintOne(docs[x], [y \in D |-> docs[y]])

\* Every request a release makes is the first document of its file, a Plan that
\* conforms to the schema, whatever project is more lenient about; and of a .yaml file
\* it is one of the documents the gate has judged and let pass, with the steps it has
\* judged.  (A .yml file plan-lint has not seen: R5 and all the other rules say nothing
\* of it.  kubeconform's walk and Run's against discover's, R3 and the schemas' kinds
\* against project's, all documents of a file against the first.)
SentWasJudged ==
  release # NoRelease =>
    \A p \in DOMAIN release.sent :
      LET doc == Head(tree[p])
      IN  /\ doc.kind = "Plan" /\ Conforms(doc)
          /\ release.sent[p] = [name |-> doc.name, brief |-> doc.spec.steps]
          /\ Path[p].ext = "yaml" =>
               \E x \in DOMAIN docs : /\ x[1] = p /\ docs[x] = doc
                                      /\ LintPlan(doc.spec, BuildIndex(docs))

\* A release of .yaml files whose first document is no template never fails for what
\* is in them: of what the gate accepts, project refuses only an empty file or first
\* document, and a template under plans/.
\* (project's refusals against R1, R3, R4, R6 and the types of the schemas.)
AcceptedIsProjected ==
  release # NoRelease
    /\ (\A p \in release.scope :
          /\ Path[p].ext = "yaml"
          /\ tree[p] # <<>> /\ Head(tree[p]) # Blank
          /\ Head(tree[p]).kind # "PlanTemplate")
    => DOMAIN release.sent = release.scope

==============================================================================
