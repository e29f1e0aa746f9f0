--------------------------- MODULE MCPlanSubmit ---------------------------
(* Small instances of PlanSubmit: file names, documents and the trees merges  *)
(* may publish.  Each pool of trees is named for the question it serves.      *)
EXTENDS PlanSubmit, FiniteSets, TLC

CONSTANTS r1, r2, p, q, b1, b2, x1, x2

FileName(stem, ext, mark, nested, ascii) ==
  [stem |-> stem, ext |-> ext, mark |-> mark, nested |-> nested, ascii |-> ascii]

aYaml == FileName("a", "yaml", "none", FALSE, TRUE)
bYml  == FileName("b", "yml", "none", FALSE, TRUE)
nestedA  == FileName("a", "yaml", "none", TRUE, TRUE)
exampleA == FileName("a", "yaml", "prefix", FALSE, TRUE)
bExample == FileName("b", "yml", "suffix", FALSE, TRUE)
accented == FileName("c", "yaml", "none", FALSE, FALSE)

PlanDoc(name, brief, extra) ==
  [kind |-> "Plan", name |-> name, brief |-> brief, extra |-> extra]

TwoFiles == {aYaml, bYml}
TwoPos == aYaml :> 1 @@ bYml :> 2

Pair(a, b) == aYaml :> a @@ bYml :> b

\* Plan p added, amended and withdrawn beside an unrelated plan q.
AmendTrees == { Pair(Absent, PlanDoc(q, b1, x1)),
                Pair(PlanDoc(p, b1, x1), PlanDoc(q, b1, x1)),
                Pair(PlanDoc(p, b2, x1), PlanDoc(q, b1, x1)) }

\* Two files that declare the same plan, and a plan without steps, which no
\* release can project, beside a good one.
MixedTrees == { Pair(Absent, Absent),
                Pair(PlanDoc(p, b1, x1), PlanDoc(p, b2, x1)),
                Pair(PlanDoc(p, b1, x1), PlanDoc(p, NoSteps, x1)) }

\* One plan whose brief and whose unsent part both change.
ExtraTrees == { Pair(Absent, Absent),
                Pair(PlanDoc(p, b1, x1), Absent),
                Pair(PlanDoc(p, b1, x2), Absent) }

\* Every kind of name: no file, or one of two documents under one name, or two
\* plans, or a plan beside a file of the same base name in a subdirectory.  Every
\* move from one name to another is one merge.
ManyFiles == {aYaml, bYml, nestedA, exampleA, bExample}
ManyPos == aYaml :> 1 @@ bYml :> 2 @@ nestedA :> 3 @@ exampleA :> 4 @@ bExample :> 5
NameTrees == {t \in [ManyFiles -> {Absent, PlanDoc(p, b1, x1), PlanDoc(q, b1, x1)}] :
                Cardinality(Present(t)) <= 1 \/ Present(t) \in {{aYaml, nestedA}, {aYaml, bYml}}}

\* A file whose path git prints quoted.
AccentFiles == {aYaml, accented}
AccentPos == aYaml :> 1 @@ accented :> 2
AccentTrees == [AccentFiles -> {Absent, PlanDoc(p, b1, x1)}]

Runs == Permutations({r1, r2})
==============================================================================
