---------------------------- MODULE MCLintRun ----------------------------
(* Catalogs of a plan in a .yaml file, in a .yml file and in a subdirectory,  *)
(* beside a second plan and a file of templates.  (The texts of               *)
(* MCStripComments are checked before this run, which does not use them.)     *)
EXTENDS LintRun, MCDocuments, MCStripComments

FileAt(dir, stem, ext, nested) ==
  [dir |-> dir, stem |-> stem, ext |-> ext, mark |-> "none", nested |-> nested, ascii |-> TRUE]

Paths == << FileAt("plans", "a", "yaml", FALSE), FileAt("plans", "b", "yml", FALSE),
            FileAt("plans", "d", "yaml", FALSE), FileAt("plans", "sub/a", "yaml", TRUE),
            FileAt("templates", "c", "yaml", FALSE) >>

Of(kind, name, spec) ==
  [api |-> TRUE, kind |-> kind, name |-> name, spec |-> spec, laptop |-> FALSE, typed |-> TRUE]

PlanWith(use) == PlanOf(<<Dev(<<a>>, <<>>), use>>)
Supplied == Of("Plan", gather, PlanWith(Use(<<b>>, <<>>, gather, {svc})))
Missing  == Of("Plan", gather, PlanWith(Use(<<b>>, <<>>, gather, {})))
Unpaused == [Supplied EXCEPT !.spec.paused = FALSE]
Gathers(required) == Of("PlanTemplate", gather, TemplateOf(required, <<Check(<<l>>, <<>>)>>))
Stepless == Of("PlanTemplate", verify, TemplateOf({}, <<>>))

\* R17 lets a trigger without a phase pass; the schema does not.
AfterAnyPhase == [step |-> <<b>>, phase |-> NoPhase]

Misdirected(test) ==
  [Supplied EXCEPT !.spec.test = test, !.spec.steps[1].declares = {"misdirected"}]

OnePlan ==
  {<<d>> : d \in { Supplied, Missing, Unpaused, Blank, Garbage,
                   [Unpaused EXCEPT !.kind = ""], [Supplied EXCEPT !.kind = "other"],
                   [Supplied EXCEPT !.typed = FALSE], [Supplied EXCEPT !.name = NoName],
                   [Supplied EXCEPT !.spec = NoSpec], [Supplied EXCEPT !.spec.steps = <<>>],
                   [Supplied EXCEPT !.spec.steps[1].trigger = AfterAnyPhase],
                   [Supplied EXCEPT !.spec.unknown = TRUE], Misdirected(TRUE), Misdirected(FALSE),
                   [Supplied EXCEPT !.laptop = TRUE], [Supplied EXCEPT !.api = FALSE] }}

PlanFiles ==
  OnePlan \cup { Absent, <<>>, <<Supplied, Unpaused>>, <<Blank, Missing>>, <<Supplied, Garbage>>,
                 <<Gathers({}), Missing>> }

\* The first of these is accepted and submitted, the second accepted and refused.
YmlFiles == {Absent, <<Unpaused>>, <<[Supplied EXCEPT !.spec = NoSpec]>>,
             <<[Supplied EXCEPT !.kind = ""]>>, <<[Supplied EXCEPT !.spec.steps = <<>>]>>}

OtherFiles == {Absent, <<Supplied>>}

NestedFiles == {Absent, <<Missing>>, <<Gathers({svc})>>}

TemplateFiles ==
  { Absent, <<Gathers({svc})>>, <<Blank, Gathers({})>>, <<Gathers({svc}), Gathers({})>>,
    <<Stepless>>, <<Gathers({}), [Stepless EXCEPT !.spec = NoSpec]>> }

Catalogs ==
  {<<f, g, o, h, t>> : f \in PlanFiles, g \in YmlFiles, o \in OtherFiles,
                       h \in NestedFiles, t \in TemplateFiles}
==============================================================================
