------------------------- MODULE MCPlanAdmission -------------------------
(* A plan of up to three steps around two templates, each in two accepted     *)
(* versions and one the gate rejects.                                         *)
EXTENDS PlanAdmission, MCDocuments

Templates ==
  verify :> { TemplateOf({}, <<Check(<<l>>, <<>>)>>),
              TemplateOf({svc}, <<Check(<<l>>, <<>>), Check(<<m>>, <<<<l>>>>)>>),
              TemplateOf({}, <<Check(<<l>>, <<<<m>>>>), Check(<<m>>, <<<<l>>>>)>>) }
  @@ gather :> { TemplateOf({svc}, <<Check(<<l>>, <<>>), Dev(<<m>>, <<>>)>>),
                 TemplateOf({}, <<Dev(<<m>>, <<>>), Check(<<l>>, <<<<m>>>>),
                                  Check(<<c>>, <<<<m>>>>), Gate(<<b>>, <<<<l>>, <<c>>>>)>>),
                 TemplateOf({}, <<Dev(<<m>>, <<<<u>>>>)>>) }

Firsts == { Dev(<<a>>, <<>>),
            [Dev(<<a>>, <<>>) EXCEPT !.repo = app, !.inputs = Repos],
            StepOf(<<a>>, <<>>, "apply", infraGo, Action),
            StepOf(<<a>>, <<>>, "pr", go, Initiative(cluster)) }

Seconds == { Use(<<b>>, <<<<a>>>>, gather, {svc}),
             Use(<<b>>, <<>>, gather, {}),
             Use(<<b>>, <<<<c>>>>, gather, {svc}),
             Use(<<b>>, <<<<a>>>>, verify, {svc}),
             Use(<<b>>, <<>>, verify, {}) }

Thirds == { StepOf(<<c>>, <<<<b>>>>, "check", go, Repos),
            Gate(<<c>>, <<<<b>>>>), Gate(<<c>>, <<<<a>>, <<b>>>>),
            [Dev(<<c>>, <<<<a>>>>) EXCEPT !.trigger = [step |-> <<b>>, phase |-> "Running"]] }

Collides == Dev(<<b, l>>, <<>>)

PlansOf(thirds) ==
  {PlanOf(s) : s \in Firsts \X Seconds \X thirds}

ManyPlans == PlansOf(Thirds) \cup {PlanOf(<<Use(<<b>>, <<>>, gather, {svc}), Collides>>)}
==============================================================================
