---------------------------- MODULE MCDocuments ----------------------------
(* Names, steps and templates the small instances are made of.                *)
EXTENDS PlanLint, TLC

CONSTANTS a, b, c, l, m, u, svc, verify, gather, go, infra, infraGo, app, cluster

EmptyName == <<>>
Refs == {<<a>>, <<b>>, <<c>>, <<l>>, <<m>>, <<b, l>>, <<u>>}

NoInputs == [keys |-> {}, repo |-> NoRepo, action |-> "none"]
Initiative(r) == [keys |-> {"name", "goal", "branch"}, repo |-> r, action |-> "none"]
Repos == [keys |-> {"name", "goal", "repos"}, repo |-> NoRepo, action |-> "none"]
Action == [keys |-> {}, repo |-> NoRepo, action |-> "known"]

StepOf(n, deps, kind, agent, inputs) ==
  [name |-> n, dependsOn |-> deps, trigger |-> NoTrigger, fanIn |-> FALSE,
   validates |-> FALSE, use |-> NoUse, with |-> {}, sha |-> "none", kind |-> kind,
   agent |-> agent, repo |-> NoRepo, inputs |-> inputs, declares |-> {}]

Dev(n, deps)   == StepOf(n, deps, "pr", go, Initiative(app))
Check(n, deps) == StepOf(n, deps, "check", infra, Action)
Gate(n, deps)  == [StepOf(n, deps, "none", NoAgent, NoInputs) EXCEPT !.fanIn = TRUE, !.validates = TRUE]
Use(n, deps, t, given) ==
  [StepOf(n, deps, "none", NoAgent, NoInputs) EXCEPT !.use = t, !.with = given]

TemplateOf(required, steps) == [required |-> required, unknown |-> FALSE, steps |-> steps]
PlanOf(steps) == [paused |-> TRUE, test |-> FALSE, unknown |-> FALSE, steps |-> steps]
==============================================================================
