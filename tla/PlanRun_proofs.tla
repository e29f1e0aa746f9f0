-------------------------- MODULE PlanRun_proofs --------------------------
(***************************************************************************)
(* No accepted plan wedges, for every set of step lists.  That the search   *)
(* which precedes the execution finds every cycle is the theorem about      *)
(* DetectCycle alone, which a refinement carries over; so of the steps that *)
(* are still pending one waits for none of the others and all it depends on *)
(* has succeeded; and the steps that are executed watch nothing.            *)
(***************************************************************************)
EXTENDS PlanRun, DetectCycle_proofs

RunIInv ==
  /\ TypeOK
  /\ RunTypeOK
  /\ DOMAIN phase # {} =>
       pc = "done" /\ result = "acyclic" /\ NamedThroughout(steps) /\ OtherGraphChecks(steps)

\* Executing a plan is no step of the search.
THEOREM RunsTheSearch == RunSpec => Spec
<1>1. RunInit => Init
  BY DEF RunInit
<1>2. [RunNext]_runVars => [Next]_vars
  BY DEF RunNext, runVars, Search, Accept, Spawn, OpenPR, Succeed, Fail, Cancel,
         TogglePaused, SetPhase
<1>. QED  BY <1>1, <1>2, PTL DEF RunSpec, Spec

\* What is sent of a step: all that the gate judges but its trigger.
LEMMA SentStep ==
  ASSUME TypeOK, NEW i \in DOMAIN steps
  PROVE  /\ Sent[i].name = steps[i].name
         /\ Sent[i].dependsOn = steps[i].dependsOn
         /\ Sent[i].fanIn = steps[i].fanIn
         /\ Sent[i].trigger = NoTrigger
<1>1. steps \in Seq(Step)
  BY StepsAssumption DEF TypeOK
<1>2. steps[i] \in Step
  BY <1>1, LenProperties
<1>. QED  BY <1>2 DEF Sent, ProjectStep, Step

LEMMA RunIInvInit == RunInit => RunIInv
<1>1. RunInit => DOMAIN phase = {} /\ phase \in [DOMAIN phase -> Phase] /\ paused \in BOOLEAN
  BY DEF RunInit
<1>. QED  BY <1>1, TypeInit DEF RunInit, RunIInv, RunTypeOK

\* Only the phase of a step of the plan changes, and only to a phase.
LEMMA SetPhaseKeeps ==
  ASSUME RunIInv, NEW n, NEW p \in Phase, SetPhase(n, p)
  PROVE  RunIInv'
<1>1. TypeOK' /\ pc' = pc /\ result' = result /\ steps' = steps /\ paused' = paused
  BY DEF RunIInv, SetPhase, TypeOK, vars
<1>2. phase' \in [DOMAIN phase -> Phase]
  BY DEF RunIInv, RunTypeOK, SetPhase
<1>3. DOMAIN phase' = DOMAIN phase
  BY <1>2
<1>. QED  BY <1>1, <1>2, <1>3 DEF RunIInv, RunTypeOK

LEMMA RunIInvNext == RunIInv /\ [RunNext]_runVars => RunIInv'
<1> SUFFICES ASSUME RunIInv, [RunNext]_runVars PROVE RunIInv'
  OBVIOUS
<1>1. CASE Search
  <2>1. TypeOK' /\ phase' = phase /\ paused' = paused
    BY <1>1, TypeNext DEF Search, RunIInv
  <2>2. steps' = steps /\ pc # "done"
    BY <1>1 DEF Search, Next, CollectNamed, SkipUnnamed, StartSearch, VisitRoot, MeetsGrey,
                Descends, PassesOver, Examining, Returns, Finish
  <2>. QED  BY <2>1, <2>2 DEF RunIInv, RunTypeOK
<1>2. CASE Accept
  <2>1. TypeOK' /\ steps' = steps /\ pc' = "done" /\ result' = "acyclic" /\ paused' = paused
    BY <1>2 DEF Accept, RunIInv, TypeOK, vars
  <2>2. phase' \in [Names(steps) -> Phase] /\ DOMAIN phase' = Names(steps)
    BY <1>2 DEF Accept, Phase
  <2>. QED  BY <1>2, <2>1, <2>2 DEF Accept, RunIInv, RunTypeOK
<1>3. ASSUME NEW i \in DOMAIN steps, Spawn(i) PROVE RunIInv'
  <2>1. PICK p \in IF Sent[i].fanIn THEN {"Succeeded", "Failed"} ELSE {"Running"} :
          SetPhase(Sent[i].name, p)
    BY <1>3 DEF Spawn
  <2>2. p \in Phase
    BY <2>1 DEF Phase
  <2>. QED  BY <2>1, <2>2, SetPhaseKeeps
<1>4. ASSUME NEW n \in DOMAIN phase, OpenPR(n) \/ Succeed(n) \/ Fail(n) \/ Cancel(n)
      PROVE  RunIInv'
  <2>1. PICK p \in {"AwaitingReview", "AwaitingApproval", "Succeeded", "Failed", "Cancelled"} :
          SetPhase(n, p)
    BY <1>4 DEF OpenPR, Succeed, Fail, Cancel
  <2>2. p \in Phase
    BY <2>1 DEF Phase
  <2>. QED  BY <2>1, <2>2, SetPhaseKeeps
<1>5. CASE TogglePaused \/ UNCHANGED runVars
  <2>1. UNCHANGED <<vars, phase>> /\ paused' \in BOOLEAN
    BY <1>5 DEF TogglePaused, runVars, RunIInv, RunTypeOK
  <2>. QED  BY <2>1 DEF RunIInv, RunTypeOK, TypeOK, vars
<1>. QED  BY <1>1, <1>2, <1>3, <1>4, <1>5 DEF RunNext

THEOREM RunInvariance == RunSpec => []RunIInv
<1>. QED  BY RunIInvInit, RunIInvNext, PTL DEF RunSpec

------------------------------------------------------------------------------

\* A pending step that depends on no pending step can be spawned.
LEMMA UnblockedIsReady ==
  ASSUME RunIInv, DOMAIN phase # {}, NEW i \in DOMAIN steps,
         steps[i].name \in Unfinished,
         \A m \in Unfinished : ~DependsOn(steps, steps[i].name, m),
         \A m \in Names(steps) \ Unfinished : phase[m] = "Succeeded"
  PROVE  Ready(i)
<1>1. /\ DOMAIN phase = Names(steps) /\ i \in Named(steps)
      /\ steps[i].name \in DOMAIN phase /\ phase[steps[i].name] = "Pending"
  BY DEF RunIInv, RunTypeOK, Unfinished, NamedThroughout
<1>2. /\ Sent[i].name = steps[i].name /\ Sent[i].dependsOn = steps[i].dependsOn
      /\ Sent[i].trigger = NoTrigger
  BY SentStep DEF RunIInv
<1>3. DepsReady(i)
  <2> SUFFICES ASSUME NEW d \in Range(steps[i].dependsOn)
               PROVE  d \in DOMAIN phase /\ phase[d] = "Succeeded"
    BY <1>2 DEF DepsReady
  <2>1. d \in Names(steps)
    BY DEF RunIInv, OtherGraphChecks, R8
  <2>2. d \notin Unfinished
    BY <1>1 DEF DependsOn
  <2>. QED  BY <1>1, <2>1, <2>2
<1>4. TriggerReached(i)
  BY <1>2 DEF TriggerReached
<1>. QED  BY <1>1, <1>2, <1>3, <1>4 DEF Ready

LEMMA FirstOfTheUnfinished ==
  ASSUME RunIInv, NoCycleMissed, DOMAIN phase # {},
         Unfinished # {}, Broken = {}, \A n \in DOMAIN phase : ~Active(n)
  PROVE  \E i \in DOMAIN steps : Ready(i)
<1>1. Acyclic(steps)
  BY DEF RunIInv, NoCycleMissed, OtherGraphChecks, R7
<1>2. DOMAIN phase = Names(steps) /\ Unfinished \in SUBSET Names(steps)
  BY DEF RunIInv, RunTypeOK, Unfinished
<1>3. \A m \in Names(steps) \ Unfinished : phase[m] = "Succeeded"
  BY <1>2 DEF RunIInv, RunTypeOK, Phase, Unfinished, Broken, Active
<1>4. PICK n \in Unfinished : \A m \in Unfinished : ~DependsOn(steps, n, m)
  BY <1>1, <1>2 DEF Acyclic
<1>5. PICK i \in Named(steps) : steps[i].name = n
  BY <1>2, <1>4 DEF Names
<1>6. i \in DOMAIN steps
  BY <1>5 DEF Named
<1>. QED  BY <1>3, <1>4, <1>5, <1>6, UnblockedIsReady

\* Every accepted plan, whatever triggers its file has, either is finished, has failed
\* or been cancelled in part, is at work, or has a step to spawn, in every state.
THEOREM NeverWedgedCorrect == RunSpec => []NeverWedged
<1>1. RunIInv /\ NoCycleMissed => NeverWedged
  <2> SUFFICES ASSUME RunIInv, NoCycleMissed,
                      Unfinished # {}, Broken = {}, \A n \in DOMAIN phase : ~Active(n)
               PROVE  \E i \in DOMAIN steps : Ready(i)
    BY DEF NeverWedged
  <2>1. DOMAIN phase # {}
    BY DEF Unfinished
  <2>. QED  BY <2>1, FirstOfTheUnfinished
<1>. QED  BY <1>1, RunInvariance, RunsTheSearch, NoCycleMissedCorrect, PTL

==============================================================================
