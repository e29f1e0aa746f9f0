------------------------------ MODULE PlanRun ------------------------------
(***************************************************************************)
(* What the gate's step graph rules are for: a plan is searched for cycles *)
(* (DetectCycle); if that and the other rules report nothing, plan-submit  *)
(* sends what it keeps of its steps (ProjectStep) and the controller       *)
(* executes that (external: its rules are those the CRD schema under       *)
(* schemas/crd states for dependsOn, triggeredWhen, fanIn, hold and        *)
(* paused).  The controller spawns a step when every step it depends on    *)
(* has Succeeded and the step it watches, if any, has reached the phase it *)
(* waits for.                                                              *)
(***************************************************************************)
EXTENDS DetectCycle

VARIABLES
  phase,    \* of each step of the accepted plan; of none before
  paused    \* spec.paused

runVars == <<vars, phase, paused>>

Phase == {"Pending", "Running", "AwaitingReview", "AwaitingApproval",
          "Succeeded", "Failed", "Cancelled"}

RunTypeOK ==
  /\ DOMAIN phase \in {{}, Names(steps)}
  /\ phase  \in [DOMAIN phase -> Phase]
  /\ paused \in BOOLEAN

RunInit ==
  /\ Init
  /\ phase  = <<>>
  /\ paused = TRUE

------------------------------------------------------------------------------

\* The gate looks for a cycle ...
Search == Next /\ UNCHANGED <<phase, paused>>

\* The steps of the Plan that is executed: those of the file, projected.
Sent == [i \in DOMAIN steps |-> ProjectStep(steps[i])]

\* ... and accepts; the plan is submitted and begins as a paused proposal.
Accept ==
  /\ pc = "done"
  /\ DOMAIN phase = {}
  /\ result = "acyclic"
  /\ NamedThroughout(steps)
  /\ OtherGraphChecks(steps)
  /\ phase' = [n \in Names(steps) |-> "Pending"]
  /\ UNCHANGED <<vars, paused>>

\* The success ladder; Failed and Cancelled are not on it.
Rank(p) == CASE p = "Running"   -> 1
             [] p \in {"AwaitingReview", "AwaitingApproval"} -> 2
             [] p = "Succeeded" -> 3
             [] OTHER           -> 0

DepsReady(i) ==
  \A d \in Range(Sent[i].dependsOn) : d \in DOMAIN phase /\ phase[d] = "Succeeded"

TriggerReached(i) ==
  LET t == Sent[i].trigger
  IN  t # NoTrigger =>
        /\ t.step \in DOMAIN phase
        /\ Rank(phase[t.step]) >= Rank(t.phase)
        /\ Rank(phase[t.step]) > 0

Ready(i) ==
  /\ Sent[i].name \in DOMAIN phase
  /\ phase[Sent[i].name] = "Pending"
  /\ DepsReady(i)
  /\ TriggerReached(i)

Active(n) == phase[n] \in {"Running", "AwaitingReview", "AwaitingApproval"}

SetPhase(n, p) ==
  /\ phase' = [phase EXCEPT ![n] = p]
  /\ UNCHANGED <<vars, paused>>

\* A step gets its AgentRun; a fan-in step is decided on the spot.
Spawn(i) ==
  /\ ~paused
  /\ Ready(i)
  /\ \E p \in IF Sent[i].fanIn THEN {"Succeeded", "Failed"} ELSE {"Running"} :
       SetPhase(Sent[i].name, p)

OpenPR(n) ==
  /\ phase[n] = "Running"
  /\ \E p \in {"AwaitingReview", "AwaitingApproval"} : SetPhase(n, p)

Succeed(n) == Active(n) /\ SetPhase(n, "Succeeded")
Fail(n)    == Active(n) /\ SetPhase(n, "Failed")
Cancel(n)  == ~(phase[n] \in {"Succeeded", "Failed", "Cancelled"}) /\ SetPhase(n, "Cancelled")

TogglePaused ==
  /\ DOMAIN phase # {}
  /\ paused' = ~paused
  /\ UNCHANGED <<vars, phase>>

RunNext ==
  \/ Search
  \/ Accept
  \/ \E i \in DOMAIN steps : Spawn(i)
  \/ \E n \in DOMAIN phase : OpenPR(n) \/ Succeed(n) \/ Fail(n) \/ Cancel(n)
  \/ TogglePaused

RunSpec == RunInit /\ [][RunNext]_runVars

\* The search is a sequential function: it takes its next step.
FairRunSpec == RunSpec /\ WF_runVars(Search)

------------------------------------------------------------------------------
(* Properties.                                                                *)

Unfinished == {n \in DOMAIN phase : phase[n] = "Pending"}

Broken == {n \in DOMAIN phase : phase[n] \in {"Failed", "Cancelled"}}

\* A plan the catalog accepts is one the controller runs: whatever triggers its file
\* has, and whatever its runs do, it never comes to rest with steps that nothing will
\* ever spawn.  (R7, R8, R12 of graphChecks and detectCycle's answer for R11 each
\* remove a way to wait for ever; a circle through triggers none of them sees does no
\* harm only because project drops the triggers.)
NeverWedged ==
  \/ Unfinished = {}
  \/ Broken # {}
  \/ \E n \in DOMAIN phase : Active(n)
  \/ \E i \in DOMAIN steps : Ready(i)

==============================================================================
