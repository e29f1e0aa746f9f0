----------------------------- MODULE PlanLedger -----------------------------
(***************************************************************************)
(* What the release leg is to those who merge plans and read the pipeline: *)
(* a ledger.  A release owes the cluster what its merge changed; a plan    *)
(* enters the ledger as it is owed and stays as it is until somebody       *)
(* deletes it; green is the word of a release that has seen all it owes    *)
(* stand there, and the last word.  No request, answer, file or deadline.  *)
(***************************************************************************)
CONSTANTS
  Run,       \* releases
  PlanName,  \* names of plans
  Brief,     \* what a plan can ask for
  Unusable,  \* what a file amounts to that no plan can be made of
  NoPlan     \* no plan of that name

VARIABLES
  owes,     \* what each release is for
  verdict,  \* how it ended, if it has
  seen,     \* what it has seen stand
  plans     \* what each plan on the cluster asks for

vars == <<owes, verdict, seen, plans>>

Request == [name : PlanName, brief : Brief]

Init ==
  /\ owes    = [r \in Run |-> {}]
  /\ verdict = [r \in Run |-> "none"]
  /\ seen    = [r \in Run |-> {}]
  /\ plans   = [p \in PlanName |-> NoPlan]

Start(r) ==
  /\ verdict[r] = "none"
  /\ verdict' = [verdict EXCEPT ![r] = "open"]
  /\ owes'[r] \subseteq Request \cup {Unusable}
  /\ owes' = [owes EXCEPT ![r] = owes'[r]]
  /\ UNCHANGED <<seen, plans>>

\* One of the things a release owes is found to stand, or made to.  A release that
\* owes something unusable does neither; one that has ended may, by a late request.
See(r, req) ==
  /\ seen' = [seen EXCEPT ![r] = @ \cup {req}]
  /\ \/ plans[req.name] = req.brief /\ UNCHANGED plans
     \/ plans[req.name] = NoPlan /\ plans' = [plans EXCEPT ![req.name] = req.brief]
  /\ req \in owes[r] /\ owes[r] \subseteq Request
  /\ UNCHANGED <<verdict, owes>>

End(r) ==
  /\ verdict[r] = "open"
  /\ \/ verdict' = [verdict EXCEPT ![r] = "red"]
     \/ verdict' = [verdict EXCEPT ![r] = "green"] /\ owes[r] \subseteq seen[r]
  /\ UNCHANGED <<seen, plans, owes>>

Delete(p) ==
  /\ plans' = [plans EXCEPT ![p] = NoPlan]
  /\ UNCHANGED <<verdict, seen, owes>>

Next ==
  \/ \E r \in Run : Start(r) \/ End(r) \/ \E req \in Request : See(r, req)
  \/ \E p \in PlanName : Delete(p)

Spec == Init /\ [][Next]_vars
==============================================================================
