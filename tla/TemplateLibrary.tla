-------------------------- MODULE TemplateLibrary --------------------------
(***************************************************************************)
(* What the way of a template into the controller's library promises, as   *)
(* README and the release pipeline use it: the library holds only what the *)
(* catalog's main has held (so both gates have seen it), and it forgets no *)
(* template.  It says nothing of when, nor of what is published together:  *)
(* one step may bring any template to any version main ever had.           *)
(***************************************************************************)
CONSTANTS
  TemplateName,  \* names of PlanTemplates
  Version,       \* what a template can be
  Absent         \* no template of that name

VARIABLES
  merged,   \* the versions of each template that the catalog's main has held
  library   \* the version of each template the controller has

vars == <<merged, library>>

Versions == UNION {merged[n] : n \in TemplateName}

Init ==
  /\ merged  = [n \in TemplateName |-> {}]
  /\ library = [n \in TemplateName |-> Absent]

\* A pull request of the catalog is merged.
Merge ==
  /\ \E new \in [TemplateName -> Version \cup {Absent}] :
       merged' = [n \in TemplateName |-> merged[n] \cup ({new[n]} \ {Absent})]
  /\ UNCHANGED library

\* A pull request of the controller is merged.
Publish ==
  /\ library' \in [TemplateName -> Versions \cup {Absent}]
  /\ \A n \in TemplateName : library'[n] \in {library[n]} \cup merged[n]
  /\ UNCHANGED merged

Next == Merge \/ Publish

Spec == Init /\ [][Next]_vars
==============================================================================
