---------------------------- MODULE TemplateSync ----------------------------
(***************************************************************************)
(* scripts/sync-templates-to-controller.sh, started on the primary cluster *)
(* by every merge to the catalog's main: clone the controller, write every *)
(* template of this checkout over its copy, force-push one fixed branch,   *)
(* look for an open pull request of it, refresh that one or open one.      *)
(* Runs overlap, a call may fail or a run die (the script exits 0 either   *)
(* way), and people merge and close pull requests between any two steps.   *)
(***************************************************************************)
EXTENDS Naturals

CONSTANTS
  TemplateName,   \* base names of templates/*.yaml
  Example,        \* those of the form example-* or *-example
  Document,       \* what a template file can be, comments included
  File,           \* what a chart file can be
  Emit,           \* emit_template: the chart file of a document, comments stripped
  Absent,         \* no file of that name
  SomeTemplates,  \* what templates/ can be
  Run,            \* runs that may be going on at once
  MaxChanges,     \* bound: merges that change templates/
  MaxFaults,      \* bound: calls that fail, runs that die, pull requests closed
  NoPull          \* no pull request is open

Nothing == [n \in TemplateName |-> Absent]

ASSUME SyncAssumption ==
  /\ Example \subseteq TemplateName
  /\ Emit \in [Document -> File]
  /\ Absent \notin Document \cup File
  /\ SomeTemplates \subseteq [TemplateName -> Document \cup {Absent}]
  /\ Nothing \in SomeTemplates
  /\ NoPull \notin SomeTemplates
  /\ MaxChanges \in Nat /\ MaxFaults \in Nat

VARIABLES
  templates,  \* templates/ on the catalog's main
  library,    \* catalog-*-plantemplate.yaml on the controller's default branch
  branch,     \* catalog-plantemplate-sync: its files, and the library it forked from
  pull,       \* the open pull request: the templates/ its body names as its origin
  stage,      \* per run: the next thing it does
  head,       \* per run: templates/ in its checkout
  base,       \* per run: the library it cloned
  found,      \* runs whose pull request, as looked up, is still the open one
  merged,     \* observation: what main has had to publish under each name
  alone,      \* observation: runs no other run, no person and no failure got in the way of
  changes, faults

vars == <<templates, library, branch, pull, stage, head, base, found,
          merged, alone, changes, faults>>

Shelf == [TemplateName -> File \cup {Absent}]
Stage == {"idle", "started", "cloned", "pushed", "patch", "post"}

TypeOK ==
  /\ templates \in SomeTemplates
  /\ library \in Shelf
  /\ branch \in [base : Shelf, files : Shelf]
  /\ pull \in SomeTemplates \cup {NoPull}
  /\ stage \in [Run -> Stage]
  /\ head \in [Run -> SomeTemplates]
  /\ base \in [Run -> Shelf]
  /\ found \subseteq Run /\ alone \subseteq Run
  /\ merged \in [TemplateName -> SUBSET File]
  /\ changes \in 0..MaxChanges /\ faults \in 0..MaxFaults

Init ==
  /\ templates = Nothing
  /\ library = Nothing
  /\ branch = [base |-> Nothing, files |-> Nothing]
  /\ pull = NoPull
  /\ stage = [r \in Run |-> "idle"]
  /\ head = [r \in Run |-> Nothing]
  /\ base = [r \in Run |-> Nothing]
  /\ found = {} /\ alone = {}
  /\ merged = [n \in TemplateName |-> {}]
  /\ changes = 0 /\ faults = 0

------------------------------------------------------------------------------
(* Files.                                                                     *)

\* Seeded faults: the file is copied with its comments; the skip of examples is lost.
EmittedVerbatim(ts) ==
  [n \in TemplateName |-> IF n \in Example THEN Absent ELSE ts[n]]

EmittedExamples(ts) ==
  [n \in TemplateName |-> IF ts[n] = Absent THEN Absent ELSE Emit[ts[n]]]

\* What the copy loop writes for a checkout; Absent where it writes nothing.
Emitted(ts) ==
  [n \in TemplateName |-> IF ts[n] = Absent \/ n \in Example THEN Absent ELSE Emit[ts[n]]]

\* Seeded fault: the directory is emptied first.
OverlayClean(lib, ts) == Emitted(ts)

\* A working tree after the loop: written over, never removed.
Overlay(lib, ts) ==
  [n \in TemplateName |-> IF Emitted(ts)[n] = Absent THEN lib[n] ELSE Emitted(ts)[n]]

\* git merges by file: a side that left a file as it forked gives way to the other.
Conflict(b, lib) ==
  \E n \in TemplateName : /\ b.files[n] # b.base[n]
                          /\ lib[n] \notin {b.base[n], b.files[n]}

Combined(b, lib) ==
  [n \in TemplateName |-> IF b.files[n] = b.base[n] THEN lib[n] ELSE b.files[n]]

Mirrors(lib, ts) ==
  \A n \in TemplateName : Emitted(ts)[n] # Absent => lib[n] = Emitted(ts)[n]

------------------------------------------------------------------------------
(* The catalog.                                                               *)

\* A merge (one that leaves templates/ alone included) starts a release, with the
\* merge commit checked out.
Release(r, ts) ==
  /\ stage[r] = "idle"
  /\ IF ts = templates THEN UNCHANGED changes
     ELSE changes < MaxChanges /\ changes' = changes + 1
  /\ templates' = ts
  /\ merged' = [n \in TemplateName |-> merged[n] \cup
                  {Emit[d] : d \in {d \in {ts[n]} \ {Absent} : n \notin Example}}]
  /\ stage' = [stage EXCEPT ![r] = "started"]
  /\ head' = [head EXCEPT ![r] = ts]
  /\ alone' = alone \cup {r}
  /\ UNCHANGED <<library, branch, pull, base, found, faults>>

(* The script.                                                                *)

\* exit 0, whatever was or was not done.
Ends(r) ==
  /\ stage' = [stage EXCEPT ![r] = "idle"]
  /\ head' = [head EXCEPT ![r] = Nothing]
  /\ base' = [base EXCEPT ![r] = Nothing]
  /\ found' = found \ {r}

Fault ==
  /\ faults < MaxFaults
  /\ faults' = faults + 1

NoTemplates(r) ==
  /\ stage[r] = "started"
  /\ head[r] = Nothing
  /\ Ends(r)
  /\ UNCHANGED <<templates, library, branch, pull, merged, alone, changes, faults>>

Clone(r) ==
  /\ stage[r] = "started"
  /\ head[r] # Nothing
  /\ base' = [base EXCEPT ![r] = library]
  /\ stage' = [stage EXCEPT ![r] = "cloned"]
  /\ UNCHANGED <<templates, library, branch, pull, head, found, merged, alone, changes, faults>>

\* Seeded fault: compared with the branch, not with the clone.
BranchUpToDate(r) == Overlay(base[r], head[r]) = branch.files

\* git diff --cached --quiet
UpToDate(r) == Overlay(base[r], head[r]) = base[r]

NothingToPropose(r) ==
  /\ stage[r] = "cloned"
  /\ UpToDate(r)
  /\ Ends(r)
  /\ UNCHANGED <<templates, library, branch, pull, merged, alone, changes, faults>>

\* Seeded fault: git push, refused once the branch exists.
PlainPush(r) ==
  /\ stage[r] = "cloned"
  /\ ~UpToDate(r)
  /\ branch' = IF branch.files = branch.base
                 THEN [base |-> base[r], files |-> Overlay(base[r], head[r])]
                 ELSE branch
  /\ stage' = [stage EXCEPT ![r] = "pushed"]
  /\ alone' = alone \cap {r}
  /\ UNCHANGED <<templates, library, pull, head, base, found, merged, changes, faults>>

\* git push -f
ForcePush(r) ==
  /\ stage[r] = "cloned"
  /\ ~UpToDate(r)
  /\ branch' = [base |-> base[r], files |-> Overlay(base[r], head[r])]
  /\ stage' = [stage EXCEPT ![r] = "pushed"]
  /\ alone' = alone \cap {r}
  /\ UNCHANGED <<templates, library, pull, head, base, found, merged, changes, faults>>

\* The open pull request of the branch, if there is one.
LookUp(r) ==
  /\ stage[r] = "pushed"
  /\ stage' = [stage EXCEPT ![r] = IF pull = NoPull THEN "post" ELSE "patch"]
  /\ found' = IF pull = NoPull THEN found ELSE found \cup {r}
  /\ UNCHANGED <<templates, library, branch, pull, head, base, merged, alone, changes, faults>>

\* An answer that is none reads as no pull request.
LookUpFails(r) ==
  /\ stage[r] = "pushed"
  /\ Fault
  /\ stage' = [stage EXCEPT ![r] = "post"]
  /\ alone' = alone \ {r}
  /\ UNCHANGED <<templates, library, branch, pull, head, base, found, merged, changes>>

\* PATCH .../pulls/$existing: the body of a pull request that may be closed by now.
Refresh(r) ==
  /\ stage[r] = "patch"
  /\ pull' = IF r \in found THEN head[r] ELSE pull
  /\ alone' = alone \cap {r}
  /\ Ends(r)
  /\ UNCHANGED <<templates, library, branch, merged, changes, faults>>

\* POST .../pulls: the host keeps one open pull request per branch, and may refuse
\* one of a branch with nothing left to merge.
Open(r) ==
  /\ stage[r] = "post"
  /\ \/ pull = NoPull /\ pull' = head[r]
     \/ pull # NoPull /\ UNCHANGED pull
     \/ pull = NoPull /\ Combined(branch, library) = library /\ UNCHANGED pull
  /\ alone' = alone \cap {r}
  /\ Ends(r)
  /\ UNCHANGED <<templates, library, branch, merged, changes, faults>>

\* No credentials, no clone, push refused, PATCH or POST refused, or the pod is gone.
Stops(r) ==
  /\ stage[r] # "idle"
  /\ Fault
  /\ alone' = alone \ {r}
  /\ Ends(r)
  /\ UNCHANGED <<templates, library, branch, pull, merged, changes>>

(* The controller's repository.                                               *)

MergePull ==
  /\ pull # NoPull
  /\ ~Conflict(branch, library)
  /\ library' = Combined(branch, library)
  /\ pull' = NoPull
  /\ found' = {} /\ alone' = {}
  /\ UNCHANGED <<templates, branch, stage, head, base, merged, changes, faults>>

ClosePull ==
  /\ pull # NoPull
  /\ Fault
  /\ pull' = NoPull
  /\ found' = {} /\ alone' = {}
  /\ UNCHANGED <<templates, library, branch, stage, head, base, merged, changes>>

------------------------------------------------------------------------------

Script(r) ==
  \/ NoTemplates(r) \/ Clone(r) \/ NothingToPropose(r) \/ ForcePush(r)
  \/ LookUp(r) \/ Refresh(r) \/ Open(r)

Next ==
  \/ \E r \in Run, ts \in SomeTemplates : Release(r, ts)
  \/ \E r \in Run : Script(r) \/ LookUpFails(r) \/ Stops(r)
  \/ MergePull \/ ClosePull

Spec == Init /\ [][Next]_vars

\* A started run goes on; merges to the catalog go on, whatever they touch; people
\* merge what can be merged.
FairSpec ==
  /\ Spec
  /\ \A r \in Run : WF_vars(Script(r))
  /\ WF_vars(\E r \in Run : Release(r, templates))
  /\ WF_vars(MergePull)

------------------------------------------------------------------------------
(* Properties.                                                                *)

Library == INSTANCE TemplateLibrary WITH Version <- File

\* Whatever the runs overlap, overwrite or lose, and whichever branch people merge,
\* the library only ever takes versions that catalog main has held, never an
\* example, and no template disappears from it.
\* (The fixed branch, the copy loop over a clone, the merge of a stale branch.)
ImplementsLibrary == Library!Spec

\* A release nobody got in the way of ends with its templates in the library, or in
\* an open pull request that brings all of them there and names this release.
\* (Exit 0 says nothing of it; -f, and lookup before POST, make it so.)
Delivered(ts, lib, b, p) ==
  \/ Mirrors(lib, ts)
  \/ p = ts /\ ~Conflict(b, lib) /\ Mirrors(Combined(b, lib), ts)

AloneDelivers ==
  [][\A r \in Run : r \in alone' /\ stage[r] # "idle" /\ stage'[r] = "idle"
       => Delivered(head[r], library', branch', pull')]_vars

\* However runs overlapped or failed and whatever stale branch was merged, once
\* templates/ is left alone the releases of other merges bring the library to it.
\* ("it is a reconciler": README, release.yaml.)
SelfHeals == <>[]Mirrors(library, templates)

==============================================================================
