--------------------------- MODULE SubmitScope ---------------------------
(***************************************************************************)
(* Which plan files does one release submit, and what does it send for     *)
(* each?  These are the pure parts of cmd/plan-submit: discover, the git   *)
(* diff and its parsing (changed.go), and the projection of a document to  *)
(* the request plan-api receives (project.go).                             *)
(*                                                                         *)
(* A tree is the content of plans/ at one commit.  A file is a record of   *)
(* the things about its NAME the code looks at:                            *)
(*   stem    what is left of the base name                                 *)
(*   ext     "yaml", "yml" or "other"                                      *)
(*   mark    "prefix" for example-*, "suffix" for *-example, else "none"   *)
(*   nested  TRUE when it lies in a subdirectory of plans/                 *)
(*   ascii   FALSE when git prints its path quoted                         *)
(* A document is [kind, name, brief, extra]: brief stands for the fields   *)
(* createPlanRequest carries, extra for those it does not (triggeredWhen,  *)
(* onFailure, test, spec.test, spec.command, ...).                         *)
(***************************************************************************)
EXTENDS Naturals

CONSTANTS
  File,      \* the paths that may exist under plans/
  Pos,       \* the position of each file in sort.Strings order
  PlanName,  \* values of metadata.name
  Brief,     \* what a request can carry besides the name
  Extra,     \* what a document can hold that no request carries
  Absent,    \* the file does not exist in this tree
  NoName,    \* metadata.name is empty
  NoSteps,   \* spec.steps is empty
  NoSource   \* git found no similar deleted file for an added one

Base(f) == <<f.stem, f.ext, f.mark>>

\* Two paths of one directory differ; sort.Strings orders the files totally.
ASSUME FileAssumption ==
  /\ \A f \in File : /\ f.ext \in {"yaml", "yml", "other"}
                     /\ f.mark \in {"none", "prefix", "suffix"}
                     /\ f.nested \in BOOLEAN
                     /\ f.ascii \in BOOLEAN
  /\ \A f, g \in File :
       ~f.nested /\ ~g.nested /\ Base(f) = Base(g) => f = g
  /\ Pos \in [File -> Nat]
  /\ \A f, g \in File : Pos[f] = Pos[g] => f = g

ASSUME MarkerAssumption ==
  /\ NoSource \notin File
  /\ NoName \notin PlanName
  /\ NoSteps \notin Brief

Kind == {"Plan", "", "PlanTemplate", "undecodable"}

Doc == [kind  : Kind,
        name  : PlanName \cup {NoName},
        brief : Brief \cup {NoSteps},
        extra : Extra]

Tree == [File -> Doc \cup {Absent}]

Present(tree) == {f \in File : tree[f] # Absent}

------------------------------------------------------------------------------
(* discover: the flat set of files a release may submit.                      *)

Submittable(f) ==
  /\ ~f.nested
  /\ f.ext \in {"yaml", "yml"}
  /\ f.mark # "prefix"
  /\ ~(f.mark = "suffix" /\ f.ext = "yaml")

Discover(tree) == {f \in Present(tree) : Submittable(f)}

------------------------------------------------------------------------------
(* git diff --name-status -M base HEAD.  Which deleted file git takes an      *)
(* added one to be a rename of depends on similarity scores, so it is a       *)
(* choice: from[a] is the file git pairs a with, or NoSource; -M pairs no file *)
(* twice.                                                                     *)

Added(old, new)    == Present(new) \ Present(old)
Deleted(old, new)  == Present(old) \ Present(new)
Modified(old, new) == {f \in Present(old) \cap Present(new) : old[f] # new[f]}

Pairings(old, new) ==
  {from \in [Added(old, new) -> Deleted(old, new) \cup {NoSource}] :
     \A a, b \in Added(old, new) : from[a] = from[b] => a = b \/ from[a] = NoSource}

\* One line of output: a status letter, and the path or the paths it is about.
Entry(status, source, path) ==
  [status |-> status, source |-> source, path |-> path]

NameStatus(old, new, from) ==
  {Entry("M", NoSource, f) : f \in Modified(old, new)}
  \cup {Entry(IF from[a] = NoSource THEN "A" ELSE "R", from[a], a) : a \in Added(old, new)}
  \cup {Entry("D", NoSource, d) :
          d \in {e \in Deleted(old, new) : \A a \in Added(old, new) : from[a] # e}}

\* parseNameStatus: the paths that exist after the change ...
ChangedPaths(entries) ==
  {e.path : e \in {x \in entries : x.status # "D"}}

\* ... and those that no longer do; a rename retires its source.
DeletedPaths(entries) ==
  {e.path : e \in {x \in entries : x.status = "D"}}
  \cup {e.source : e \in {x \in entries : x.status = "R"}}

\* Seeded fault for ScopeIsExact: a changed file of a subdirectory is taken for
\* the file of the same name in plans/.
SelectByBaseName(files, changed) ==
  {f \in files : \E c \in changed : c.ascii /\ Base(c) = Base(f)}

\* selectChanged matches on the base name, which a quoted path never equals and
\* a path with a separator is not allowed to.
SelectChanged(files, changed) ==
  {f \in files :
     \E c \in changed : /\ ~c.nested
                        /\ c.ascii
                        /\ Base(c) = Base(f)}

\* The files a release of new over its first parent old submits.
DiffScope(old, new, from) ==
  SelectChanged(Discover(new), ChangedPaths(NameStatus(old, new, from)))

------------------------------------------------------------------------------
(* project: what is refused, and what is sent.                                *)

\* Seeded fault for TypeOK: a plan without steps is sent.
ProjectableWithoutSteps(doc) ==
  /\ doc.kind \in {"Plan", ""}
  /\ doc.name # NoName

Projectable(doc) ==
  /\ doc.kind \in {"Plan", ""}
  /\ doc.name # NoName
  /\ doc.brief # NoSteps

Request == [name : PlanName, brief : Brief]

Project(doc) == [name |-> doc.name, brief |-> doc.brief]

------------------------------------------------------------------------------
(* The reference: the top-level submittable files whose content in new is not *)
(* what it was in old.                                                        *)
Touched(old, new) ==
  {f \in File : Submittable(f) /\ new[f] # Absent /\ new[f] # old[f]}

AsciiNames == \A f \in File : f.ascii

==============================================================================
