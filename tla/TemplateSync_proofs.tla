------------------------ MODULE TemplateSync_proofs ------------------------
(***************************************************************************)
(* Theorems about TemplateSync.  IInv adds to the types what a file of the *)
(* branch can be (Provenance) and what a run nobody got in the way of      *)
(* still knows about the world (Undisturbed).                              *)
(***************************************************************************)
EXTENDS TemplateSync, TLAPS

\* A checkout holds, and the branch changes a file to, only what main has held.
Provenance ==
  /\ \A r \in Run, n \in TemplateName :
       head[r][n] # Absent /\ n \notin Example => Emit[head[r][n]] \in merged[n]
  /\ \A n \in TemplateName :
       branch.files[n] # branch.base[n] => branch.files[n] \in merged[n]
  /\ \A n \in TemplateName :
       templates[n] # Absent /\ n \notin Example => Emit[templates[n]] \in merged[n]
  /\ \A n \in TemplateName : library[n] \in merged[n] \cup {Absent}

Mine(r) ==
  /\ branch.base = library
  /\ branch.files = Overlay(library, head[r])

Undisturbed ==
  \A r \in alone :
    /\ stage[r] = "cloned" => base[r] = library
    /\ stage[r] \in {"pushed", "patch", "post"} => Mine(r)
    /\ stage[r] = "patch" => r \in found /\ pull # NoPull
    /\ stage[r] = "post" => pull = NoPull

IInv == TypeOK /\ Provenance /\ Undisturbed

------------------------------------------------------------------------------
(* Files.                                                                     *)

LEMMA FileTypes ==
  ASSUME NEW ts \in SomeTemplates, NEW lib \in Shelf
  PROVE  /\ Emitted(ts) \in Shelf
         /\ Overlay(lib, ts) \in Shelf
         /\ Nothing \in Shelf /\ Nothing \in SomeTemplates
<1>1. \A n \in TemplateName : ts[n] \in Document \cup {Absent}
  BY SyncAssumption
<1>2. \A n \in TemplateName : Emitted(ts)[n] \in File \cup {Absent}
  BY <1>1, SyncAssumption DEF Emitted
<1>3. Emitted(ts) \in Shelf
  BY <1>2 DEF Emitted, Shelf
<1>4. \A n \in TemplateName : lib[n] \in File \cup {Absent}
  BY DEF Shelf
<1>5. Overlay(lib, ts) \in Shelf
  BY <1>2, <1>4 DEF Overlay, Shelf
<1>. QED  BY <1>3, <1>5, SyncAssumption DEF Nothing, Shelf

LEMMA CombinedType ==
  ASSUME NEW b \in [base : Shelf, files : Shelf], NEW lib \in Shelf
  PROVE  Combined(b, lib) \in Shelf
<1>1. \A n \in TemplateName : lib[n] \in File \cup {Absent} /\ b.files[n] \in File \cup {Absent}
  BY DEF Shelf
<1>. QED  BY <1>1 DEF Combined, Shelf

\* What a file of an overlay is.
LEMMA OverlayFile ==
  ASSUME NEW ts \in SomeTemplates, NEW lib \in Shelf, NEW n \in TemplateName,
         Overlay(lib, ts)[n] # lib[n]
  PROVE  /\ ts[n] # Absent /\ n \notin Example
         /\ Overlay(lib, ts)[n] = Emit[ts[n]]
BY DEF Overlay, Emitted

\* A library that the overlay of a checkout does not change holds its templates.
LEMMA UpToDateMirrors ==
  ASSUME NEW ts, NEW lib, \A n \in TemplateName : Overlay(lib, ts)[n] = lib[n]
  PROVE  Mirrors(lib, ts)
BY DEF Mirrors, Overlay

\* A branch that forked from the library and overlays it merges, to its own files.
LEMMA FreshBranch ==
  ASSUME NEW ts \in SomeTemplates, NEW lib \in Shelf,
         NEW b \in [base : Shelf, files : Shelf],
         b.base = lib, b.files = Overlay(lib, ts)
  PROVE  /\ ~Conflict(b, lib)
         /\ Mirrors(Combined(b, lib), ts)
         /\ Combined(b, lib) = lib => Mirrors(lib, ts)
<1>1. ~Conflict(b, lib)
  BY DEF Conflict
<1>2. \A n \in TemplateName : Combined(b, lib)[n] = Overlay(lib, ts)[n]
  BY DEF Combined
<1>3. Mirrors(Combined(b, lib), ts)
  BY <1>2 DEF Mirrors, Overlay
<1>. QED  BY <1>1, <1>3

------------------------------------------------------------------------------
(* The invariant.                                                             *)

LEMMA InitIInv == Init => IInv
<1>. SUFFICES ASSUME Init PROVE IInv
  OBVIOUS
<1>. USE DEF Init
<1>1. TypeOK
  BY SyncAssumption DEF TypeOK, Nothing, Shelf, Stage
<1>2. Provenance
  BY DEF Provenance, Nothing
<1>3. Undisturbed
  BY DEF Undisturbed
<1>. QED  BY <1>1, <1>2, <1>3 DEF IInv

\* What the catalog may publish under a name after a merge.
LEMMA MergedAfter ==
  ASSUME IInv, NEW r \in Run, NEW ts \in SomeTemplates, Release(r, ts), NEW n \in TemplateName
  PROVE  /\ merged[n] \subseteq merged'[n] /\ merged'[n] \subseteq File
         /\ ts[n] # Absent /\ n \notin Example => Emit[ts[n]] \in merged'[n]
<1>. DEFINE New == {Emit[d] : d \in {d \in {ts[n]} \ {Absent} : n \notin Example}}
<1>1. merged'[n] = merged[n] \cup New
  BY DEF Release
<1>2. New \subseteq File
  BY SyncAssumption
<1>3. merged[n] \subseteq File
  BY DEF IInv, TypeOK
<1>. QED  BY <1>1, <1>2, <1>3

LEMMA ReleaseIInv ==
  ASSUME IInv, NEW r \in Run, NEW ts \in SomeTemplates, Release(r, ts)
  PROVE  IInv'
<1>1. TypeOK'
  <2>1. merged' \in [TemplateName -> SUBSET File]
    BY MergedAfter DEF Release
  <2>. QED  BY <2>1, SyncAssumption DEF IInv, TypeOK, Release, Stage
<1>2. Provenance'
  <2>1. \A q \in Run, n \in TemplateName :
          head'[q][n] # Absent /\ n \notin Example => Emit[head'[q][n]] \in merged'[n]
    <3>. SUFFICES ASSUME NEW q \in Run, NEW n \in TemplateName,
                         head'[q][n] # Absent, n \notin Example
                  PROVE  Emit[head'[q][n]] \in merged'[n]
      OBVIOUS
    <3>1. CASE q = r  BY <3>1, MergedAfter DEF Release, IInv, TypeOK
    <3>2. CASE q # r  BY <3>2, MergedAfter DEF Release, IInv, TypeOK, Provenance
    <3>. QED  BY <3>1, <3>2
  <2>. QED  BY <2>1, MergedAfter DEF Release, IInv, Provenance
<1>3. Undisturbed'
  BY DEF IInv, TypeOK, Release, Undisturbed, Mine, Overlay, Emitted
<1>. QED  BY <1>1, <1>2, <1>3 DEF IInv

\* The end of a run clears its own locals only.
LEMMA EndsIInv ==
  ASSUME IInv, NEW r \in Run, Ends(r),
         TypeOK', library' = library, branch' = branch, templates' = templates,
         merged' = merged, alone' \subseteq alone,
         \A q \in alone' \ {r} : pull' = pull
  PROVE  IInv'
<1>. USE DEF IInv
<1>1. \A q \in Run : q # r => /\ stage'[q] = stage[q] /\ head'[q] = head[q]
                              /\ base'[q] = base[q] /\ (q \in found => q \in found')
  BY DEF Ends, TypeOK
<1>2. stage'[r] = "idle" /\ head'[r] = Nothing
  BY DEF Ends, TypeOK
<1>3. Provenance'
  BY <1>1, <1>2, SyncAssumption DEF Provenance, Nothing
<1>4. Undisturbed'
  <2>. SUFFICES ASSUME NEW q \in alone', q # r
                PROVE  /\ stage'[q] = "cloned" => base'[q] = library'
                       /\ stage'[q] \in {"pushed", "patch", "post"} => Mine(q)'
                       /\ stage'[q] = "patch" => q \in found' /\ pull' # NoPull
                       /\ stage'[q] = "post" => pull' = NoPull
    BY <1>2 DEF Undisturbed
  <2>1. q \in Run /\ q \in alone /\ pull' = pull
    BY DEF TypeOK
  <2>. QED  BY <1>1, <2>1 DEF Undisturbed, Mine, Overlay, Emitted
<1>. QED  BY <1>3, <1>4

LEMMA CloneIInv ==
  ASSUME IInv, NEW r \in Run, Clone(r)
  PROVE  IInv'
<1>. USE DEF IInv, Clone
<1>1. TypeOK'
  BY DEF TypeOK, Stage
<1>2. Provenance'
  BY DEF Provenance
<1>3. Undisturbed'
  BY DEF TypeOK, Undisturbed, Mine, Overlay, Emitted
<1>. QED  BY <1>1, <1>2, <1>3

LEMMA ForcePushIInv ==
  ASSUME IInv, NEW r \in Run, ForcePush(r)
  PROVE  IInv'
<1>. USE DEF IInv
<1>0. base[r] \in Shelf /\ head[r] \in SomeTemplates
  BY DEF TypeOK
<1>1. Overlay(base[r], head[r]) \in Shelf
  BY <1>0, FileTypes
<1>2. TypeOK'
  BY <1>0, <1>1 DEF ForcePush, TypeOK, Stage
<1>3. Provenance'
  <2>1. \A n \in TemplateName :
          branch'.files[n] # branch'.base[n] => branch'.files[n] \in merged'[n]
    BY <1>0, OverlayFile DEF ForcePush, Provenance
  <2>. QED  BY <2>1 DEF ForcePush, Provenance
<1>4. Undisturbed'
  <2>1. alone' \subseteq {r}
    BY DEF ForcePush
  <2>2. stage'[r] = "pushed"
    BY DEF ForcePush, TypeOK
  <2>3. r \in alone' => Mine(r)'
    BY DEF ForcePush, Undisturbed, Mine, Overlay, Emitted
  <2>. QED  BY <2>1, <2>2, <2>3 DEF Undisturbed
<1>. QED  BY <1>2, <1>3, <1>4

LEMMA LookUpIInv ==
  ASSUME IInv, NEW r \in Run, LookUp(r) \/ LookUpFails(r)
  PROVE  IInv'
<1>. USE DEF IInv
<1>1. TypeOK'
  BY SyncAssumption DEF TypeOK, Stage, LookUp, LookUpFails, Fault
<1>2. Provenance'
  BY DEF Provenance, LookUp, LookUpFails
<1>3. CASE LookUp(r)
  <2>1. Undisturbed'
    BY <1>3 DEF LookUp, TypeOK, Undisturbed, Mine, Overlay, Emitted
  <2>. QED  BY <1>1, <1>2, <2>1
<1>4. CASE LookUpFails(r)
  <2>1. Undisturbed'
    BY <1>4 DEF LookUpFails, TypeOK, Undisturbed, Mine, Overlay, Emitted
  <2>. QED  BY <1>1, <1>2, <2>1
<1>. QED  BY <1>3, <1>4

LEMMA EndingIInv ==
  ASSUME IInv, NEW r \in Run,
         NoTemplates(r) \/ NothingToPropose(r) \/ Refresh(r) \/ Open(r) \/ Stops(r)
  PROVE  IInv'
<1>. USE DEF IInv
<1>0. head[r] \in SomeTemplates /\ Nothing \in SomeTemplates /\ Nothing \in Shelf
  BY FileTypes DEF TypeOK
<1>1. Ends(r) /\ library' = library /\ branch' = branch /\ templates' = templates
      /\ merged' = merged /\ alone' \subseteq alone
      /\ \A q \in alone' \ {r} : pull' = pull
  BY DEF NoTemplates, NothingToPropose, Refresh, Open, Stops
<1>2. pull' \in SomeTemplates \cup {NoPull}
  BY <1>0 DEF TypeOK, NoTemplates, NothingToPropose, Refresh, Open, Stops
<1>3. changes' = changes /\ faults' \in 0..MaxFaults
  BY SyncAssumption DEF TypeOK, NoTemplates, NothingToPropose, Refresh, Open, Stops, Fault
<1>4. TypeOK'
  BY <1>0, <1>1, <1>2, <1>3 DEF TypeOK, Ends, Stage
<1>. QED  BY <1>1, <1>4, EndsIInv

LEMMA PullIInv ==
  ASSUME IInv, MergePull \/ ClosePull
  PROVE  IInv'
<1>. USE DEF IInv
<1>1. CASE MergePull
  <2>1. Combined(branch, library) \in Shelf
    BY CombinedType DEF TypeOK
  <2>2. TypeOK'
    BY <1>1, <2>1 DEF MergePull, TypeOK
  <2>3. \A n \in TemplateName : library'[n] \in merged[n] \cup {Absent}
    BY <1>1 DEF MergePull, Combined, Provenance
  <2>4. Provenance'
    BY <1>1, <2>3 DEF MergePull, Provenance
  <2>. QED  BY <1>1, <2>2, <2>4 DEF MergePull, Undisturbed
<1>2. CASE ClosePull
  <2>1. TypeOK'
    BY <1>2, SyncAssumption DEF ClosePull, TypeOK, Fault
  <2>2. Provenance'
    BY <1>2 DEF ClosePull, Provenance
  <2>. QED  BY <1>2, <2>1, <2>2 DEF ClosePull, Undisturbed
<1>. QED  BY <1>1, <1>2

LEMMA StutterIInv ==
  ASSUME IInv, UNCHANGED vars
  PROVE  IInv'
BY DEF IInv, vars, TypeOK, Provenance, Undisturbed, Mine, Overlay, Emitted

LEMMA NextIInv == IInv /\ [Next]_vars => IInv'
<1>. SUFFICES ASSUME IInv, [Next]_vars PROVE IInv'
  OBVIOUS
<1>1. ASSUME NEW r \in Run, NEW ts \in SomeTemplates, Release(r, ts) PROVE IInv'
  BY <1>1, ReleaseIInv
<1>2. ASSUME NEW r \in Run, Script(r) \/ LookUpFails(r) \/ Stops(r) PROVE IInv'
  BY <1>2, CloneIInv, ForcePushIInv, LookUpIInv, EndingIInv DEF Script
<1>3. CASE MergePull \/ ClosePull
  BY <1>3, PullIInv
<1>4. CASE UNCHANGED vars
  BY <1>4, StutterIInv
<1>. QED  BY <1>1, <1>2, <1>3, <1>4 DEF Next

\* A file of the branch or of the library is one that catalog main has held, and an
\* undisturbed run still knows the library, its branch and its pull request.
THEOREM Invariance == Spec => []IInv
<1>. QED  BY InitIInv, NextIInv, PTL DEF Spec

\* TypeOK of TemplateSync, for any number of runs, templates and faults.
THEOREM TypeCorrect == Spec => []TypeOK
<1>1. IInv => TypeOK
  BY DEF IInv
<1>. QED  BY <1>1, Invariance, PTL

------------------------------------------------------------------------------
(* The library.                                                               *)

LEMMA InitRefines == Init => Library!Init
BY DEF Init, Library!Init, Nothing

LEMMA ReleaseRefines ==
  ASSUME IInv, NEW r \in Run, NEW ts \in SomeTemplates, Release(r, ts)
  PROVE  Library!Merge
<1>. DEFINE new == [n \in TemplateName |->
                      IF ts[n] = Absent \/ n \in Example THEN Absent ELSE Emit[ts[n]]]
<1>1. new = Emitted(ts)
  BY DEF Emitted
<1>2. new \in [TemplateName -> File \cup {Absent}]
  BY <1>1, FileTypes DEF IInv, TypeOK, Shelf
<1>3. \A n \in TemplateName :
        {Emit[d] : d \in {d \in {ts[n]} \ {Absent} : n \notin Example}} = {new[n]} \ {Absent}
  <2>. SUFFICES ASSUME NEW n \in TemplateName
                PROVE {Emit[d] : d \in {d \in {ts[n]} \ {Absent} : n \notin Example}} = {new[n]} \ {Absent}
    OBVIOUS
  <2>1. CASE ts[n] = Absent \/ n \in Example
    BY <2>1
  <2>2. CASE ts[n] # Absent /\ n \notin Example
    <3>1. Emit[ts[n]] # Absent
      BY <2>2, SyncAssumption
    <3>. QED  BY <2>2, <3>1
  <2>. QED  BY <2>1, <2>2
<1>4. merged' = [n \in TemplateName |-> merged[n] \cup ({new[n]} \ {Absent})]
  BY <1>3 DEF Release
<1>. QED  BY <1>2, <1>4 DEF Library!Merge, Release

LEMMA MergePullRefines ==
  ASSUME IInv, MergePull
  PROVE  Library!Publish
<1>1. \A n \in TemplateName : library'[n] \in {library[n]} \cup merged[n]
  BY DEF MergePull, Combined, IInv, Provenance
<1>2. \A n \in TemplateName : library[n] \in merged[n] \cup {Absent}
  BY DEF IInv, Provenance
<1>3. \A n \in TemplateName : library'[n] \in Library!Versions \cup {Absent}
  BY <1>1, <1>2 DEF Library!Versions
<1>4. library' \in [TemplateName -> Library!Versions \cup {Absent}]
  BY <1>3 DEF MergePull, Combined
<1>. QED  BY <1>1, <1>4 DEF MergePull, Library!Publish

LEMMA StepRefines == IInv /\ [Next]_vars => [Library!Next]_(Library!vars)
<1>. SUFFICES ASSUME IInv, [Next]_vars PROVE [Library!Next]_(Library!vars)
  OBVIOUS
<1>1. ASSUME NEW r \in Run, NEW ts \in SomeTemplates, Release(r, ts) PROVE Library!Next
  BY <1>1, ReleaseRefines DEF Library!Next
<1>2. ASSUME NEW r \in Run, Script(r) \/ LookUpFails(r) \/ Stops(r)
      PROVE  UNCHANGED Library!vars
  BY <1>2 DEF Script, NoTemplates, Clone, NothingToPropose, ForcePush, LookUp, Refresh, Open,
              LookUpFails, Stops, Library!vars
<1>3. CASE MergePull
  BY <1>3, MergePullRefines DEF Library!Next
<1>4. CASE ClosePull
  BY <1>4 DEF ClosePull, Library!vars
<1>5. CASE UNCHANGED vars
  BY <1>5 DEF vars, Library!vars
<1>. QED  BY <1>1, <1>2, <1>3, <1>4, <1>5 DEF Next

\* The script and the people around it implement the abstract library: only what
\* catalog main has held gets in, no example, and nothing disappears.
THEOREM ImplementsLibraryCorrect == Spec => ImplementsLibrary
<1>. QED  BY InitRefines, StepRefines, Invariance, PTL DEF Spec, ImplementsLibrary, Library!Spec

------------------------------------------------------------------------------
(* An undisturbed release.                                                    *)

LEMMA AloneStep ==
  ASSUME IInv, [Next]_vars, NEW r \in Run,
         r \in alone', stage[r] # "idle", stage'[r] = "idle"
  PROVE  Delivered(head[r], library', branch', pull')
<1>. USE DEF IInv
<1>0. head[r] \in SomeTemplates /\ library \in Shelf /\ branch \in [base : Shelf, files : Shelf]
  BY DEF TypeOK
<1>1. ASSUME NEW q \in Run, NEW ts \in SomeTemplates, Release(q, ts) PROVE FALSE
  BY <1>1 DEF Release, TypeOK
<1>2. ASSUME NEW q \in Run, Script(q) \/ LookUpFails(q) \/ Stops(q)
      PROVE  Delivered(head[r], library', branch', pull')
  <2>1. q = r
    BY <1>2 DEF Script, NoTemplates, Clone, NothingToPropose, ForcePush, LookUp, Refresh, Open,
                LookUpFails, Stops, Ends, TypeOK
  <2>2. library' = library /\ r \in alone
    BY <1>2, <2>1 DEF Script, NoTemplates, Clone, NothingToPropose, ForcePush, LookUp, Refresh,
                      Open, LookUpFails, Stops
  <2>3. CASE NoTemplates(r)
    BY <2>3 DEF NoTemplates, Delivered, Mirrors, Emitted, Nothing
  <2>4. CASE NothingToPropose(r)
    <3>1. Overlay(library, head[r]) = library
      BY <2>2, <2>4 DEF NothingToPropose, UpToDate, Undisturbed
    <3>. QED  BY <2>2, <3>1, UpToDateMirrors DEF Delivered
  <2>5. CASE Refresh(r)
    <3>1. Mine(r) /\ pull' = head[r] /\ branch' = branch
      BY <2>2, <2>5 DEF Refresh, Undisturbed
    <3>. QED  BY <1>0, <2>2, <3>1, FreshBranch DEF Mine, Delivered
  <2>6. CASE Open(r)
    <3>1. Mine(r) /\ pull = NoPull /\ branch' = branch
      BY <2>2, <2>6 DEF Open, Undisturbed
    <3>2. pull' = head[r] \/ Combined(branch, library) = library
      BY <2>6, <3>1 DEF Open
    <3>. QED  BY <1>0, <2>2, <3>1, <3>2, FreshBranch DEF Mine, Delivered
  <2>. QED
    BY <1>2, <2>1, <2>3, <2>4, <2>5, <2>6
    DEF Script, Clone, ForcePush, LookUp, LookUpFails, Stops, TypeOK
<1>3. CASE MergePull \/ ClosePull
  BY <1>3 DEF MergePull, ClosePull
<1>4. CASE UNCHANGED vars
  BY <1>4 DEF vars
<1>. QED  BY <1>1, <1>2, <1>3, <1>4 DEF Next

\* A release nobody got in the way of ends with its templates in the library or in a
\* pull request that merges, brings all of them there and names this release.
THEOREM AloneDeliversCorrect == Spec => AloneDelivers
<1>. DEFINE Step == \A r \in Run : r \in alone' /\ stage[r] # "idle" /\ stage'[r] = "idle"
                      => Delivered(head[r], library', branch', pull')
<1>1. IInv /\ [Next]_vars => Step
  BY AloneStep
<1>. QED  BY <1>1, Invariance, PTL DEF Spec, AloneDelivers
==============================================================================
