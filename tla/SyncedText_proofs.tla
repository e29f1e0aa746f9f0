-------------------------- MODULE SyncedText_proofs --------------------------
(***************************************************************************)
(* What is published of a template says what the template says, but for    *)
(* gaps in its scalars: where a file can be, it is one that main has held  *)
(* under its name (Authored), and stripping shortens gaps at most          *)
(* (StripComments_proofs).                                                 *)
(***************************************************************************)
EXTENDS SyncedText, TemplateSync_proofs, StripComments_proofs

\* Files that main has held under the name, stripped.
Held(n) == merged[n] \cup {Absent}

\* The library, the clones and the sync branch with the library it forked from hold
\* such files only; and such a file is a document's.
Authored ==
  /\ \A n \in TemplateName : \A file \in merged[n] : \E d \in Document : Emit[d] = file
  /\ \A r \in Run, n \in TemplateName : base[r][n] \in Held(n)
  /\ \A n \in TemplateName :
       library[n] \in Held(n) /\ branch.base[n] \in Held(n) /\ branch.files[n] \in Held(n)

LEMMA InitAuthored == Init => Authored
BY DEF Init, Authored, Held, Nothing

LEMMA ReleaseAuthored ==
  ASSUME IInv, Authored, NEW r \in Run, NEW ts \in SomeTemplates, Release(r, ts)
  PROVE  Authored'
<1>1. ASSUME NEW n \in TemplateName
      PROVE  /\ merged[n] \subseteq merged'[n]
             /\ \A file \in merged'[n] : \E d \in Document : Emit[d] = file
  <2>1. merged[n] \subseteq merged'[n]
    BY MergedAfter
  <2>2. ts[n] \in Document \cup {Absent}
    BY SyncAssumption
  <2>3. merged'[n] = merged[n] \cup {Emit[d] : d \in {d \in {ts[n]} \ {Absent} : n \notin Example}}
    BY DEF Release
  <2>4. ASSUME NEW file \in merged'[n] PROVE \E d \in Document : Emit[d] = file
    BY <2>2, <2>3 DEF Authored
  <2>. QED  BY <2>1, <2>4
<1>2. base' = base /\ library' = library /\ branch' = branch
  BY DEF Release
<1>. QED  BY <1>1, <1>2 DEF Authored, Held

LEMMA CloneAuthored ==
  ASSUME IInv, Authored, NEW r \in Run, Clone(r)
  PROVE  Authored'
<1>1. ASSUME NEW q \in Run, NEW n \in TemplateName PROVE base'[q][n] \in Held(n)
  BY DEF Clone, Authored, IInv, TypeOK
<1>2. library' = library /\ branch' = branch /\ merged' = merged
  BY DEF Clone
<1>. QED  BY <1>1, <1>2 DEF Authored, Held

\* What the loop writes over a clone is of this checkout, which main has held.
LEMMA ForcePushAuthored ==
  ASSUME IInv, Authored, NEW r \in Run, ForcePush(r)
  PROVE  Authored'
<1>1. branch' = [base |-> base[r], files |-> Overlay(base[r], head[r])]
  BY DEF ForcePush
<1>2. ASSUME NEW n \in TemplateName PROVE Overlay(base[r], head[r])[n] \in Held(n)
  <2>1. CASE Overlay(base[r], head[r])[n] = base[r][n]
    BY <2>1 DEF Authored
  <2>2. CASE Overlay(base[r], head[r])[n] # base[r][n]
    <3>1. head[r] \in SomeTemplates /\ base[r] \in Shelf
      BY DEF IInv, TypeOK
    <3>. QED  BY <2>2, <3>1, OverlayFile DEF Held, IInv, Provenance
  <2>. QED  BY <2>1, <2>2
<1>3. base' = base /\ library' = library /\ merged' = merged
  BY DEF ForcePush
<1>. QED  BY <1>1, <1>2, <1>3 DEF Authored, Held

\* The end of a run leaves nothing of its clone.
LEMMA EndsAuthored ==
  ASSUME IInv, Authored, NEW r \in Run, Ends(r),
         library' = library, branch' = branch, merged' = merged
  PROVE  Authored'
<1>1. ASSUME NEW q \in Run, NEW n \in TemplateName PROVE base'[q][n] \in Held(n)
  BY DEF Ends, Authored, IInv, TypeOK, Held, Nothing
<1>. QED  BY <1>1 DEF Authored, Held

LEMMA MergePullAuthored ==
  ASSUME Authored, MergePull
  PROVE  Authored'
<1>1. \A n \in TemplateName : library'[n] \in {library[n], branch.files[n]}
  BY DEF MergePull, Combined
<1>2. base' = base /\ branch' = branch /\ merged' = merged
  BY DEF MergePull
<1>. QED  BY <1>1, <1>2 DEF Authored, Held

LEMMA NextAuthored == IInv /\ Authored /\ [Next]_vars => Authored'
<1>. SUFFICES ASSUME IInv, Authored, [Next]_vars PROVE Authored'
  OBVIOUS
<1>1. ASSUME NEW r \in Run, NEW ts \in SomeTemplates, Release(r, ts) PROVE Authored'
  BY <1>1, ReleaseAuthored
<1>2. ASSUME NEW r \in Run, Script(r) \/ LookUpFails(r) \/ Stops(r) PROVE Authored'
  <2>1. CASE Clone(r)  BY <2>1, CloneAuthored
  <2>2. CASE ForcePush(r)  BY <2>2, ForcePushAuthored
  <2>3. CASE NoTemplates(r) \/ NothingToPropose(r) \/ Refresh(r) \/ Open(r) \/ Stops(r)
    BY <2>3, EndsAuthored DEF NoTemplates, NothingToPropose, Refresh, Open, Stops
  <2>4. CASE LookUp(r) \/ LookUpFails(r)
    BY <2>4 DEF LookUp, LookUpFails, Authored, Held
  <2>. QED  BY <1>2, <2>1, <2>2, <2>3, <2>4 DEF Script
<1>3. CASE MergePull  BY <1>3, MergePullAuthored
<1>4. CASE ClosePull  BY <1>4 DEF ClosePull, Authored, Held
<1>5. CASE UNCHANGED vars  BY <1>5 DEF vars, Authored, Held
<1>. QED  BY <1>1, <1>2, <1>3, <1>4, <1>5 DEF Next

\* PublishedLosesGapsOnly, for texts of any length: no sequence of pushes, failures and
\* merges brings anything into the library, or onto the sync branch, that main has not
\* held under that name, or of which stripping took more than repeated blank lines.
THEOREM PublishedCorrect == Spec => []PublishedLosesGapsOnly
<1>1. IInv /\ Authored => PublishedLosesGapsOnly
  <2>. SUFFICES ASSUME IInv, Authored, NEW n \in TemplateName, NEW file \in Published(n)
                PROVE  /\ file \in merged[n]
                       /\ \E d \in Document : Emit[d] = file
                       /\ \A d \in Document :
                            Emit[d] = file /\ IsYaml(d) => Meaning(file) = At(d, Told(d) \ Repeats(d))
    BY DEF PublishedLosesGapsOnly
  <2>1. file \in merged[n]
    BY DEF Published, Authored, Held
  <2>2. \E d \in Document : Emit[d] = file
    BY <2>1 DEF Authored
  <2>3. ASSUME NEW d \in Document, Emit[d] = file, IsYaml(d) PROVE Meaning(file) = At(d, Told(d) \ Repeats(d))
    <3>1. d \in Seq(Line) /\ file = Strip(d)
      BY <2>3, EmitAssumption
    <3>2. LosesGapsOnly(d)
      BY <3>1, StripLosesGapsOnly
    <3>. QED  BY <2>3, <3>1, <3>2 DEF LosesGapsOnly
  <2>. QED  BY <2>1, <2>2, <2>3
<1>2. Spec => []Authored
  BY InitAuthored, NextAuthored, Invariance, PTL DEF Spec
<1>. QED  BY <1>1, <1>2, Invariance, PTL

==============================================================================
