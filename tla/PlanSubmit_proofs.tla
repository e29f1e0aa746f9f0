------------------------- MODULE PlanSubmit_proofs -------------------------
(***************************************************************************)
(* What holds of the release leg for every set of files, plans, trees and  *)
(* runs.                                                                   *)
(***************************************************************************)
EXTENDS PlanSubmit, SequenceTheorems, WellFoundedInduction, TLAPS

------------------------------------------------------------------------------
(* The diff scope.                                                            *)

LEMMA PairingFacts ==
  ASSUME NEW old, NEW new, NEW from \in Pairings(old, new)
  PROVE  /\ \A a \in Added(old, new) : from[a] \in Deleted(old, new) \cup {NoSource}
         /\ Deleted(old, new) \subseteq File
         /\ Added(old, new) \subseteq File
BY DEF Pairings, Deleted, Added, Present

\* git reports each file that is there afterwards and was not the same before.
LEMMA ChangedPathsExact ==
  ASSUME NEW old, NEW new, NEW from \in Pairings(old, new)
  PROVE  ChangedPaths(NameStatus(old, new, from)) = Modified(old, new) \cup Added(old, new)
<1> DEFINE E == NameStatus(old, new, from)
<1>1. ASSUME NEW f \in Modified(old, new) PROVE f \in ChangedPaths(E)
  <2>1. Entry("M", NoSource, f) \in E
    BY DEF NameStatus
  <2>. QED  BY <2>1 DEF ChangedPaths, Entry
<1>2. ASSUME NEW a \in Added(old, new) PROVE a \in ChangedPaths(E)
  <2>1. Entry(IF from[a] = NoSource THEN "A" ELSE "R", from[a], a) \in E
    BY DEF NameStatus
  <2>. QED  BY <2>1 DEF ChangedPaths, Entry
<1>3. ASSUME NEW f \in ChangedPaths(E) PROVE f \in Modified(old, new) \cup Added(old, new)
  <2>1. PICK e \in E : e.status # "D" /\ f = e.path
    BY DEF ChangedPaths
  <2>. QED  BY <2>1 DEF NameStatus, Entry
<1>. QED  BY <1>1, <1>2, <1>3

\* A file git takes to have been renamed is reported as gone by its new name's entry.
LEMMA DeletedPathsExact ==
  ASSUME NEW old, NEW new, NEW from \in Pairings(old, new)
  PROVE  DeletedPaths(NameStatus(old, new, from)) = Deleted(old, new)
<1> DEFINE E == NameStatus(old, new, from)
<1>1. ASSUME NEW d \in Deleted(old, new), \A a \in Added(old, new) : from[a] # d
      PROVE  d \in DeletedPaths(E)
  <2>1. Entry("D", NoSource, d) \in E
    BY <1>1 DEF NameStatus
  <2>. QED  BY <2>1 DEF DeletedPaths, Entry
<1>2. ASSUME NEW d \in Deleted(old, new), NEW a \in Added(old, new), from[a] = d
      PROVE  d \in DeletedPaths(E)
  <2>1. d # NoSource
    BY PairingFacts, MarkerAssumption
  <2>2. Entry("R", d, a) \in E
    BY <1>2, <2>1 DEF NameStatus
  <2>. QED  BY <2>2 DEF DeletedPaths, Entry
<1>3. ASSUME NEW f \in DeletedPaths(E) PROVE f \in Deleted(old, new)
  <2>1. CASE \E e \in E : e.status = "D" /\ f = e.path
    BY <2>1 DEF NameStatus, Entry
  <2>2. CASE \E e \in E : e.status = "R" /\ f = e.source
    <3>1. PICK e \in E : e.status = "R" /\ f = e.source
      BY <2>2
    <3>2. PICK a \in Added(old, new) : f = from[a] /\ from[a] # NoSource
      BY <3>1 DEF NameStatus, Entry
    <3>. QED  BY <3>2, PairingFacts
  <2>. QED  BY <1>3, <2>1, <2>2 DEF DeletedPaths
<1>. QED  BY <1>1, <1>2, <1>3

\* With names git prints as they are, the diff scope is what the merge touched.
LEMMA DiffScopeExact ==
  ASSUME AsciiNames, NEW old, NEW new, NEW from \in Pairings(old, new)
  PROVE  DiffScope(old, new, from) = Touched(old, new)
<1> DEFINE changed == Modified(old, new) \cup Added(old, new)
<1>1. changed = {f \in File : new[f] # Absent /\ new[f] # old[f]}
  BY DEF Modified, Added, Present
<1>2. ASSUME NEW f \in Discover(new), NEW c \in changed, ~c.nested, Base(c) = Base(f)
      PROVE  c = f
  <2>1. c \in File /\ f \in File /\ ~f.nested
    BY <1>1 DEF Discover, Present, Submittable
  <2>. QED  BY <1>2, <2>1, FileAssumption
<1>3. ASSUME NEW f \in Discover(new), f \in changed
      PROVE  ~f.nested /\ f.ascii /\ Base(f) = Base(f)
  BY DEF Discover, Present, Submittable, AsciiNames
<1>4. SelectChanged(Discover(new), changed) = Discover(new) \cap changed
  BY <1>2, <1>3 DEF SelectChanged
<1>5. Discover(new) \cap changed = Touched(old, new)
  BY <1>1 DEF Discover, Present, Touched
<1>. QED  BY <1>4, <1>5, ChangedPathsExact DEF DiffScope

\* A release submits exactly the submittable files its merge touched and reports
\* exactly those it removed, whatever renames git sees in it.
THEOREM ScopeIsExactCorrect ==
  ASSUME AsciiNames
  PROVE  Spec => []ScopeIsExact
<1>1. ScopeIsExact
  BY DiffScopeExact, DeletedPathsExact DEF ScopeIsExact
<1>. QED  BY <1>1, PTL

------------------------------------------------------------------------------
(* The inductive invariant of the release leg.                                *)

Working(r) == stage[r] \in {"token", "posting", "await"}

\* The request a run owes the cluster for a file.
Owed(r, f) == Project(HeadTree(r)[f])

Clean(r) == \A f \in Due(r) : Projectable(HeadTree(r)[f])

HeadKnown == \A r \in Run : stage[r] # "idle" => head[r] \in 1 .. Len(history)

InScope == \A r \in Run : Working(r) => todo[r] \subseteq Due(r) /\ Clean(r)

Waiting == \A r \in Run : stage[r] = "await" => todo[r] # {}

FreshReply ==
  \A r \in Run : stage[r] \in {"idle", "start", "token", "posting"} => reply[r] = NoReply

\* Whatever is on its way was owed, by a run whose files are all good.
Requests ==
  \A q \in net : /\ stage[q.run] # "idle"
                 /\ q.file \in Due(q.run)
                 /\ q.req = Owed(q.run, q.file)
                 /\ Clean(q.run)

HeldMeans == \A r \in Run : held[r] # {} => stage[r] # "idle" /\ Clean(r)

\* A good answer is about the current file.
AnswerMeans ==
  \A r \in Run : stage[r] = "await" /\ reply[r] \in {"created", "identical"} =>
    Owed(r, Current(r)) \in held[r]

\* While nothing has failed, what is done was held.
Progressing ==
  \A r \in Run : Working(r) /\ ~failed[r] =>
    \A f \in Due(r) \ todo[r] : Owed(r, f) \in held[r]

\* A plan nobody deleted is the one that was held: nothing changes a brief.
Agreement ==
  \A r \in Run : \A req \in held[r] : req.name \notin deleted =>
    live[req.name] # NoPlan /\ live[req.name].brief = req.brief

Bookkeeping ==
  /\ HeadKnown
  /\ InScope
  /\ Waiting
  /\ FreshReply
  /\ Requests
  /\ HeldMeans
  /\ AnswerMeans
  /\ Progressing
  /\ GreenMeansHeld

IInv == TypeOK /\ Bookkeeping /\ Agreement

------------------------------------------------------------------------------

Smaller == {ss \in Nat \X Nat : ss[1] < ss[2]}

\* sort.Strings has a first element to go on with.
LEMMA CurrentInTodo ==
  ASSUME NEW r \in Run, todo[r] \subseteq File, todo[r] # {}
  PROVE  Current(r) \in todo[r]
<1> DEFINE T == {Pos[f] : f \in todo[r]}
<1>1. T \subseteq Nat /\ T # {}
  BY FileAssumption
<1>2. IsWellFoundedOn(Smaller, Nat)
  BY NatLessThanWellFounded, SMT DEF OpToRel, Smaller
<1> HIDE DEF T
<1>3. PICK x \in T : \A y \in T : <<y, x>> \notin Smaller
  BY <1>1, <1>2, WFMin
<1>4. \A y \in T : x <= y
  <2> SUFFICES ASSUME NEW y \in T PROVE x <= y
    OBVIOUS
  <2>1. x \in Nat /\ y \in Nat /\ <<y, x>> \notin Smaller
    BY <1>1, <1>3
  <2>2. y < x => <<y, x>> \in Smaller
    BY <2>1 DEF Smaller
  <2>. QED  BY <2>1, <2>2
<1>5. PICK f \in todo[r] : x = Pos[f]
  BY DEF T
<1>6. \A g \in todo[r] : Pos[f] <= Pos[g]
  BY <1>4, <1>5 DEF T
<1>. QED  BY <1>6 DEF Current

\* What a run works with depends on main, its commit and its mode.
LEMMA SameScope ==
  ASSUME UNCHANGED <<history, head, all>>
  PROVE  \A r : /\ Due(r)' = Due(r)
                /\ Clean(r)' = Clean(r)
                /\ \A f : Owed(r, f)' = Owed(r, f)
BY DEF Due, Clean, Owed, HeadTree, BaseTree, HasParent

\* Every scope a run may compute is what is due, with names git does not quote.
LEMMA ScopesAreDue ==
  ASSUME AsciiNames, NEW r \in Run, all[r] \/ HasParent(r), NEW scope \in Scopes(r)
  PROVE  scope = Due(r)
BY DiffScopeExact DEF Scopes, Due

\* A file that is due exists in the tree of its run.
LEMMA DueFacts ==
  ASSUME TypeOK, HeadKnown, NEW r \in Run, stage[r] # "idle", NEW f \in Due(r)
  PROVE  f \in File /\ HeadTree(r)[f] \in Doc
<1>1. HeadTree(r) \in Tree
  BY SubmitAssumption, ElementOfSeq DEF TypeOK, HeadKnown, HeadTree
<1>2. f \in File /\ HeadTree(r)[f] # Absent
  BY DEF Due, Discover, Present, Touched
<1>. QED  BY <1>1, <1>2 DEF Tree

\* What is owed for a good file is a request plan-api can be sent.
LEMMA OwedIsRequest ==
  ASSUME TypeOK, HeadKnown, NEW r \in Run, stage[r] # "idle", Clean(r), NEW f \in Due(r)
  PROVE  Owed(r, f) \in Request
<1>1. HeadTree(r)[f] \in Doc /\ Projectable(HeadTree(r)[f])
  BY DueFacts DEF Clean
<1>. QED  BY <1>1 DEF Doc, Projectable, Owed, Project, Request

LEMMA SameCurrent == \A r : todo'[r] = todo[r] => Current(r)' = Current(r)
BY DEF Current

LEMMA IInit == Init => IInv
<1> SUFFICES ASSUME Init PROVE IInv
  OBVIOUS
<1>1. TypeOK
  <2>1. history \in Seq(SomeTree)
    <3>1. PICK t \in SomeTree : history = <<t>>
      BY DEF Init
    <3>. QED  BY <3>1
  <2>. QED  BY <2>1 DEF Init, TypeOK, Stage
<1>2. HeadKnown /\ InScope /\ Waiting /\ FreshReply
  BY DEF Init, HeadKnown, InScope, Working, Waiting, FreshReply
<1>3. Requests /\ HeldMeans /\ AnswerMeans /\ Progressing /\ GreenMeansHeld
  BY DEF Init, Requests, HeldMeans, AnswerMeans, Progressing, Working, GreenMeansHeld
<1>4. Agreement
  BY DEF Init, Agreement
<1>. QED  BY <1>1, <1>2, <1>3, <1>4 DEF IInv, Bookkeeping

\* A run ends, or goes on to its submissions with the token it fetched.
LEMMA EndKeeps ==
  ASSUME IInv, NEW r \in Run, NEW o \in {"ok", "failed", "printed", "posting"}, End(r, o),
         stage[r] # "idle",
         o = "ok" => \A f \in Due(r) : Owed(r, f) \in held[r],
         o = "posting" => stage[r] = "token"
  PROVE  IInv'
<1>1. /\ stage' = [stage EXCEPT ![r] = o] /\ stage \in [Run -> Stage]
      /\ UNCHANGED <<history, head, all, todo, failed, expired, reply, net, live, held, deleted>>
  BY DEF End, observers, IInv, TypeOK
<1>2. \A s : /\ Due(s)' = Due(s) /\ Clean(s)' = Clean(s)
             /\ \A f : Owed(s, f)' = Owed(s, f)
  BY <1>1, SameScope
<1>3. \A s \in Run : stage'[s] = IF s = r THEN o ELSE stage[s]
  BY <1>1
<1>4. TypeOK'
  BY <1>1 DEF IInv, TypeOK, Stage
<1>5. HeadKnown' /\ Waiting' /\ FreshReply'
  BY <1>1, <1>3 DEF IInv, Bookkeeping, HeadKnown, Waiting, FreshReply
<1>6. InScope'
  BY <1>1, <1>2, <1>3 DEF IInv, Bookkeeping, InScope, Working
<1>7. Requests'
  <2>1. \A q \in net : q.run \in Run
    BY DEF IInv, TypeOK, Packet
  <2>. QED  BY <1>1, <1>2, <1>3, <2>1 DEF IInv, Bookkeeping, Requests
<1>8. HeldMeans'
  BY <1>1, <1>2, <1>3 DEF IInv, Bookkeeping, HeldMeans
<1>9. AnswerMeans'
  BY <1>1, <1>2, <1>3, SameCurrent DEF IInv, Bookkeeping, AnswerMeans
<1>10. Progressing'
  BY <1>1, <1>2, <1>3 DEF IInv, Bookkeeping, Progressing, Working
<1>11. GreenMeansHeld'
  <2>1. \A s \in Run : stage[s] = "ok" => \A f \in Due(s) : Owed(s, f) \in held[s]
    BY DEF IInv, Bookkeeping, GreenMeansHeld, Owed
  <2>2. \A s \in Run : stage'[s] = "ok" => \A f \in Due(s)' : Owed(s, f)' \in held'[s]
    BY <1>1, <1>2, <1>3, <2>1
  <2>. QED  BY <2>2 DEF GreenMeansHeld, Owed
<1>12. Agreement'
  BY <1>1 DEF IInv, Agreement
<1>. QED  BY <1>4, <1>5, <1>6, <1>7, <1>8, <1>9, <1>10, <1>11, <1>12 DEF IInv, Bookkeeping

\* main grows at its end: no run sees another tree than before.
LEMMA MergeScope ==
  ASSUME IInv, NEW tree \in SomeTree, Merge(tree), NEW s \in Run, stage[s] # "idle"
  PROVE  /\ Due(s)' = Due(s) /\ HeadTree(s)' = HeadTree(s)
         /\ Clean(s)' = Clean(s)
         /\ \A f : Owed(s, f)' = Owed(s, f)
<1>1. history' = Append(history, tree) /\ UNCHANGED <<head, all>>
  BY DEF Merge, runVars
<1>2. /\ Len(history') = Len(history) + 1 /\ Len(history) \in Nat
      /\ \A i \in 1 .. Len(history) : history'[i] = history[i]
  BY <1>1, AppendProperties, LenProperties DEF IInv, TypeOK
<1>3. head[s] \in 1 .. Len(history) /\ head'[s] = head[s] /\ all'[s] = all[s]
  BY <1>1 DEF IInv, Bookkeeping, HeadKnown
<1>4. HeadTree(s)' = HeadTree(s) /\ HasParent(s)' = HasParent(s)
  BY <1>2, <1>3 DEF HeadTree, HasParent
<1>5. HasParent(s) => BaseTree(s)' = BaseTree(s)
  <2>1. HasParent(s) => head[s] - 1 \in 1 .. Len(history)
    BY <1>2, <1>3 DEF HasParent
  <2>. QED  BY <1>2, <1>3, <2>1 DEF BaseTree
<1>6. Due(s)' = Due(s)
  BY <1>3, <1>4, <1>5 DEF Due
<1>. QED  BY <1>4, <1>6 DEF Clean, Owed

LEMMA MergeKeeps == \A tree \in SomeTree : IInv /\ Merge(tree) => IInv'
<1> SUFFICES ASSUME NEW tree \in SomeTree, IInv, Merge(tree) PROVE IInv'
  OBVIOUS
<1>1. /\ history' = Append(history, tree)
      /\ UNCHANGED <<stage, head, all, todo, failed, expired, reply, net, live, held, deleted>>
  BY DEF Merge, runVars, observers
<1>2. /\ history' \in Seq(SomeTree) /\ Len(history') = Len(history) + 1 /\ Len(history) \in Nat
      /\ \A i \in 1 .. Len(history) : history'[i] = history[i]
  BY <1>1, AppendProperties, LenProperties DEF IInv, TypeOK
<1>3. \A s \in Run : stage[s] # "idle" =>
        /\ Due(s)' = Due(s) /\ Clean(s)' = Clean(s)
        /\ \A f : Owed(s, f)' = Owed(s, f)
  BY MergeScope
<1>4. TypeOK'
  BY <1>1, <1>2 DEF IInv, TypeOK
<1>5. HeadKnown' /\ Waiting' /\ FreshReply'
  BY <1>1, <1>2 DEF IInv, Bookkeeping, HeadKnown, Waiting, FreshReply
<1>6. InScope'
  BY <1>1, <1>3 DEF IInv, Bookkeeping, InScope, Working
<1>7. Requests'
  <2>1. \A q \in net : q.run \in Run
    BY DEF IInv, TypeOK, Packet
  <2>. QED  BY <1>1, <1>3, <2>1 DEF IInv, Bookkeeping, Requests
<1>8. HeldMeans'
  BY <1>1, <1>3 DEF IInv, Bookkeeping, HeldMeans
<1>9. AnswerMeans'
  BY <1>1, <1>3, SameCurrent DEF IInv, Bookkeeping, AnswerMeans
<1>10. Progressing'
  BY <1>1, <1>3 DEF IInv, Bookkeeping, Progressing, Working
<1>11. GreenMeansHeld'
  BY <1>1, <1>3 DEF IInv, Bookkeeping, GreenMeansHeld, Owed
<1>12. Agreement'
  BY <1>1 DEF IInv, Agreement
<1>. QED  BY <1>4, <1>5, <1>6, <1>7, <1>8, <1>9, <1>10, <1>11, <1>12 DEF IInv, Bookkeeping

\* A run starts: no request and no Plan is its own yet.
LEMMA StartRunKeeps ==
  \A r \in Run, h \in 1 .. Len(history), everything \in BOOLEAN :
    IInv /\ StartRun(r, h, everything) => IInv'
<1> SUFFICES ASSUME NEW r \in Run, NEW h \in 1 .. Len(history), NEW everything \in BOOLEAN,
                    IInv, StartRun(r, h, everything)
             PROVE  IInv'
  OBVIOUS
<1>1. /\ stage[r] = "idle" /\ stage \in [Run -> Stage]
      /\ stage' = [stage EXCEPT ![r] = "start"]
      /\ head' = [head EXCEPT ![r] = h] /\ head \in [Run -> Nat]
      /\ all' = [all EXCEPT ![r] = everything] /\ all \in [Run -> BOOLEAN]
      /\ h \in Nat
      /\ UNCHANGED <<history, todo, failed, expired, reply, net, live, held, deleted>>
  BY DEF StartRun, observers, IInv, TypeOK
<1>2. \A s \in Run \ {r} :
        /\ stage'[s] = stage[s] /\ head'[s] = head[s] /\ all'[s] = all[s]
        /\ Due(s)' = Due(s) /\ Clean(s)' = Clean(s)
        /\ \A f : Owed(s, f)' = Owed(s, f)
  BY <1>1 DEF Due, Clean, Owed, HeadTree, BaseTree, HasParent
<1>3. stage'[r] = "start" /\ head'[r] = h
  BY <1>1
<1>4. TypeOK'
  BY <1>1 DEF IInv, TypeOK, Stage
<1>5. HeadKnown' /\ Waiting' /\ FreshReply'
  BY <1>1, <1>2, <1>3 DEF IInv, Bookkeeping, HeadKnown, Waiting, FreshReply
<1>6. InScope'
  BY <1>1, <1>2, <1>3 DEF IInv, Bookkeeping, InScope, Working
<1>7. Requests'
  <2>1. \A q \in net : q.run \in Run \ {r}
    BY <1>1 DEF IInv, TypeOK, Packet, Bookkeeping, Requests
  <2>. QED  BY <1>1, <1>2, <2>1 DEF IInv, Bookkeeping, Requests
<1>8. HeldMeans'
  BY <1>1, <1>2, <1>3 DEF IInv, Bookkeeping, HeldMeans
<1>9. AnswerMeans'
  BY <1>1, <1>2, <1>3, SameCurrent DEF IInv, Bookkeeping, AnswerMeans
<1>10. Progressing'
  BY <1>1, <1>2, <1>3 DEF IInv, Bookkeeping, Progressing, Working
<1>11. GreenMeansHeld'
  BY <1>1, <1>2, <1>3 DEF IInv, Bookkeeping, GreenMeansHeld, Owed
<1>12. Agreement'
  BY <1>1 DEF IInv, Agreement
<1>. QED  BY <1>4, <1>5, <1>6, <1>7, <1>8, <1>9, <1>10, <1>11, <1>12 DEF IInv, Bookkeeping

\* What every step of plan-api on a request does to the bookkeeping of the runs.
LEMMA ApiKeeps ==
  ASSUME IInv, NEW q \in net, NEW a \in Reply,
         UNCHANGED <<history, stage, head, all, todo, failed, expired>>,
         Answer(q, a) \/ UNCHANGED reply,
         net' \in SUBSET (net \cup {[q EXCEPT !.at = "compare"]}),
         UNCHANGED held \/ held' = [held EXCEPT ![q.run] = @ \cup {q.req}],
         Answer(q, a) /\ a \in {"created", "identical"} => q.req \in held'[q.run],
         live' \in [PlanName -> CR \cup {NoPlan}],
         deleted' \in SUBSET PlanName,
         Agreement'
  PROVE  IInv'
<1>0. /\ q.run \in Run /\ q.file \in File /\ q.req \in Request /\ q \in Packet
      /\ [q EXCEPT !.at = "compare"] \in Packet
      /\ \A x \in net : x \in Packet /\ x.run \in Run
  <2>1. q \in Packet /\ \A x \in net : x \in Packet
    BY DEF IInv, TypeOK
  <2>2. \A x \in Packet : x.run \in Run
    BY DEF Packet
  <2>3. q.run \in Run /\ q.file \in File /\ q.req \in Request
    BY <2>1 DEF Packet
  <2>4. [q EXCEPT !.at = "compare"] \in Packet
    BY <2>1 DEF Packet
  <2>. QED  BY <2>1, <2>2, <2>3, <2>4
<1>1. /\ stage[q.run] # "idle" /\ q.file \in Due(q.run)
      /\ q.req = Owed(q.run, q.file) /\ Clean(q.run)
  BY DEF IInv, Bookkeeping, Requests
<1>2. \A s : /\ Due(s)' = Due(s) /\ Clean(s)' = Clean(s)
             /\ \A f : Owed(s, f)' = Owed(s, f)
             /\ Current(s)' = Current(s)
  BY SameScope, SameCurrent
<1>3. /\ held' \in [Run -> SUBSET Request]
      /\ \A s \in Run : held[s] \subseteq held'[s]
      /\ \A s \in Run : s # q.run => held'[s] = held[s]
  <2>0. held \in [Run -> SUBSET Request]
    BY DEF IInv, TypeOK
  <2>1. CASE UNCHANGED held
    BY <2>0, <2>1
  <2>2. CASE held' = [held EXCEPT ![q.run] = @ \cup {q.req}]
    BY <1>0, <2>0, <2>2
  <2>. QED  BY <2>1, <2>2
<1>4. /\ reply' \in [Run -> Reply \cup {NoReply}]
      /\ \A s \in Run :
           \/ reply'[s] = reply[s]
           \/ /\ Answer(q, a) /\ s = q.run /\ reply'[s] = a
              /\ stage[s] = "await" /\ Current(s) = q.file
  BY <1>0, ZenonT(30) DEF Answer, IInv, TypeOK
<1>5. TypeOK'
  BY <1>0, <1>3, <1>4 DEF IInv, TypeOK
<1>6. HeadKnown' /\ Waiting'
  BY DEF IInv, Bookkeeping, HeadKnown, Waiting
<1>7. FreshReply'
  BY <1>4 DEF IInv, Bookkeeping, FreshReply
<1>8. InScope'
  BY <1>2 DEF IInv, Bookkeeping, InScope, Working
<1>9. Requests'
  <2> DEFINE moved == [q EXCEPT !.at = "compare"]
  <2>1. moved.run = q.run /\ moved.file = q.file /\ moved.req = q.req
    BY <1>0 DEF Packet
  <2>2. ASSUME NEW x \in net'
        PROVE  /\ stage[x.run] # "idle" /\ x.file \in Due(x.run)
               /\ x.req = Owed(x.run, x.file) /\ Clean(x.run)
    <3>1. CASE x \in net
      BY <3>1 DEF IInv, Bookkeeping, Requests
    <3>2. CASE x = moved
      BY <1>0, <1>1, <2>1, <3>2
    <3>. QED  BY <2>2, <3>1, <3>2
  <2>. QED  BY <1>2, <2>2 DEF Requests
<1>10. HeldMeans'
  BY <1>1, <1>2, <1>3 DEF IInv, Bookkeeping, HeldMeans
<1>11. AnswerMeans'
  <2> SUFFICES ASSUME NEW s \in Run, stage[s] = "await", reply'[s] \in {"created", "identical"}
               PROVE  Owed(s, Current(s)) \in held'[s]
    BY <1>2 DEF AnswerMeans
  <2>1. CASE reply'[s] = reply[s]
    BY <1>3, <2>1 DEF IInv, Bookkeeping, AnswerMeans
  <2>2. CASE Answer(q, a) /\ s = q.run /\ reply'[s] = a /\ Current(s) = q.file
    BY <1>1, <2>2
  <2>. QED  BY <1>4, <2>1, <2>2
<1>12. Progressing'
  BY <1>2, <1>3 DEF IInv, Bookkeeping, Progressing, Working
<1>13. GreenMeansHeld'
  <2>1. \A s \in Run : stage[s] = "ok" => \A f \in Due(s) : Owed(s, f) \in held'[s]
    BY <1>3 DEF IInv, Bookkeeping, GreenMeansHeld, Owed
  <2>2. \A s \in Run : stage'[s] = "ok" => \A f \in Due(s)' : Owed(s, f)' \in held'[s]
    BY <1>2, <2>1
  <2>. QED  BY <2>2 DEF GreenMeansHeld, Owed
<1>. QED  BY <1>5, <1>6, <1>7, <1>8, <1>9, <1>10, <1>11, <1>12, <1>13 DEF IInv, Bookkeeping

\* A Plan is created only where none is, so what was held before is not touched.
LEMMA ApiCreateKeeps == \A q \in net : IInv /\ ApiCreate(q) => IInv'
<1> SUFFICES ASSUME NEW q \in net, IInv, ApiCreate(q) PROVE IInv'
  OBVIOUS
<1>1. q \in Packet /\ q.run \in Run /\ q.req \in Request /\ q.req.name \in PlanName /\ q.req.brief \in Brief
  BY DEF IInv, TypeOK, Packet, Request
<1>2. CASE live[q.req.name] = NoPlan
  <2> DEFINE plan == [brief |-> q.req.brief, state |-> "paused"]
  <2>1. /\ live' = [live EXCEPT ![q.req.name] = plan]
        /\ held' = [held EXCEPT ![q.run] = @ \cup {q.req}]
        /\ net' = net \ {q} /\ Answer(q, "created") /\ deleted' = deleted
        /\ live \in [PlanName -> CR \cup {NoPlan}] /\ held \in [Run -> SUBSET Request]
    BY <1>2 DEF ApiCreate, IInv, TypeOK
  <2>2. plan \in CR /\ plan # NoPlan /\ plan.brief = q.req.brief
    BY <1>1, MarkerAssumption3 DEF CR
  <2> HIDE DEF plan
  <2>3. live' \in [PlanName -> CR \cup {NoPlan}] /\ live'[q.req.name] = plan
    BY <1>1, <2>1, <2>2
  <2>4. Agreement'
    <3> SUFFICES ASSUME NEW s \in Run, NEW req \in held'[s], req.name \notin deleted
                 PROVE  live'[req.name] # NoPlan /\ live'[req.name].brief = req.brief
      BY <2>1 DEF Agreement
    <3>1. CASE req = q.req
      BY <2>2, <2>3, <3>1
    <3>2. CASE req \in held[s]
      <4>1. live[req.name] # NoPlan /\ live[req.name].brief = req.brief
        BY <3>2 DEF IInv, Agreement
      <4>2. req.name # q.req.name
        BY <1>2, <4>1
      <4>. QED  BY <2>1, <4>1, <4>2, <3>2 DEF Request
    <3>. QED  BY <1>1, <2>1, <3>1, <3>2
  <2>5. q.req \in held'[q.run]
    BY <1>1, <2>1
  <2>6. "created" \in Reply
    BY DEF Reply
  <2>7. UNCHANGED <<history, stage, head, all, todo, failed, expired>> /\ deleted' \in SUBSET PlanName
    BY DEF ApiCreate, IInv, TypeOK
  <2>. QED  BY <2>1, <2>3, <2>4, <2>5, <2>6, <2>7, ApiKeeps
<1>3. CASE live[q.req.name] # NoPlan
  <2>1. /\ net' = (net \ {q}) \cup {[q EXCEPT !.at = "compare"]}
        /\ UNCHANGED <<live, held, reply, deleted>>
        /\ UNCHANGED <<history, stage, head, all, todo, failed, expired>>
    BY <1>3 DEF ApiCreate
  <2>2. Agreement' /\ "rejected" \in Reply
    BY <2>1 DEF IInv, Agreement, Reply
  <2>3. ~("rejected" \in {"created", "identical"})
    OBVIOUS
  <2>4. live' \in [PlanName -> CR \cup {NoPlan}] /\ deleted' \in SUBSET PlanName
    BY <2>1 DEF IInv, TypeOK
  <2>. QED  BY <2>1, <2>2, <2>3, <2>4, ApiKeeps
<1>. QED  BY <1>2, <1>3

LEMMA ApiRejectKeeps == \A q \in net : IInv /\ ApiReject(q) => IInv'
<1> SUFFICES ASSUME NEW q \in net, IInv, ApiReject(q) PROVE IInv'
  OBVIOUS
<1>1. /\ net' = net \ {q} /\ Answer(q, "rejected")
      /\ UNCHANGED <<history, stage, head, all, todo, failed, expired>>
      /\ UNCHANGED <<live, held, deleted>>
  BY DEF ApiReject, observers
<1>2. Agreement' /\ "rejected" \in Reply /\ ~("rejected" \in {"created", "identical"})
  BY <1>1 DEF IInv, Agreement, Reply
<1>3. live' \in [PlanName -> CR \cup {NoPlan}] /\ deleted' \in SUBSET PlanName
  BY <1>1 DEF IInv, TypeOK
<1>. QED  BY <1>1, <1>2, <1>3, ApiKeeps

\* The identical verdict is given for a Plan that has the very brief.
LEMMA ApiCompareKeeps == \A q \in net : IInv /\ ApiCompare(q) => IInv'
<1> SUFFICES ASSUME NEW q \in net, IInv, ApiCompare(q) PROVE IInv'
  OBVIOUS
<1>1. PICK a \in {ResubmitVerdict(q.req), "unknown", "unreadable"} :
        /\ Answer(q, a)
        /\ held' = IF a = "identical" THEN [held EXCEPT ![q.run] = @ \cup {q.req}] ELSE held
  BY DEF ApiCompare
<1>2. /\ net' = net \ {q}
      /\ UNCHANGED <<history, stage, head, all, todo, failed, expired>>
      /\ UNCHANGED <<live, deleted>>
  BY DEF ApiCompare
<1>3. a \in Reply /\ a # "created"
  BY DEF ResubmitVerdict, Reply, Verdict
<1>4. a = "identical" => live[q.req.name] # NoPlan /\ live[q.req.name].brief = q.req.brief
  BY DEF ResubmitVerdict
<1>5. q.run \in Run /\ held \in [Run -> SUBSET Request]
  BY DEF IInv, TypeOK, Packet
<1>6. Agreement'
  <2> SUFFICES ASSUME NEW s \in Run, NEW req \in held'[s], req.name \notin deleted
               PROVE  live[req.name] # NoPlan /\ live[req.name].brief = req.brief
    BY <1>2 DEF Agreement
  <2>1. req \in held[s] \/ (a = "identical" /\ req = q.req)
    BY <1>1, <1>5
  <2>. QED  BY <1>4, <2>1 DEF IInv, Agreement
<1>7. a = "identical" => q.req \in held'[q.run]
  BY <1>1, <1>5
<1>8. live' \in [PlanName -> CR \cup {NoPlan}] /\ deleted' \in SUBSET PlanName
  BY <1>2 DEF IInv, TypeOK
<1>. QED  BY <1>1, <1>2, <1>3, <1>6, <1>7, <1>8, ApiKeeps

\* A run goes on working on files that are due, keeping account of the others.
LEMMA WorkKeeps ==
  ASSUME IInv, TypeOK', NEW r \in Run, stage[r] # "idle", Clean(r),
         UNCHANGED <<history, head, all, live, held, deleted>>,
         \A s \in Run \ {r} : /\ stage'[s] = stage[s] /\ todo'[s] = todo[s]
                              /\ failed'[s] = failed[s] /\ reply'[s] = reply[s],
         stage'[r] \in {"token", "posting", "await"},
         reply'[r] = NoReply,
         todo'[r] \subseteq Due(r),
         stage'[r] = "await" => todo'[r] # {},
         ~failed'[r] => \A f \in Due(r) \ todo'[r] : Owed(r, f) \in held[r],
         \A x \in net' : \/ x \in net
                         \/ x.run = r /\ x.file \in Due(r) /\ x.req = Owed(r, x.file)
  PROVE  IInv'
<1>1. \A s : /\ Due(s)' = Due(s) /\ Clean(s)' = Clean(s)
             /\ \A f : Owed(s, f)' = Owed(s, f)
  BY SameScope
<1>2. HeadKnown' /\ Waiting' /\ FreshReply'
  BY DEF IInv, Bookkeeping, HeadKnown, Waiting, FreshReply
<1>3. InScope'
  BY <1>1 DEF IInv, Bookkeeping, InScope, Working
<1>4. Requests'
  <2>1. \A x \in net : x.run \in Run
    BY DEF IInv, TypeOK, Packet
  <2>2. \A x \in net' : /\ stage'[x.run] # "idle" /\ x.file \in Due(x.run)
                       /\ x.req = Owed(x.run, x.file) /\ Clean(x.run)
    BY <2>1 DEF IInv, Bookkeeping, Requests
  <2>. QED  BY <1>1, <2>2 DEF Requests
<1>5. HeldMeans'
  BY <1>1 DEF IInv, Bookkeeping, HeldMeans
<1>6. AnswerMeans'
  <2> SUFFICES ASSUME NEW s \in Run, stage'[s] = "await", reply'[s] \in {"created", "identical"}
               PROVE  Owed(s, Current(s)') \in held[s]
    BY <1>1 DEF AnswerMeans
  <2>1. s # r
    BY MarkerAssumption2 DEF Reply, Verdict
  <2>. QED  BY <2>1, SameCurrent DEF IInv, Bookkeeping, AnswerMeans
<1>7. Progressing'
  BY <1>1 DEF IInv, Bookkeeping, Progressing, Working
<1>8. GreenMeansHeld'
  <2>1. \A s \in Run : stage'[s] = "ok" => \A f \in Due(s) : Owed(s, f) \in held[s]
    BY DEF IInv, Bookkeeping, GreenMeansHeld, Owed
  <2>2. \A s \in Run : stage'[s] = "ok" => \A f \in Due(s)' : Owed(s, f)' \in held'[s]
    BY <1>1, <2>1
  <2>. QED  BY <2>2 DEF GreenMeansHeld, Owed
<1>9. Agreement'
  BY DEF IInv, Agreement
<1>. QED  BY <1>2, <1>3, <1>4, <1>5, <1>6, <1>7, <1>8, <1>9 DEF IInv, Bookkeeping

\* Every file projects: the run owes all that is due and has lost nothing yet.
LEMMA ProjectAllKeeps == AsciiNames => \A r \in Run : IInv /\ ProjectAll(r) => IInv'
<1> SUFFICES ASSUME AsciiNames, NEW r \in Run, IInv, ProjectAll(r) PROVE IInv'
  OBVIOUS
<1>1. PICK scope \in Scopes(r) \ {{}} :
        /\ \A f \in scope : Projectable(HeadTree(r)[f])
        /\ \/ /\ stage' = [stage EXCEPT ![r] = "token"]
              /\ todo'  = [todo EXCEPT ![r] = scope]
           \/ /\ stage' = [stage EXCEPT ![r] = "printed"]
              /\ UNCHANGED todo
  BY DEF ProjectAll
<1>2. /\ stage[r] = "start"
      /\ UNCHANGED <<history, head, all, failed, expired, reply, net, live, held, deleted>>
  BY DEF ProjectAll, observers
<1>3. scope = Due(r)
  BY <1>1, ScopesAreDue DEF ProjectAll
<1>4. Clean(r)
  BY <1>1, <1>3 DEF Clean
<1>5. CASE stage' = [stage EXCEPT ![r] = "printed"] /\ UNCHANGED todo
  <2>1. End(r, "printed")
    BY <1>2, <1>5 DEF End, observers
  <2>. QED  BY <1>2, <2>1, EndKeeps
<1>6. CASE stage' = [stage EXCEPT ![r] = "token"] /\ todo' = [todo EXCEPT ![r] = scope]
  <2>1. stage \in [Run -> Stage] /\ todo \in [Run -> SUBSET File]
    BY DEF IInv, TypeOK
  <2>2. scope \subseteq File
    BY <1>2, <1>3, DueFacts DEF IInv, Bookkeeping
  <2>3. TypeOK'
    BY <1>2, <1>6, <2>2 DEF IInv, TypeOK, Stage
  <2>4. stage'[r] = "token" /\ todo'[r] = Due(r)
    BY <1>3, <1>6, <2>1
  <2>5. \A s \in Run \ {r} : stage'[s] = stage[s] /\ todo'[s] = todo[s]
    BY <1>6, <2>1
  <2>6. reply'[r] = NoReply
    BY <1>2 DEF IInv, Bookkeeping, FreshReply
  <2>. QED  BY <1>2, <1>4, <2>3, <2>4, <2>5, <2>6, WorkKeeps
<1>. QED  BY <1>1, <1>5, <1>6

\* The request that leaves is the one owed for the current file.
LEMMA PostKeeps == \A r \in Run : IInv /\ Post(r) => IInv'
<1> SUFFICES ASSUME NEW r \in Run, IInv, Post(r) PROVE IInv'
  OBVIOUS
<1> DEFINE sent == [run |-> r, file |-> Current(r), req |-> Sends(r), at |-> "create"]
<1>1. /\ stage[r] = "posting" /\ todo[r] # {} /\ net' = net \cup {sent}
      /\ stage' = [stage EXCEPT ![r] = "await"] /\ stage \in [Run -> Stage]
      /\ UNCHANGED <<history, head, all, todo, failed, expired, reply, live, held, deleted>>
  BY DEF Post, observers, IInv, TypeOK
<1>2. todo[r] \subseteq Due(r) /\ Clean(r)
  BY <1>1 DEF IInv, Bookkeeping, InScope, Working
<1>3. Current(r) \in todo[r]
  <2>1. todo[r] \subseteq File
    BY DEF IInv, TypeOK
  <2>. QED  BY <1>1, <2>1, CurrentInTodo
<1>4. Sends(r) = Owed(r, Current(r))
  BY DEF Sends, Owed
<1>5. sent \in Packet
  <2>1. Current(r) \in File /\ Sends(r) \in Request
    BY <1>1, <1>2, <1>3, <1>4, OwedIsRequest, DueFacts DEF IInv, Bookkeeping
  <2>. QED  BY <2>1 DEF Packet
<1>6. sent.run = r /\ sent.file \in Due(r) /\ sent.req = Owed(r, sent.file)
  BY <1>2, <1>3, <1>4
<1> HIDE DEF sent
<1>7. TypeOK'
  BY <1>1, <1>5 DEF IInv, TypeOK, Stage
<1>8. stage'[r] = "await" /\ \A s \in Run \ {r} : stage'[s] = stage[s]
  BY <1>1
<1>9. /\ reply'[r] = NoReply
      /\ ~failed'[r] => \A f \in Due(r) \ todo'[r] : Owed(r, f) \in held[r]
  BY <1>1 DEF IInv, Bookkeeping, FreshReply, Progressing, Working
<1>. QED  BY <1>1, <1>2, <1>6, <1>7, <1>8, <1>9, WorkKeeps

\* The file a run leaves behind was held, or the run remembers a failure.
LEMMA NextFileKeeps ==
  ASSUME IInv, NEW r \in Run, NEW ok \in BOOLEAN, NextFile(r, ok),
         stage[r] \in {"posting", "await"}, todo[r] # {},
         ok => Owed(r, Current(r)) \in held[r]
  PROVE  IInv'
<1>1. /\ stage' = [stage EXCEPT ![r] = "posting"] /\ stage \in [Run -> Stage]
      /\ todo' = [todo EXCEPT ![r] = @ \ {Current(r)}] /\ todo \in [Run -> SUBSET File]
      /\ failed' = [failed EXCEPT ![r] = @ \/ ~ok] /\ failed \in [Run -> BOOLEAN]
      /\ reply' = [reply EXCEPT ![r] = NoReply] /\ reply \in [Run -> Reply \cup {NoReply}]
      /\ UNCHANGED <<history, head, all, expired, net, live, held, deleted>>
  BY DEF NextFile, observers, IInv, TypeOK
<1>2. /\ todo[r] \subseteq Due(r) /\ Clean(r)
      /\ ~failed[r] => \A f \in Due(r) \ todo[r] : Owed(r, f) \in held[r]
  BY DEF IInv, Bookkeeping, InScope, Progressing, Working
<1>3. TypeOK'
  BY <1>1 DEF IInv, TypeOK, Stage
<1>4. \A s \in Run \ {r} : /\ stage'[s] = stage[s] /\ todo'[s] = todo[s]
                           /\ failed'[s] = failed[s] /\ reply'[s] = reply[s]
  BY <1>1
<1>5. /\ stage'[r] = "posting" /\ todo'[r] = todo[r] \ {Current(r)} /\ reply'[r] = NoReply
  BY <1>1
<1>6. ~failed'[r] => ~failed[r] /\ ok
  BY <1>1
<1>7. ~failed'[r] => \A f \in Due(r) \ todo'[r] : Owed(r, f) \in held[r]
  BY <1>2, <1>5, <1>6
<1>. QED  BY <1>1, <1>2, <1>3, <1>4, <1>5, <1>7, WorkKeeps

LEMMA PostFailsKeeps == \A r \in Run : IInv /\ PostFails(r) => IInv'
<1> SUFFICES ASSUME NEW r \in Run, IInv, PostFails(r) PROVE IInv'
  OBVIOUS
<1>1. NextFile(r, FALSE) /\ stage[r] \in {"posting", "await"} /\ todo[r] # {}
  BY DEF PostFails, IInv, Bookkeeping, Waiting
<1>. QED  BY <1>1, NextFileKeeps

LEMMA PostAnsweredKeeps == \A r \in Run : IInv /\ PostAnswered(r) => IInv'
<1> SUFFICES ASSUME NEW r \in Run, IInv, PostAnswered(r) PROVE IInv'
  OBVIOUS
<1> DEFINE ok == \/ reply[r] = "created"
                 \/ reply[r] \in Verdict /\ ClassifyResubmit(reply[r])
<1>1. NextFile(r, ok) /\ stage[r] = "await" /\ todo[r] # {}
  BY DEF PostAnswered, IInv, Bookkeeping, Waiting
<1>2. ok => reply[r] \in {"created", "identical"}
  BY DEF ClassifyResubmit
<1>3. ok => Owed(r, Current(r)) \in held[r]
  BY <1>1, <1>2 DEF IInv, Bookkeeping, AnswerMeans
<1>4. ok \in BOOLEAN
  OBVIOUS
<1> HIDE DEF ok
<1>. QED  BY <1>1, <1>3, <1>4, NextFileKeeps

\* A deadline, an operator or nothing at all moves no run and no request.
LEMMA OthersKeep ==
  ASSUME IInv, TypeOK', Agreement',
         UNCHANGED <<history, stage, head, all, todo, failed, reply, net, held>>
  PROVE  IInv'
<1>1. \A s : /\ Due(s)' = Due(s) /\ Clean(s)' = Clean(s)
             /\ \A f : Owed(s, f)' = Owed(s, f)
             /\ Current(s)' = Current(s)
  BY SameScope, SameCurrent
<1>2. HeadKnown' /\ Waiting' /\ FreshReply'
  BY DEF IInv, Bookkeeping, HeadKnown, Waiting, FreshReply
<1>3. InScope' /\ Requests' /\ HeldMeans'
  BY <1>1 DEF IInv, Bookkeeping, InScope, Working, Requests, HeldMeans
<1>4. AnswerMeans' /\ Progressing'
  BY <1>1 DEF IInv, Bookkeeping, AnswerMeans, Progressing, Working
<1>5. GreenMeansHeld'
  <2>1. \A s \in Run : stage[s] = "ok" => \A f \in Due(s) : Owed(s, f) \in held[s]
    BY DEF IInv, Bookkeeping, GreenMeansHeld, Owed
  <2>2. \A s \in Run : stage'[s] = "ok" => \A f \in Due(s)' : Owed(s, f)' \in held'[s]
    BY <1>1, <2>1
  <2>. QED  BY <2>2 DEF GreenMeansHeld, Owed
<1>. QED  BY <1>2, <1>3, <1>4, <1>5 DEF IInv, Bookkeeping

LEMMA DeadlineKeeps == \A r \in Run : IInv /\ Deadline(r) => IInv'
<1> SUFFICES ASSUME NEW r \in Run, IInv, Deadline(r) PROVE IInv'
  OBVIOUS
<1>1. /\ expired' = [expired EXCEPT ![r] = TRUE]
      /\ UNCHANGED <<history, stage, head, all, todo, failed, reply, net, live, held, deleted>>
  BY DEF Deadline, observers
<1>2. TypeOK' /\ Agreement'
  BY <1>1 DEF IInv, TypeOK, Agreement
<1>. QED  BY <1>1, <1>2, OthersKeep

\* The controller changes what a Plan is doing, never what it was asked for.
LEMMA SetStateKeeps ==
  \A p \in PlanName, from, to \in {"paused", "running", "terminal"} :
    IInv /\ SetState(p, from, to) => IInv'
<1> SUFFICES ASSUME NEW p \in PlanName, NEW from, NEW to \in {"paused", "running", "terminal"},
                    IInv, SetState(p, from, to)
             PROVE  IInv'
  OBVIOUS
<1> DEFINE plan == [live[p] EXCEPT !.state = to]
<1>1. /\ live[p] # NoPlan /\ live' = [live EXCEPT ![p] = plan]
      /\ live \in [PlanName -> CR \cup {NoPlan}]
      /\ UNCHANGED <<history, stage, head, all, todo, failed, expired, reply, net, held, deleted>>
  BY DEF SetState, runVars, observers, IInv, TypeOK
<1>2. plan \in CR /\ plan.brief = live[p].brief
  BY <1>1 DEF CR
<1>3. plan # NoPlan
  BY <1>2, MarkerAssumption3
<1> HIDE DEF plan
<1>4. TypeOK'
  BY <1>1, <1>2 DEF IInv, TypeOK
<1>5. Agreement'
  <2> SUFFICES ASSUME NEW s \in Run, NEW req \in held[s], req.name \notin deleted
               PROVE  live'[req.name] # NoPlan /\ live'[req.name].brief = req.brief
    BY <1>1 DEF Agreement
  <2>1. live[req.name] # NoPlan /\ live[req.name].brief = req.brief
    BY DEF IInv, Agreement
  <2>2. req.name \in PlanName
    BY DEF IInv, TypeOK, Request
  <2>. QED  BY <1>1, <1>2, <1>3, <2>1, <2>2
<1>. QED  BY <1>1, <1>4, <1>5, OthersKeep

LEMMA DeleteKeeps == \A p \in PlanName : IInv /\ Delete(p) => IInv'
<1> SUFFICES ASSUME NEW p \in PlanName, IInv, Delete(p) PROVE IInv'
  OBVIOUS
<1>1. /\ live' = [live EXCEPT ![p] = NoPlan] /\ live \in [PlanName -> CR \cup {NoPlan}]
      /\ deleted' = deleted \cup {p}
      /\ UNCHANGED <<history, stage, head, all, todo, failed, expired, reply, net, held>>
  BY DEF Delete, runVars, IInv, TypeOK
<1>2. TypeOK'
  BY <1>1 DEF IInv, TypeOK
<1>3. Agreement'
  BY <1>1 DEF IInv, Agreement
<1>. QED  BY <1>1, <1>2, <1>3, OthersKeep

\* The steps that end a run, and the one that hands it the token.
LEMMA EndingKeeps ==
  AsciiNames => \A r \in Run :
    IInv /\ (\/ BaseUnresolved(r) \/ NothingToSubmit(r) \/ ProjectFails(r)
            \/ TokenFails(r) \/ TokenMinted(r) \/ Finish(r) \/ Killed(r)) => IInv'
<1> SUFFICES ASSUME AsciiNames, NEW r \in Run, IInv
             PROVE  (\/ BaseUnresolved(r) \/ NothingToSubmit(r) \/ ProjectFails(r)
                     \/ TokenFails(r) \/ TokenMinted(r) \/ Finish(r) \/ Killed(r)) => IInv'
  OBVIOUS
<1>1. ASSUME stage[r] # "idle", End(r, "failed") PROVE IInv'
  BY <1>1, EndKeeps
<1>2. CASE BaseUnresolved(r) \/ ProjectFails(r) \/ TokenFails(r) \/ Killed(r)
  BY <1>1, <1>2 DEF BaseUnresolved, ProjectFails, TokenFails, Killed
<1>3. CASE NothingToSubmit(r)
  <2>1. stage[r] = "start" /\ End(r, "ok") /\ {} = Due(r)
    BY <1>3, ScopesAreDue DEF NothingToSubmit
  <2>. QED  BY <2>1, EndKeeps
<1>4. CASE TokenMinted(r)
  BY <1>4, EndKeeps DEF TokenMinted
<1>5. CASE Finish(r)
  <2>1. stage[r] = "posting" /\ todo[r] = {}
    BY <1>5 DEF Finish
  <2>2. CASE failed[r]
    BY <1>1, <1>5, <2>1, <2>2 DEF Finish
  <2>3. CASE ~failed[r]
    <3>1. \A f \in Due(r) : Owed(r, f) \in held[r]
      BY <2>1, <2>3 DEF IInv, Bookkeeping, Progressing, Working
    <3>2. End(r, "ok")
      BY <1>5, <2>3 DEF Finish
    <3>. QED  BY <2>1, <3>1, <3>2, EndKeeps
  <2>. QED  BY <2>2, <2>3
<1>. QED  BY <1>2, <1>3, <1>4, <1>5

LEMMA INext == AsciiNames /\ IInv /\ [Next]_vars => IInv'
<1> SUFFICES ASSUME AsciiNames, IInv, [Next]_vars PROVE IInv'
  OBVIOUS
<1>1. CASE \E t \in SomeTree : Merge(t)
  BY <1>1, MergeKeeps
<1>2. CASE \E r \in Run, h \in 1 .. Len(history), everything \in BOOLEAN :
             StartRun(r, h, everything)
  BY <1>2, StartRunKeeps
<1>3. ASSUME NEW r \in Run, RunStep(r) PROVE IInv'
  BY <1>3, EndingKeeps, ProjectAllKeeps, DeadlineKeeps, PostKeeps, PostFailsKeeps,
     PostAnsweredKeeps DEF RunStep, Prepares
<1>4. ASSUME NEW q \in net, ApiCreate(q) \/ ApiReject(q) \/ ApiCompare(q) PROVE IInv'
  BY <1>4, ApiCreateKeeps, ApiRejectKeeps, ApiCompareKeeps
<1>5. ASSUME NEW p \in PlanName, Promote(p) \/ Terminate(p) \/ Delete(p) PROVE IInv'
  BY <1>5, SetStateKeeps, DeleteKeeps DEF Promote, Terminate
<1>6. CASE UNCHANGED vars
  <2>1. TypeOK' /\ Agreement'
    BY <1>6 DEF vars, IInv, TypeOK, Agreement
  <2>. QED  BY <1>6, <2>1, OthersKeep DEF vars
<1>. QED  BY <1>1, <1>2, <1>3, <1>4, <1>5, <1>6 DEF Next

LEMMA Invariance ==
  ASSUME AsciiNames
  PROVE  Spec => []IInv
BY IInit, INext, PTL DEF Spec

------------------------------------------------------------------------------
(* The results.                                                               *)

\* Every variable of the release leg keeps its type; in particular every request
\* on its way names a plan and carries steps, which project checked.
THEOREM TypeCorrect ==
  ASSUME AsciiNames
  PROVE  Spec => []TypeOK
<1>1. IInv => TypeOK
  BY DEF IInv
<1>. QED  BY <1>1, Invariance, PTL

\* A green release has had every plan of its merge on the cluster as its file says,
\* with any number of overlapping, repeated and killed releases.
THEOREM GreenMeansHeldCorrect ==
  ASSUME AsciiNames
  PROVE  Spec => []GreenMeansHeld
<1>1. IInv => GreenMeansHeld
  BY DEF IInv, Bookkeeping
<1>. QED  BY <1>1, Invariance, PTL

\* Two green releases never disagree about a plan nobody deleted.
THEOREM GreenReleasesAgreeCorrect ==
  ASSUME AsciiNames
  PROVE  Spec => []GreenReleasesAgree
<1>1. IInv => GreenReleasesAgree
  <2> SUFFICES ASSUME IInv, NEW r \in Run, NEW s \in Run, stage[r] = "ok", stage[s] = "ok",
                      NEW f \in Due(r), NEW g \in Due(s),
                      HeadTree(r)[f].name = HeadTree(s)[g].name,
                      HeadTree(r)[f].name \notin deleted
               PROVE  HeadTree(r)[f].brief = HeadTree(s)[g].brief
    BY DEF GreenReleasesAgree
  <2>1. Project(HeadTree(r)[f]) \in held[r] /\ Project(HeadTree(s)[g]) \in held[s]
    BY DEF IInv, Bookkeeping, GreenMeansHeld
  <2>2. /\ live[HeadTree(r)[f].name].brief = HeadTree(r)[f].brief
        /\ live[HeadTree(s)[g].name].brief = HeadTree(s)[g].brief
    BY <2>1 DEF IInv, Agreement, Project
  <2>. QED  BY <2>2
<1>. QED  BY <1>1, Invariance, PTL

\* The last commit of a list that changed a file; the file has been as it is since.
LEMMA LastChange ==
  ASSUME NEW trees \in Seq(SomeTree), trees # <<>>, NEW f,
         trees[Len(trees)][f] # trees[1][f]
  PROVE  \E i \in 2 .. Len(trees) :
           trees[i][f] = trees[Len(trees)][f] /\ trees[i - 1][f] # trees[i][f]
<1> DEFINE n == Len(trees)
           T == {i \in 1 .. n : \A k \in i .. n : trees[k][f] = trees[n][f]}
<1>1. n \in Nat /\ n >= 1
  <2>1. n \in Nat /\ n # 0
    BY EmptySeq, LenProperties
  <2>. QED  BY <2>1
<1>2. n \in T
  <2> HIDE DEF n
  <2>1. \A k \in n .. n : k = n
    BY <1>1
  <2>. QED  BY <1>1, <2>1
<1>3. T \subseteq Nat /\ T # {}
  BY <1>1, <1>2
<1>4. IsWellFoundedOn(Smaller, Nat)
  BY NatLessThanWellFounded, SMT DEF OpToRel, Smaller
<1>5. PICK i \in T : \A j \in T : <<j, i>> \notin Smaller
  <2> HIDE DEF T
  <2>. QED  BY <1>3, <1>4, WFMin
<1> HIDE DEF n
<1>6. i \in 1 .. n /\ \A k \in i .. n : trees[k][f] = trees[n][f]
  OBVIOUS
<1>7. trees[i][f] = trees[n][f] /\ i # 1
  BY <1>1, <1>6 DEF n
<1>8. i - 1 \in Nat /\ i - 1 < i /\ i - 1 \notin T
  <2>1. i - 1 \in Nat /\ i - 1 < i /\ i \in Nat
    BY <1>1, <1>6, <1>7
  <2>2. <<i - 1, i>> \in Smaller
    BY <2>1 DEF Smaller
  <2>. QED  BY <1>5, <2>1, <2>2
<1>9. trees[i - 1][f] # trees[n][f]
  <2>1. i - 1 \in 1 .. n
    BY <1>1, <1>6, <1>7
  <2>2. PICK k \in i - 1 .. n : trees[k][f] # trees[n][f]
    BY <1>8, <2>1
  <2>3. k = i - 1 \/ k \in i .. n
    BY <1>1, <1>6, <2>1
  <2>. QED  BY <1>6, <2>2, <2>3
<1>. QED  BY <1>1, <1>6, <1>7, <1>9 DEF n

\* As long as each commit of main has had a green release, each plan file main has
\* changed is live as it is by now, unless its plan was deleted.
THEOREM CatalogIsLiveCorrect ==
  ASSUME AsciiNames
  PROVE  Spec => []CatalogIsLive
<1>1. IInv /\ history # <<>> => CatalogIsLive
  <2> SUFFICES ASSUME IInv, history # <<>>,
                      \A i \in 2 .. Len(history) :
                        \E r \in Run : stage[r] = "ok" /\ head[r] = i,
                      NEW f \in Discover(history[Len(history)]),
                      history[Len(history)][f] # history[1][f],
                      history[Len(history)][f].name \notin deleted
               PROVE  LET doc == history[Len(history)][f]
                      IN  live[doc.name] # NoPlan /\ live[doc.name].brief = doc.brief
    BY DEF CatalogIsLive
  <2>1. history \in Seq(SomeTree)
    BY DEF IInv, TypeOK
  <2>2. PICK i \in 2 .. Len(history) : /\ history[i][f] = history[Len(history)][f]
                                       /\ history[i - 1][f] # history[i][f]
    BY <2>1, LastChange, ZenonT(30)
  <2>3. PICK r \in Run : stage[r] = "ok" /\ head[r] = i
    OBVIOUS
  <2>4. HeadTree(r) = history[i] /\ BaseTree(r) = history[i - 1] /\ HasParent(r)
    <3>1. i > 1
      BY <2>1, LenProperties
    <3>. QED  BY <2>3, <3>1 DEF HeadTree, BaseTree, HasParent
  <2>5. f \in File /\ Submittable(f) /\ history[Len(history)][f] # Absent
    BY DEF Discover, Present
  <2>6. f \in Due(r)
    BY <2>2, <2>4, <2>5 DEF Due, Discover, Present, Touched
  <2>7. Project(history[i][f]) \in held[r]
    BY <2>3, <2>4, <2>6 DEF IInv, Bookkeeping, GreenMeansHeld
  <2>. QED  BY <2>2, <2>7 DEF IInv, Agreement, Project
<1>2. Spec => [](history # <<>>)
  <2>1. ASSUME Init PROVE history # <<>>
    <3>1. PICK t \in SomeTree : history = <<t>>
      BY <2>1 DEF Init
    <3>2. Len(history) = 1 /\ Len(<<>>) = 0
      BY <3>1
    <3>. QED  BY <3>2
  <2>2. IInv /\ history # <<>> /\ [Next]_vars => (history # <<>>)'
    <3> SUFFICES ASSUME IInv, history # <<>>, [Next]_vars, history' # history
                 PROVE  history' # <<>>
      OBVIOUS
    <3>1. PICK tree \in SomeTree : Merge(tree)
      BY DEF Next, RunStep, Prepares, BaseUnresolved, NothingToSubmit, ProjectFails, ProjectAll,
         TokenFails, TokenMinted, Deadline, Post, PostFails, PostAnswered, NextFile, Finish,
         Killed, End, StartRun, ApiCreate, ApiReject, ApiCompare, Promote, Terminate, SetState,
         Delete, vars
    <3>2. Len(history') = Len(history) + 1 /\ Len(history) \in Nat
      BY <3>1, AppendProperties, LenProperties DEF Merge, IInv, TypeOK
    <3>. QED  BY <3>2, EmptySeq
  <2>. QED  BY <2>1, <2>2, Invariance, PTL DEF Spec
<1>. QED  BY <1>1, <1>2, Invariance, PTL

\* A run with one bad file in its scope sends nothing at all.
THEOREM BadFileSubmitsNothingCorrect ==
  ASSUME AsciiNames
  PROVE  Spec => []BadFileSubmitsNothing
<1>1. IInv => BadFileSubmitsNothing
  <2> SUFFICES ASSUME IInv, NEW r \in Run, ~Clean(r)
               PROVE  held[r] = {} /\ \A q \in net : q.run # r
    BY DEF BadFileSubmitsNothing, Clean
  <2>. QED  BY DEF IInv, Bookkeeping, HeldMeans, Requests
<1>. QED  BY <1>1, Invariance, PTL

\* Only the request of a release whose merge touched a plan's file, or of one given
\* -all, brings that plan onto the cluster, and with what that file says.
THEOREM OnlyTouchedPlansAppearCorrect ==
  ASSUME AsciiNames
  PROVE  Spec => OnlyTouchedPlansAppear
<1> DEFINE A == \A p \in PlanName : live[p] = NoPlan /\ live'[p] # NoPlan =>
                  \E q \in net \ net' :
                    /\ q.req.name = p /\ q.req.brief = live'[p].brief
                    /\ \E f \in Due(q.run) : Project(HeadTree(q.run)[f]) = q.req
<1>1. IInv /\ [Next]_vars => A
  <2> SUFFICES ASSUME IInv, [Next]_vars, NEW p \in PlanName, live[p] = NoPlan, live'[p] # NoPlan
               PROVE  \E q \in net \ net' :
                        /\ q.req.name = p /\ q.req.brief = live'[p].brief
                        /\ \E f \in Due(q.run) : Project(HeadTree(q.run)[f]) = q.req
    OBVIOUS
  <2>0. live \in [PlanName -> CR \cup {NoPlan}]
    BY DEF IInv, TypeOK
  <2>1. live' # live
    OBVIOUS
  <2>2. \E q \in net : ApiCreate(q)
    <3>1. ASSUME NEW s \in PlanName, Promote(s) \/ Terminate(s) \/ Delete(s) PROVE FALSE
      BY <2>0, <3>1 DEF Promote, Terminate, SetState, Delete
    <3>2. ASSUME NEW r \in Run, RunStep(r) PROVE FALSE
      BY <2>1, <3>2 DEF RunStep, Prepares, BaseUnresolved, NothingToSubmit, ProjectFails,
         ProjectAll, TokenFails, TokenMinted, Deadline, Post, PostFails, PostAnswered, NextFile,
         Finish, Killed, End
    <3>. QED  BY <2>1, <3>1, <3>2
              DEF Next, Merge, StartRun, ApiReject, ApiCompare, observers, vars
  <2>3. PICK q \in net : ApiCreate(q)
    BY <2>2
  <2>4. /\ live[q.req.name] = NoPlan /\ net' = net \ {q}
        /\ live' = [live EXCEPT ![q.req.name] = [brief |-> q.req.brief, state |-> "paused"]]
    BY <2>1, <2>3 DEF ApiCreate
  <2>5. q.req.name = p /\ q.req.brief = live'[p].brief
    BY <2>0, <2>4
  <2>6. q.file \in Due(q.run) /\ q.req = Project(HeadTree(q.run)[q.file])
    BY DEF IInv, Bookkeeping, Requests, Owed
  <2>. QED  BY <2>4, <2>5, <2>6
<1>2. Spec => [][A]_vars
  BY <1>1, Invariance, PTL DEF Spec
<1>. QED  BY <1>2 DEF OnlyTouchedPlansAppear

------------------------------------------------------------------------------
(* The ledger.                                                                *)

Plans == [p \in PlanName |-> IF live[p] = NoPlan THEN NoPlan ELSE live[p].brief]

LEMMA OwesTyped == IInv => \A r \in Run : Owes(r) \subseteq Request \cup {NoSteps}
<1>. SUFFICES ASSUME IInv, NEW r \in Run, stage[r] # "idle", NEW f \in Due(r)
              PROVE  Amounts(HeadTree(r)[f]) \in Request \cup {NoSteps}
  BY DEF Owes
<1>1. HeadTree(r)[f] \in Doc
  BY DueFacts DEF IInv, Bookkeeping
<1>. QED  BY <1>1 DEF Amounts, Projectable, Project, Request, Doc

LEMMA OwesTypedNext == IInv' => (\A r \in Run : Owes(r) \subseteq Request \cup {NoSteps})'
BY OwesTyped, PTL

\* A run without bad files owes a request for each file.
LEMMA OwesRequests ==
  ASSUME IInv, NEW r \in Run, stage[r] # "idle", Clean(r)
  PROVE  /\ Owes(r) = {Owed(r, f) : f \in Due(r)}
         /\ Owes(r) \subseteq Request
<1>1. \A f \in Due(r) : Amounts(HeadTree(r)[f]) = Owed(r, f)
  BY DEF Amounts, Clean, Owed
<1>2. Owes(r) = {Owed(r, f) : f \in Due(r)}
  BY <1>1 DEF Owes
<1>. QED  BY <1>2, OwedIsRequest DEF IInv, Bookkeeping

\* What a run owes is settled when it starts.
LEMMA OwesKept ==
  ASSUME NEW r, stage'[r] = "idle" <=> stage[r] = "idle",
         \/ stage[r] = "idle"
         \/ /\ Due(r)' = Due(r)
            /\ \A f : HeadTree(r)'[f] = HeadTree(r)[f]
  PROVE  Owes(r)' = Owes(r)
BY DEF Owes, Amounts

LEMMA Unmoved ==
  ASSUME UNCHANGED <<history, head, all>>,
         \A r \in Run : stage'[r] = "idle" <=> stage[r] = "idle"
  PROVE  \A r \in Run : Owes(r)' = Owes(r)
<1>. SUFFICES ASSUME NEW r \in Run PROVE Owes(r)' = Owes(r)
  OBVIOUS
<1>1. Due(r)' = Due(r)
  BY SameScope
<1>2. HeadTree(r)' = HeadTree(r)
  BY DEF HeadTree
<1>. QED  BY <1>1, <1>2, OwesKept

LEMMA InitOpens == Init => Ledger!Init
<1>. SUFFICES ASSUME Init PROVE Ledger!Init
  OBVIOUS
<1>1. \A r \in Run : Owes(r) = {} /\ Outcome(r) = "none"
  BY DEF Init, Owes, Outcome
<1>. QED  BY <1>1 DEF Init, Ledger!Init

\* A step that ends no run, starts none and touches no Plan is nothing to the ledger.
LEMMA Stutters ==
  ASSUME \A r \in Run : Owes(r)' = Owes(r) /\ Outcome(r)' = Outcome(r),
         UNCHANGED held,
         \A p \in PlanName : Plans'[p] = Plans[p]
  PROVE  UNCHANGED Ledger!vars
<1>1. Plans' = Plans
  BY DEF Plans
<1>. QED  BY <1>1 DEF Ledger!vars, Plans

LEMMA StartRefines ==
  ASSUME IInv, IInv', NEW r \in Run, NEW h, NEW everything, StartRun(r, h, everything)
  PROVE  Ledger!Start(r)
<1>1. /\ stage[r] = "idle" /\ stage' = [stage EXCEPT ![r] = "start"]
      /\ \A s \in Run \ {r} : head'[s] = head[s] /\ all'[s] = all[s] /\ stage'[s] = stage[s]
      /\ UNCHANGED <<history, live, held>> /\ stage'[r] = "start"
  BY DEF StartRun, observers, IInv, TypeOK
<1>2. \A s \in Run \ {r} : Owes(s)' = Owes(s) /\ Outcome(s)' = Outcome(s)
  BY <1>1 DEF Owes, Outcome, Due, HeadTree, BaseTree, HasParent
<1>3. Outcome(r) = "none" /\ Outcome(r)' = "open"
  BY <1>1 DEF Outcome
<1>4. Owes(r)' \subseteq Request \cup {NoSteps}
  BY OwesTypedNext
<1>. QED  BY <1>1, <1>2, <1>3, <1>4 DEF Ledger!Start, Ledger!Request, Request

LEMMA EndRefines ==
  ASSUME IInv, NEW r \in Run, NEW o \in {"ok", "failed", "printed"}, End(r, o),
         stage[r] # "idle", ~Ended(r),
         o = "ok" => Owes(r) \subseteq held[r]
  PROVE  Ledger!End(r)
<1>1. /\ stage' = [stage EXCEPT ![r] = o] /\ stage \in [Run -> Stage]
      /\ UNCHANGED <<history, head, all, live, held>>
  BY DEF End, observers, IInv, TypeOK
<1>2. stage'[r] = o /\ \A s \in Run \ {r} : stage'[s] = stage[s]
  BY <1>1
<1>3. \A s \in Run : Owes(s)' = Owes(s)
  BY <1>1, <1>2, Unmoved
<1>4. Outcome(r) = "open" /\ Outcome(r)' = IF o = "ok" THEN "green" ELSE "red"
  BY <1>2 DEF Outcome, Ended
<1>5. \A s \in Run \ {r} : Outcome(s)' = Outcome(s)
  BY <1>2 DEF Outcome
<1>6. [s \in Run |-> Owes(s)'] = [s \in Run |-> Owes(s)]
  BY <1>3
<1>7. [s \in Run |-> Outcome(s)'] =
        [[s \in Run |-> Outcome(s)] EXCEPT ![r] = IF o = "ok" THEN "green" ELSE "red"]
  BY <1>4, <1>5
<1>. QED  BY <1>1, <1>4, <1>6, <1>7 DEF Ledger!End

LEMMA MergeRefines ==
  ASSUME IInv, NEW tree \in SomeTree, Merge(tree)
  PROVE  UNCHANGED Ledger!vars
<1>1. /\ history' = Append(history, tree)
      /\ UNCHANGED <<stage, head, all, live, held>>
  BY DEF Merge, runVars, observers
<1>2. ASSUME NEW s \in Run, stage[s] # "idle"
      PROVE  Due(s)' = Due(s) /\ HeadTree(s)' = HeadTree(s)
  BY <1>2, MergeScope
<1>3. \A s \in Run : Owes(s)' = Owes(s) /\ Outcome(s)' = Outcome(s)
  BY <1>1, <1>2, OwesKept DEF Outcome
<1>. QED  BY <1>1, <1>3, Stutters DEF Plans

LEMMA ApiCreateRefines ==
  ASSUME IInv, NEW q \in net, ApiCreate(q)
  PROVE  (\E r \in Run : \E req \in Request : Ledger!See(r, req)) \/ UNCHANGED Ledger!vars
<1>1. /\ q.run \in Run /\ q.req \in Request /\ q.req.name \in PlanName
      /\ live \in [PlanName -> CR \cup {NoPlan}]
  BY DEF IInv, TypeOK, Packet, Request
<1>2. UNCHANGED <<history, head, all, stage>>
  BY DEF ApiCreate
<1>3. \A s \in Run : Owes(s)' = Owes(s) /\ Outcome(s)' = Outcome(s)
  BY <1>2, Unmoved DEF Outcome
<1>4. CASE live[q.req.name] = NoPlan
  <2> DEFINE plan == [brief |-> q.req.brief, state |-> "paused"]
  <2>1. /\ live' = [live EXCEPT ![q.req.name] = plan]
        /\ held' = [held EXCEPT ![q.run] = @ \cup {q.req}]
    BY <1>4 DEF ApiCreate
  <2>2. plan # NoPlan /\ plan.brief = q.req.brief
    BY <1>1, MarkerAssumption3 DEF CR, Request
  <2> HIDE DEF plan
  <2>3. /\ Plans[q.req.name] = NoPlan
        /\ Plans' = [Plans EXCEPT ![q.req.name] = q.req.brief]
    BY <1>1, <1>4, <2>1, <2>2 DEF Plans
  <2>4. q.req \in Owes(q.run) /\ Owes(q.run) \subseteq Request
    BY <1>1, OwesRequests DEF IInv, Bookkeeping, Requests
  <2>5. Ledger!See(q.run, q.req)
    BY <1>1, <1>3, <2>1, <2>3, <2>4 DEF Ledger!See, Ledger!Request, Request, Plans
  <2>. QED  BY <1>1, <2>5
<1>5. CASE live[q.req.name] # NoPlan
  <2>1. UNCHANGED <<live, held>>
    BY <1>5 DEF ApiCreate
  <2>. QED  BY <1>3, <2>1, Stutters DEF Plans
<1>. QED  BY <1>4, <1>5

LEMMA ApiCompareRefines ==
  ASSUME IInv, NEW q \in net, ApiCompare(q)
  PROVE  (\E r \in Run : \E req \in Request : Ledger!See(r, req)) \/ UNCHANGED Ledger!vars
<1>1. q.run \in Run /\ q.req \in Request /\ q.req.name \in PlanName
  BY DEF IInv, TypeOK, Packet, Request
<1>2. UNCHANGED <<history, head, all, stage, live>>
  BY DEF ApiCompare
<1>3. \A s \in Run : Owes(s)' = Owes(s) /\ Outcome(s)' = Outcome(s)
  BY <1>2, Unmoved DEF Outcome
<1>4. PICK a \in {ResubmitVerdict(q.req), "unknown", "unreadable"} :
        held' = IF a = "identical" THEN [held EXCEPT ![q.run] = @ \cup {q.req}] ELSE held
  BY DEF ApiCompare
<1>5. CASE a = "identical"
  <2>1. live[q.req.name] # NoPlan /\ live[q.req.name].brief = q.req.brief
    BY <1>4, <1>5 DEF ResubmitVerdict
  <2>2. Plans[q.req.name] = q.req.brief /\ Plans' = Plans
    BY <1>1, <1>2, <2>1 DEF Plans
  <2>3. q.req \in Owes(q.run) /\ Owes(q.run) \subseteq Request
    BY <1>1, OwesRequests DEF IInv, Bookkeeping, Requests
  <2>4. Ledger!See(q.run, q.req)
    BY <1>1, <1>3, <1>4, <1>5, <2>2, <2>3 DEF Ledger!See, Ledger!Request, Request, Plans
  <2>. QED  BY <1>1, <2>4
<1>6. CASE a # "identical"
  <2>1. UNCHANGED <<live, held>>
    BY <1>2, <1>4, <1>6
  <2>. QED  BY <1>3, <2>1, Stutters DEF Plans
<1>. QED  BY <1>5, <1>6

\* What operators and the controller do to a Plan leaves its brief alone.
LEMMA OperatorRefines ==
  ASSUME IInv, NEW p \in PlanName, Promote(p) \/ Terminate(p) \/ Delete(p)
  PROVE  Ledger!Delete(p) \/ UNCHANGED Ledger!vars
<1>1. /\ UNCHANGED <<history, head, all, stage, held>>
      /\ live \in [PlanName -> CR \cup {NoPlan}]
  BY DEF Promote, Terminate, SetState, Delete, runVars, observers, IInv, TypeOK
<1>2. \A s \in Run : Owes(s)' = Owes(s) /\ Outcome(s)' = Outcome(s)
  BY <1>1, Unmoved DEF Outcome
<1>3. CASE Delete(p)
  <2>1. live' = [live EXCEPT ![p] = NoPlan]
    BY <1>3 DEF Delete
  <2>2. Plans' = [Plans EXCEPT ![p] = NoPlan]
    BY <1>1, <2>1 DEF Plans
  <2>. QED  BY <1>1, <1>2, <2>2 DEF Ledger!Delete, Plans
<1>4. ASSUME NEW from, NEW to \in {"running", "terminal"}, SetState(p, from, to)
      PROVE  UNCHANGED Ledger!vars
  <2> DEFINE plan == [live[p] EXCEPT !.state = to]
  <2>1. live[p] # NoPlan /\ live' = [live EXCEPT ![p] = plan]
    BY <1>4 DEF SetState
  <2>2. plan \in CR /\ plan.brief = live[p].brief
    BY <1>1, <1>4, <2>1 DEF CR
  <2>3. plan # NoPlan
    BY <2>2, MarkerAssumption3
  <2> HIDE DEF plan
  <2>4. \A s \in PlanName : Plans'[s] = Plans[s]
    BY <1>1, <2>1, <2>2, <2>3 DEF Plans
  <2>. QED  BY <1>1, <1>2, <2>4, Stutters
<1>. QED  BY <1>3, <1>4 DEF Promote, Terminate

\* A run's own step leads nowhere but to its end.
LEMMA RunRefines ==
  ASSUME AsciiNames, IInv, NEW r \in Run, RunStep(r)
  PROVE  Ledger!End(r) \/ UNCHANGED Ledger!vars
<1>1. ASSUME NEW o \in {"failed", "printed"}, End(r, o), stage[r] # "idle", ~Ended(r)
      PROVE  Ledger!End(r)
  BY <1>1, EndRefines
<1>2. ASSUME UNCHANGED <<history, head, all, live, held>>,
             stage \in [Run -> Stage], NEW o \in {"token", "posting", "await"},
             stage[r] \in {"start", "token", "posting", "await"},
             stage' = stage \/ stage' = [stage EXCEPT ![r] = o]
      PROVE  UNCHANGED Ledger!vars
  <2>1. \A s \in Run : \/ stage'[s] = stage[s]
                       \/ s = r /\ stage'[s] = o
    BY <1>2
  <2>2. \A s \in Run : Owes(s)' = Owes(s)
    BY <1>2, <2>1, Unmoved
  <2>3. \A s \in Run : Outcome(s)' = Outcome(s)
    BY <1>2, <2>1 DEF Outcome
  <2>. QED  BY <1>2, <2>2, <2>3, Stutters DEF Plans
<1>3. stage \in [Run -> Stage]
  BY DEF IInv, TypeOK
<1>4. CASE BaseUnresolved(r) \/ ProjectFails(r) \/ TokenFails(r) \/ Killed(r)
  BY <1>1, <1>4 DEF BaseUnresolved, ProjectFails, TokenFails, Killed, Ended
<1>5. CASE NothingToSubmit(r)
  <2>1. stage[r] = "start" /\ End(r, "ok") /\ {} = Due(r)
    BY <1>5, ScopesAreDue DEF NothingToSubmit
  <2>2. Owes(r) = {}
    BY <2>1 DEF Owes
  <2>. QED  BY <2>1, <2>2, EndRefines DEF Ended
<1>6. CASE ProjectAll(r)
  <2>1. /\ stage[r] = "start"
        /\ UNCHANGED <<history, head, all, failed, expired, reply, net, live, held, deleted>>
    BY <1>6 DEF ProjectAll, observers
  <2>2. CASE stage' = [stage EXCEPT ![r] = "printed"] /\ UNCHANGED todo
    <3>1. End(r, "printed")
      BY <2>1, <2>2 DEF End, observers
    <3>. QED  BY <1>1, <2>1, <3>1 DEF Ended
  <2>3. CASE stage' = [stage EXCEPT ![r] = "token"]
    BY <1>2, <1>3, <2>1, <2>3
  <2>. QED  BY <1>6, <2>2, <2>3 DEF ProjectAll
<1>7. CASE TokenMinted(r) \/ Deadline(r) \/ Post(r) \/ PostFails(r) \/ PostAnswered(r)
  BY <1>2, <1>3, <1>7 DEF TokenMinted, End, Deadline, Post, PostFails, PostAnswered, NextFile,
                          observers
<1>8. CASE Finish(r)
  <2>1. stage[r] = "posting" /\ todo[r] = {} /\ Clean(r)
    BY <1>8 DEF Finish, IInv, Bookkeeping, InScope, Working
  <2>2. CASE failed[r]
    BY <1>1, <1>8, <2>1, <2>2 DEF Finish, Ended
  <2>3. CASE ~failed[r]
    <3>1. \A f \in Due(r) : Owed(r, f) \in held[r]
      BY <2>1, <2>3 DEF IInv, Bookkeeping, Progressing, Working
    <3>2. Owes(r) \subseteq held[r]
      BY <2>1, <3>1, OwesRequests
    <3>3. End(r, "ok")
      BY <1>8, <2>3 DEF Finish
    <3>. QED  BY <2>1, <3>2, <3>3, EndRefines DEF Ended
  <2>. QED  BY <2>2, <2>3
<1>. QED  BY <1>4, <1>5, <1>6, <1>7, <1>8 DEF RunStep, Prepares

LEMMA LedgerStep ==
  ASSUME AsciiNames, IInv, IInv', [Next]_vars
  PROVE  [Ledger!Next]_(Ledger!vars)
<1>1. ASSUME NEW t \in SomeTree, Merge(t) PROVE UNCHANGED Ledger!vars
  BY <1>1, MergeRefines
<1>2. ASSUME NEW r \in Run, NEW h \in 1 .. Len(history), NEW everything \in BOOLEAN,
             StartRun(r, h, everything)
      PROVE  Ledger!Next
  BY <1>2, StartRefines DEF Ledger!Next
<1>3. ASSUME NEW r \in Run, RunStep(r) PROVE Ledger!Next \/ UNCHANGED Ledger!vars
  BY <1>3, RunRefines DEF Ledger!Next
<1>4. ASSUME NEW q \in net, ApiCreate(q) \/ ApiCompare(q)
      PROVE  Ledger!Next \/ UNCHANGED Ledger!vars
  <2>1. CASE \E r \in Run : \E req \in Request : Ledger!See(r, req)
    BY <2>1 DEF Ledger!Next, Ledger!Request, Request
  <2>. QED  BY <1>4, <2>1, ApiCreateRefines, ApiCompareRefines
<1>5. ASSUME NEW p \in PlanName, Promote(p) \/ Terminate(p) \/ Delete(p)
      PROVE  Ledger!Next \/ UNCHANGED Ledger!vars
  BY <1>5, OperatorRefines DEF Ledger!Next
<1>6. ASSUME UNCHANGED <<history, head, all, stage, held, live>> PROVE UNCHANGED Ledger!vars
  <2>1. \A s \in Run : Owes(s)' = Owes(s) /\ Outcome(s)' = Outcome(s)
    BY <1>6, Unmoved DEF Outcome
  <2>. QED  BY <1>6, <2>1, Stutters DEF Plans
<1>7. ASSUME NEW q \in net, ApiReject(q) PROVE UNCHANGED Ledger!vars
  BY <1>6, <1>7 DEF ApiReject, observers
<1>8. CASE UNCHANGED vars
  BY <1>6, <1>8 DEF vars
<1>. QED  BY <1>1, <1>2, <1>3, <1>4, <1>5, <1>7, <1>8 DEF Next

\* The release leg as a whole is a ledger: Plans come from the merges that owe them,
\* stay as they came until deleted, and green is the word of a release that has seen
\* all it owes stand on the cluster.
THEOREM ImplementsLedgerCorrect ==
  ASSUME AsciiNames
  PROVE  Spec => ImplementsLedger
<1>1. IInv /\ IInv' /\ [Next]_vars => [Ledger!Next]_(Ledger!vars)
  BY LedgerStep
<1>. QED  BY <1>1, InitOpens, Invariance, PTL DEF Spec, ImplementsLedger, Ledger!Spec

==============================================================================
