------------------------ MODULE StripComments_proofs ------------------------
(***************************************************************************)
(* strip_yaml_comments takes nothing of what a text says, of any length    *)
(* and any depth, but repeated blank lines of a scalar.  The pass is       *)
(* compared with YAML's reading of the same lines: what it knows of block  *)
(* scalars is too much at worst, so a line of a scalar is never dropped;   *)
(* and what is dropped, comments outside of one and blank lines, leaves    *)
(* every other line in the scalar it was in.                               *)
(***************************************************************************)
EXTENDS StripComments, FiniteSetTheorems, SequenceTheorems, WellFoundedInduction, TLAPS

------------------------------------------------------------------------------
(* Induction, by way of a least counterexample.                               *)

Smaller == {ss \in Nat \X Nat : ss[1] < ss[2]}

LEMMA LeastNatural ==
  ASSUME NEW T, T \subseteq Nat, T # {}
  PROVE  \E x \in T : \A y \in T : x <= y
<1>1. IsWellFoundedOn(Smaller, Nat)
  BY NatLessThanWellFounded, SMT DEF OpToRel, Smaller
<1>2. PICK x \in T : \A y \in T : <<y, x>> \notin Smaller
  BY <1>1, WFMin
<1>3. ASSUME NEW y \in T PROVE x <= y
  <2>1. x \in Nat /\ y \in Nat /\ <<y, x>> \notin Smaller
    BY <1>2
  <2>2. y < x => <<y, x>> \in Smaller
    BY <2>1 DEF Smaller
  <2>. QED  BY <2>1, <2>2
<1>. QED  BY <1>3

LEMMA Induction ==
  ASSUME NEW m \in Nat, NEW n \in Nat, NEW T,
         \A i \in m..n : (\A j \in m..i-1 : j \in T) => i \in T
  PROVE  m..n \subseteq T
<1> SUFFICES ASSUME (m..n) \ T # {} PROVE FALSE
  OBVIOUS
<1>1. PICK i \in (m..n) \ T : \A j \in (m..n) \ T : i <= j
  <2>1. (m..n) \ T \subseteq Nat
    OBVIOUS
  <2>. QED  BY <2>1, LeastNatural
<1>2. ASSUME NEW j \in m..i-1 PROVE j \in T
  BY <1>1
<1>. QED  BY <1>1, <1>2

------------------------------------------------------------------------------
(* The places of a set, in order.                                             *)

Upto(P, i) == {j \in P : j <= i}

Place(P) == [n \in 1..Cardinality(P) |-> CHOOSE i \in P : Cardinality(Upto(P, i)) = n]

LEMMA AtPlaces ==
  ASSUME NEW s, NEW P
  PROVE  At(s, P) = [n \in 1..Cardinality(P) |-> s[Place(P)[n]]]
BY DEF At, Place, Upto

\* Counting from below numbers the places.
LEMMA PlaceFacts ==
  ASSUME NEW P, P \subseteq Nat, IsFiniteSet(P)
  PROVE  /\ Cardinality(P) \in Nat
         /\ Place(P) \in [1..Cardinality(P) -> P]
         /\ \A n \in 1..Cardinality(P) : Cardinality(Upto(P, Place(P)[n])) = n
         /\ \A i \in P : \E n \in 1..Cardinality(P) : Place(P)[n] = i
         /\ \A m, n \in 1..Cardinality(P) : m < n => Place(P)[m] < Place(P)[n]
<1> DEFINE N == Cardinality(P)
           rank == [i \in P |-> Cardinality(Upto(P, i))]
<1>1. N \in Nat
  BY FS_CardinalityType
<1>2. ASSUME NEW i \in P
      PROVE  /\ IsFiniteSet(Upto(P, i)) /\ Cardinality(Upto(P, i)) \in 1..N
  <2>1. Upto(P, i) \in SUBSET P /\ i \in Upto(P, i)
    BY DEF Upto
  <2>2. IsFiniteSet(Upto(P, i)) /\ Cardinality(Upto(P, i)) <= N
    BY <2>1, FS_Subset
  <2>3. Cardinality(Upto(P, i)) \in Nat /\ Cardinality(Upto(P, i)) # 0
    BY <2>1, <2>2, FS_CardinalityType, FS_EmptySet
  <2>. QED  BY <1>1, <2>2, <2>3
<1>3. ASSUME NEW i \in P, NEW j \in P, i < j
      PROVE  Cardinality(Upto(P, i)) < Cardinality(Upto(P, j))
  <2>1. Upto(P, i) \in SUBSET Upto(P, j) /\ j \in Upto(P, j) /\ j \notin Upto(P, i)
    <3>1. i \in Nat /\ j \in Nat /\ \A k \in P : k \in Nat
      OBVIOUS
    <3>2. \A k \in P : k <= i => k <= j
      BY <1>3, <3>1
    <3>3. j <= j /\ ~(j <= i)
      BY <1>3, <3>1
    <3>. QED  BY <3>2, <3>3 DEF Upto
  <2>2. /\ Cardinality(Upto(P, i)) <= Cardinality(Upto(P, j))
        /\ Cardinality(Upto(P, i)) = Cardinality(Upto(P, j)) => Upto(P, i) = Upto(P, j)
    BY <1>2, <2>1, FS_Subset
  <2>. QED  BY <1>2, <2>1, <2>2
<1>4. rank \in Injection(P, 1..N)
  <2>1. rank \in [P -> 1..N]
    BY <1>2
  <2>2. ASSUME NEW i \in P, NEW j \in P, rank[i] = rank[j] PROVE i = j
    <3>1. i < j \/ j < i \/ i = j
      OBVIOUS
    <3>. QED  BY <1>2, <1>3, <2>2, <3>1
  <2>. QED  BY <2>1, <2>2 DEF Injection, IsInjective
<1>5. rank \in Surjection(P, 1..N)
  <2>1. IsFiniteSet(1..N) /\ Cardinality(1..N) = N
    BY <1>1, FS_Interval
  <2>. QED  BY <1>4, <2>1, FS_Injection
<1>6. ASSUME NEW n \in 1..N
      PROVE  Place(P)[n] \in P /\ Cardinality(Upto(P, Place(P)[n])) = n
  <2>1. PICK i \in P : rank[i] = n
    BY <1>5 DEF Surjection
  <2>. QED  BY <2>1 DEF Place
<1>7. ASSUME NEW i \in P PROVE \E n \in 1..N : Place(P)[n] = i
  <2> DEFINE n == Cardinality(Upto(P, i))
  <2>1. n \in 1..N
    BY <1>2
  <2>2. rank[Place(P)[n]] = rank[i] /\ Place(P)[n] \in P
    BY <1>6, <2>1
  <2>. QED  BY <1>4, <2>1, <2>2 DEF Injection, IsInjective
<1>8. ASSUME NEW m \in 1..N, NEW n \in 1..N, m < n PROVE Place(P)[m] < Place(P)[n]
  <2>1. Place(P)[m] \in Nat /\ Place(P)[n] \in Nat
    BY <1>6
  <2>2. CASE Place(P)[n] < Place(P)[m]
    <3>1. n < m
      BY <1>3, <1>6, <2>2
    <3>. QED  BY <1>8, <3>1
  <2>3. CASE Place(P)[n] = Place(P)[m]
    BY <1>6, <1>8, <2>3
  <2>. QED  BY <2>1, <2>2, <2>3
<1>9. Place(P) \in [1..N -> P]
  BY <1>6 DEF Place
<1>. QED  BY <1>1, <1>6, <1>7, <1>8, <1>9

\* g numbers the elements of P, in order.
Numbers(g, N, P) ==
  /\ P \subseteq Nat /\ N \in Nat /\ g \in [1..N -> P]
  /\ \A m, n \in 1..N : m < n => g[m] < g[n]
  /\ \A i \in P : \E n \in 1..N : g[n] = i

LEMMA PlaceUnique ==
  ASSUME NEW P, NEW N, NEW g, Numbers(g, N, P)
  PROVE  IsFiniteSet(P) /\ Cardinality(P) = N /\ Place(P) = g
<1>. /\ P \subseteq Nat /\ N \in Nat /\ g \in [1..N -> P]
     /\ \A m, n \in 1..N : m < n => g[m] < g[n]
     /\ \A i \in P : \E n \in 1..N : g[n] = i
  BY DEF Numbers
<1>0. \A n \in 1..N : n \in Nat /\ g[n] \in P /\ g[n] \in Nat
  <2>1. \A n \in 1..N : n \in Nat
    OBVIOUS
  <2>2. \A n \in 1..N : g[n] \in P
    OBVIOUS
  <2>. QED  BY <2>1, <2>2
<1>1. ASSUME NEW n \in 1..N
      PROVE  IsFiniteSet(Upto(P, g[n])) /\ Cardinality(Upto(P, g[n])) = n
  <2> DEFINE h == [k \in 1..n |-> g[k]]
  <2>1. ASSUME NEW k \in 1..n PROVE g[k] \in Upto(P, g[n])
    <3>1. k \in 1..N /\ (k < n \/ k = n)
      OBVIOUS
    <3>2. g[k] <= g[n]
      BY <1>0, <3>1
    <3>. QED  BY <3>1, <3>2 DEF Upto
  <2>2. ASSUME NEW i \in Upto(P, g[n]) PROVE \E k \in 1..n : g[k] = i
    <3>1. PICK k \in 1..N : g[k] = i
      BY DEF Upto
    <3>2. ~(n < k)
      BY <1>0, <3>1 DEF Upto
    <3>. QED  BY <3>1, <3>2
  <2>3. ASSUME NEW k \in 1..n, NEW l \in 1..n, g[k] = g[l] PROVE k = l
    <3>1. k \in 1..N /\ l \in 1..N /\ (k < l \/ l < k \/ k = l)
      OBVIOUS
    <3>2. g[k] \in Nat /\ g[l] \in Nat
      BY <3>1
    <3>. QED  BY <2>3, <3>1, <3>2
  <2>4. h \in Bijection(1..n, Upto(P, g[n]))
    BY <2>1, <2>2, <2>3 DEF Bijection, Injection, IsInjective, Surjection
  <2>5. ExistsBijection(1..n, Upto(P, g[n]))
    BY <2>4 DEF ExistsBijection
  <2>. QED  BY <2>5, FS_CountingElements, FS_NatBijection
<1>2. IsFiniteSet(P) /\ Cardinality(P) = N
  <2>1. ASSUME NEW k \in 1..N, NEW l \in 1..N, g[k] = g[l] PROVE k = l
    <3>1. k < l \/ l < k \/ k = l
      OBVIOUS
    <3>2. g[k] \in Nat /\ g[l] \in Nat
      OBVIOUS
    <3>. QED  BY <2>1, <3>1, <3>2
  <2>2. g \in Bijection(1..N, P)
    BY <2>1 DEF Bijection, Injection, IsInjective, Surjection
  <2>. QED  BY <2>2, FS_CountingElements, FS_NatBijection DEF ExistsBijection
<1>3. ASSUME NEW n \in 1..N PROVE Place(P)[n] = g[n]
  <2>1. Place(P)[n] \in P /\ Cardinality(Upto(P, Place(P)[n])) = n
    BY <1>2, PlaceFacts
  <2>2. PICK k \in 1..N : g[k] = Place(P)[n]
    BY <2>1
  <2>. QED  BY <1>1, <2>1, <2>2
<1>4. Place(P) \in [1..N -> P]
  BY <1>2, PlaceFacts
<1>. QED  BY <1>2, <1>3, <1>4

\* The elements of a list at some of its places are a list.
LEMMA AtFacts ==
  ASSUME NEW s \in Seq(Line), NEW P, P \subseteq DOMAIN s
  PROVE  /\ P \subseteq Nat /\ IsFiniteSet(P)
         /\ At(s, P) \in Seq(Line)
         /\ Len(At(s, P)) = Cardinality(P) /\ DOMAIN At(s, P) = 1..Cardinality(P)
         /\ \A n \in 1..Cardinality(P) : At(s, P)[n] = s[Place(P)[n]] /\ Place(P)[n] \in DOMAIN s
<1>1. Len(s) \in Nat /\ DOMAIN s = 1..Len(s) /\ \A i \in DOMAIN s : s[i] \in Line
  BY LenProperties, ElementOfSeq
<1>2. P \subseteq Nat
  BY <1>1
<1>3. IsFiniteSet(P)
  <2>1. IsFiniteSet(1..Len(s))
    BY <1>1, FS_Interval
  <2>. QED  BY <1>1, <2>1, FS_Subset
<1>4. Cardinality(P) \in Nat /\ \A n \in 1..Cardinality(P) : Place(P)[n] \in P
  BY <1>2, <1>3, PlaceFacts
<1>5. At(s, P) = [n \in 1..Cardinality(P) |-> s[Place(P)[n]]]
  BY AtPlaces
<1>6. At(s, P) \in [1..Cardinality(P) -> Line]
  BY <1>1, <1>4, <1>5
<1>7. At(s, P) \in Seq(Line) /\ Len(At(s, P)) = Cardinality(P)
  BY <1>4, <1>6, IsASeq, LenProperties
<1>. QED  BY <1>2, <1>3, <1>4, <1>5, <1>7

LEMMA AtAppend ==
  ASSUME NEW doc \in Seq(Line), NEW kept, NEW here \in DOMAIN doc, kept \subseteq 1..here - 1
  PROVE  At(doc, kept \cup {here}) = Append(At(doc, kept), doc[here])
<1>0. PICK size, all : size = Cardinality(kept) /\ all = kept \cup {here}
  OBVIOUS
<1> DEFINE num == [k \in 1..size + 1 |-> IF k = size + 1 THEN here ELSE Place(kept)[k]]
<1>1. Len(doc) \in Nat /\ DOMAIN doc = 1..Len(doc) /\ here \in Nat
  BY LenProperties
<1>2. kept \subseteq DOMAIN doc /\ all \subseteq DOMAIN doc /\ all \subseteq Nat
  <2>1. \A k \in kept : k \in 1..Len(doc) /\ k \in Nat
    BY <1>1
  <2>2. here \in 1..Len(doc) /\ here \in Nat
    BY <1>1
  <2>. QED  BY <1>0, <1>1, <2>1, <2>2
<1>3. /\ kept \subseteq Nat /\ IsFiniteSet(kept)
      /\ At(doc, kept) \in Seq(Line) /\ Len(At(doc, kept)) = size
  BY <1>0, <1>2, AtFacts
<1>4. /\ size \in Nat
      /\ \A k \in 1..size : Place(kept)[k] \in kept
      /\ \A i \in kept : \E k \in 1..size : Place(kept)[k] = i
      /\ \A k, l \in 1..size : k < l => Place(kept)[k] < Place(kept)[l]
  <2>1. kept \subseteq Nat /\ IsFiniteSet(kept)
    BY <1>3
  <2>2. /\ Cardinality(kept) \in Nat
        /\ Place(kept) \in [1..Cardinality(kept) -> kept]
        /\ \A i \in kept : \E k \in 1..Cardinality(kept) : Place(kept)[k] = i
        /\ \A k, l \in 1..Cardinality(kept) : k < l => Place(kept)[k] < Place(kept)[l]
    BY <2>1, PlaceFacts
  <2>. QED  BY <1>0, <2>2
<1>5. \A k \in 1..size + 1 : k \in 1..size \/ k = size + 1
  BY <1>4
<1>6. num \in [1..size + 1 -> all]
  BY <1>0, <1>4, <1>5
<1>7. ASSUME NEW k \in 1..size + 1, NEW l \in 1..size + 1, k < l PROVE num[k] < num[l]
  <2>1. k \in 1..size /\ num[k] = Place(kept)[k] /\ Place(kept)[k] \in kept
    BY <1>4, <1>7
  <2>2. CASE l = size + 1
    <3>1. Place(kept)[k] \in 1..here - 1 /\ num[l] = here
      BY <2>1, <2>2
    <3>. QED  BY <1>1, <2>1, <3>1
  <2>3. CASE l \in 1..size
    BY <1>4, <1>7, <2>1, <2>3
  <2>. QED  BY <1>5, <2>2, <2>3
<1>8. ASSUME NEW i \in all PROVE \E k \in 1..size + 1 : num[k] = i
  <2>1. CASE i = here
    <3>1. size + 1 \in 1..size + 1
      BY <1>4
    <3>. QED  BY <2>1, <3>1
  <2>2. CASE i \in kept
    <3>1. PICK k \in 1..size : Place(kept)[k] = i
      BY <1>4, <2>2
    <3>2. k \in 1..size + 1 /\ k # size + 1
      BY <1>4
    <3>. QED  BY <3>1, <3>2
  <2>. QED  BY <1>0, <2>1, <2>2
<1>9. Numbers(num, size + 1, all)
  <2>1. size + 1 \in Nat
    BY <1>4
  <2>. QED  BY <1>2, <1>6, <1>7, <1>8, <2>1 DEF Numbers
<1> HIDE DEF num
<1>10. Cardinality(all) = size + 1 /\ Place(all) = num
  BY <1>9, PlaceUnique
<1>11. At(doc, all) = [k \in 1..size + 1 |-> doc[num[k]]]
  BY <1>10, AtPlaces
<1>12. At(doc, all) \in Seq(Line) /\ Len(At(doc, all)) = size + 1
  BY <1>2, <1>10, AtFacts, Zenon
<1>13. doc[here] \in Line
  BY <1>1, ElementOfSeq
<1>14. /\ Append(At(doc, kept), doc[here]) \in Seq(Line)
       /\ Len(Append(At(doc, kept), doc[here])) = size + 1
       /\ \A k \in 1..size : Append(At(doc, kept), doc[here])[k] = At(doc, kept)[k]
       /\ Append(At(doc, kept), doc[here])[size + 1] = doc[here]
  BY <1>3, <1>13, AppendProperties
<1>15. \A k \in 1..size : At(doc, kept)[k] = doc[Place(kept)[k]]
  BY <1>0, <1>2, AtFacts
<1>16. ASSUME NEW k \in 1..size + 1 PROVE At(doc, all)[k] = Append(At(doc, kept), doc[here])[k]
  <2> USE DEF num
  <2>1. CASE k = size + 1
    BY <1>11, <1>14, <2>1
  <2>2. CASE k \in 1..size
    <3>1. k # size + 1
      BY <1>4, <2>2
    <3>. QED  BY <1>11, <1>14, <1>15, <2>2, <3>1
  <2>. QED  BY <1>5, <2>1, <2>2
<1>17. At(doc, all) = Append(At(doc, kept), doc[here])
  BY <1>12, <1>14, <1>16, SeqEqual
<1>. QED  BY <1>0, <1>17

\* Places among some of the places are places themselves.
Places(kept, Q) == {Place(kept)[q] : q \in Q}

LEMMA AtAt ==
  ASSUME NEW doc \in Seq(Line), NEW kept, kept \subseteq DOMAIN doc,
         NEW Q, Q \subseteq 1..Cardinality(kept)
  PROVE  At(At(doc, kept), Q) = At(doc, Places(kept, Q))
<1>0. PICK size, all, few :
        size = Cardinality(Q) /\ all = {Place(kept)[q] : q \in Q} /\ few = Cardinality(kept)
  OBVIOUS
<1> DEFINE num == [k \in 1..size |-> Place(kept)[Place(Q)[k]]]
<1>1. /\ kept \subseteq Nat /\ IsFiniteSet(kept) /\ At(doc, kept) \in Seq(Line)
      /\ DOMAIN At(doc, kept) = 1..few
      /\ \A n \in 1..few : At(doc, kept)[n] = doc[Place(kept)[n]]
  BY <1>0, AtFacts
<1>2. /\ \A n \in 1..few : Place(kept)[n] \in kept /\ Place(kept)[n] \in Nat
      /\ \A m, n \in 1..few : m < n => Place(kept)[m] < Place(kept)[n]
  BY <1>0, <1>1, PlaceFacts
<1>3. Q \subseteq Nat /\ IsFiniteSet(Q)
  BY <1>0, <1>1, AtFacts
<1>4. /\ size \in Nat
      /\ \A k \in 1..size : Place(Q)[k] \in Q
      /\ \A i \in Q : \E k \in 1..size : Place(Q)[k] = i
      /\ \A k, l \in 1..size : k < l => Place(Q)[k] < Place(Q)[l]
  BY <1>0, <1>3, PlaceFacts
<1>5. num \in [1..size -> all]
  BY <1>0, <1>4
<1>6. ASSUME NEW k \in 1..size, NEW l \in 1..size, k < l PROVE num[k] < num[l]
  <2>1. Place(Q)[k] \in 1..few /\ Place(Q)[l] \in 1..few
    BY <1>0, <1>4
  <2>2. Place(Q)[k] < Place(Q)[l]
    BY <1>4, <1>6
  <2>. QED  BY <1>2, <2>1, <2>2
<1>7. ASSUME NEW i \in all PROVE \E k \in 1..size : num[k] = i
  <2>1. PICK q \in Q : i = Place(kept)[q]
    BY <1>0
  <2>2. PICK k \in 1..size : Place(Q)[k] = q
    BY <1>4
  <2>. QED  BY <2>1, <2>2
<1>8. all \subseteq Nat
  BY <1>0, <1>2
<1>9. Numbers(num, size, all)
  BY <1>4, <1>5, <1>6, <1>7, <1>8 DEF Numbers
<1> HIDE DEF num
<1>10. Cardinality(all) = size /\ Place(all) = num
  BY <1>9, PlaceUnique
<1>11. At(doc, all) = [k \in 1..size |-> doc[num[k]]]
  BY <1>10, AtPlaces
<1>12. At(At(doc, kept), Q) = [k \in 1..size |-> At(doc, kept)[Place(Q)[k]]]
  BY <1>0, AtPlaces
<1>13. ASSUME NEW k \in 1..size PROVE At(doc, kept)[Place(Q)[k]] = doc[num[k]]
  BY <1>0, <1>1, <1>4 DEF num
<1>. QED  BY <1>0, <1>11, <1>12, <1>13, ZenonT(30) DEF Places

------------------------------------------------------------------------------
(* The pass: what it has kept, and the block it believes to be in.            *)

BlockAt(doc, n) == Scanned(doc)[n].block

\* The line is dropped: a comment, and not in the body of a block scalar.
Dropped(doc, n) == doc[n].kind = "comment" /\ ~Inside(Scanned(doc)[n - 1], doc[n])

KeptUpto(doc, n) == {i \in 1..n : ~Dropped(doc, i)}

LEMMA Scanning ==
  ASSUME NEW doc \in Seq(Line)
  PROVE  /\ Scanned(doc)[0] = [block |-> {}, out |-> <<>>]
         /\ \A n \in 1..Len(doc) : Scanned(doc)[n] = Scan(Scanned(doc)[n - 1], doc[n])
<1> DEFINE first == [block |-> {}, out |-> <<>>]
           Recur(f, n) == f = [k \in 0..n |-> IF k = 0 THEN first ELSE Scan(f[k - 1], doc[k])]
           T == {n \in Nat : \E f : Recur(f, n)}
<1>1. Len(doc) \in Nat /\ 0 \in Nat
  BY LenProperties
<1>2. ASSUME NEW n \in 0..Len(doc), \A j \in 0..n - 1 : j \in T
      PROVE  n \in T
  <2>1. CASE n = 0
    <3>1. Recur([k \in 0..0 |-> first], 0)
      OBVIOUS
    <3>. QED  BY <2>1, <3>1
  <2>2. CASE n # 0
    <3>1. n \in Nat /\ n - 1 \in Nat /\ n - 1 \in T
      BY <1>2, <2>2
    <3>2. PICK f : Recur(f, n - 1)
      BY <3>1
    <3> DEFINE g == [k \in 0..n |-> IF k = n THEN Scan(f[n - 1], doc[n]) ELSE f[k]]
    <3> HIDE DEF first
    <3>3. ASSUME NEW k \in 0..n
          PROVE  g[k] = IF k = 0 THEN first ELSE Scan(g[k - 1], doc[k])
      <4>1. CASE k = n
        <5>1. k - 1 \in 0..n /\ k - 1 # n
          BY <2>2, <3>1, <4>1
        <5>. QED  BY <2>2, <4>1, <5>1
      <4>2. CASE k # n /\ k # 0
        <5>1. k \in 0..n - 1 /\ k - 1 \in 0..n /\ k - 1 # n
          BY <3>1, <4>2
        <5>2. f[k] = Scan(f[k - 1], doc[k])
          BY <3>2, <4>2, <5>1
        <5>. QED  BY <4>2, <5>1, <5>2
      <4>3. CASE k = 0
        <5>1. f[0] = first
          BY <3>1, <3>2
        <5>. QED  BY <2>2, <4>3, <5>1
      <4>. QED  BY <4>1, <4>2, <4>3
    <3>4. g = [k \in 0..n |-> IF k = 0 THEN first ELSE Scan(g[k - 1], doc[k])]
      BY <3>3
    <3>5. Recur(g, n)
      BY <3>4
    <3>. QED  BY <3>1, <3>5
  <2>. QED  BY <2>1, <2>2
<1>3. Len(doc) \in T
  <2> HIDE DEF T
  <2>1. 0..Len(doc) \subseteq T
    BY <1>1, <1>2, Induction
  <2>. QED  BY <1>1, <2>1
<1>4. PICK f : Recur(f, Len(doc))
  BY <1>3
<1>5. Scanned(doc) = CHOOSE scan : Recur(scan, Len(doc))
  BY DEF Scanned
<1>6. Recur(Scanned(doc), Len(doc))
  BY <1>4, <1>5
<1>7. ASSUME NEW n \in 1..Len(doc) PROVE Scanned(doc)[n] = Scan(Scanned(doc)[n - 1], doc[n])
  <2>1. n \in 0..Len(doc) /\ n # 0
    BY <1>1
  <2>. QED  BY <1>6, <2>1
<1>8. Scanned(doc)[0] = first
  <2>1. 0 \in 0..Len(doc)
    BY <1>1
  <2>. QED  BY <1>6, <2>1
<1>. QED  BY <1>7, <1>8

LEMMA ScanShape ==
  ASSUME NEW doc \in Seq(Line), NEW n \in 0..Len(doc)
  PROVE  Scanned(doc)[n] = [block |-> BlockAt(doc, n), out |-> At(doc, KeptUpto(doc, n))]
<1> DEFINE T == {k \in Nat : Scanned(doc)[k] =
                   [block |-> BlockAt(doc, k), out |-> At(doc, KeptUpto(doc, k))]}
<1>1. Len(doc) \in Nat /\ 0 \in Nat /\ DOMAIN doc = 1..Len(doc)
  BY LenProperties
<1>2. ASSUME NEW k \in 0..Len(doc), \A j \in 0..k - 1 : j \in T
      PROVE  k \in T
  <2>1. CASE k = 0
    <3>1. KeptUpto(doc, 0) = {}
      BY DEF KeptUpto
    <3>2. At(doc, {}) = <<>>
      <4>1. At(doc, {}) \in Seq(Line) /\ Len(At(doc, {})) = 0
        BY AtFacts, FS_EmptySet
      <4>. QED  BY <4>1, EmptySeq
    <3>3. Scanned(doc)[0] = [block |-> {}, out |-> <<>>]
      BY Scanning
    <3>4. BlockAt(doc, 0) = {}
      BY <3>3 DEF BlockAt
    <3>5. Scanned(doc)[0] = [block |-> BlockAt(doc, 0), out |-> At(doc, KeptUpto(doc, 0))]
      BY <3>1, <3>2, <3>3, <3>4
    <3>6. 0 \in T
      BY <3>5
    <3>. QED  BY <2>1, <3>6, Zenon
  <2>2. CASE k # 0
    <3>1. k \in 1..Len(doc) /\ k \in DOMAIN doc /\ k - 1 \in T /\ k \in Nat
      BY <1>1, <1>2, <2>2
    <3>2. PICK st, ln : st = Scanned(doc)[k - 1] /\ ln = doc[k]
      OBVIOUS
    <3>3. st = [block |-> BlockAt(doc, k - 1), out |-> At(doc, KeptUpto(doc, k - 1))]
      BY <3>1, <3>2
    <3>4. Scanned(doc)[k] = Scan(st, ln)
      BY <3>1, <3>2, Scanning
    <3>5. Dropped(doc, k) <=> ln.kind = "comment" /\ ~Inside(st, ln)
      BY <3>2 DEF Dropped
    <3>6. /\ Scan(st, ln) = [block |-> Scan(st, ln).block, out |-> Scan(st, ln).out]
          /\ Scan(st, ln).out = IF Dropped(doc, k) THEN At(doc, KeptUpto(doc, k - 1))
                                                   ELSE Append(At(doc, KeptUpto(doc, k - 1)), ln)
      BY <3>3, <3>5 DEF Scan, Inside
    <3>7. \A i \in 1..k : i \in 1..k - 1 \/ i = k
      BY <3>1
    <3>8. KeptUpto(doc, k) =
            IF Dropped(doc, k) THEN KeptUpto(doc, k - 1) ELSE KeptUpto(doc, k - 1) \cup {k}
      <4>1. k \in 1..k /\ k \notin 1..k - 1 /\ \A i \in 1..k - 1 : i \in 1..k
        BY <3>1
      <4>. QED  BY <3>7, <4>1 DEF KeptUpto
    <3>9. KeptUpto(doc, k - 1) \subseteq 1..k - 1
      BY DEF KeptUpto
    <3>10. At(doc, KeptUpto(doc, k - 1) \cup {k}) = Append(At(doc, KeptUpto(doc, k - 1)), ln)
      BY <3>1, <3>2, <3>9, AtAppend
    <3>11. Scan(st, ln).out = At(doc, KeptUpto(doc, k))
      BY <3>6, <3>8, <3>10
    <3>. QED  BY <3>1, <3>4, <3>6, <3>11 DEF BlockAt
  <2>. QED  BY <2>1, <2>2
<1>3. 0..Len(doc) \subseteq T
  <2> HIDE DEF T
  <2>. QED  BY <1>1, <1>2, Induction
<1>. QED  BY <1>3

\* Whether a line is in the body, and the block after it.
InBody(doc, n) ==
  /\ BlockAt(doc, n - 1) # {}
  /\ doc[n].kind = "blank" \/ \A i \in BlockAt(doc, n - 1) : doc[n].indent > i

LEMMA BlockStep ==
  ASSUME NEW doc \in Seq(Line), NEW n \in 1..Len(doc)
  PROVE  /\ Dropped(doc, n) <=> doc[n].kind = "comment" /\ ~InBody(doc, n)
         /\ InBody(doc, n) => BlockAt(doc, n) = BlockAt(doc, n - 1)
         /\ ~InBody(doc, n) =>
              BlockAt(doc, n) = IF doc[n].kind = "header" THEN {doc[n].indent} ELSE {}
<1>1. n - 1 \in 0..Len(doc)
  BY LenProperties
<1>2. PICK st, ln : st = Scanned(doc)[n - 1] /\ ln = doc[n]
  OBVIOUS
<1>3. st = [block |-> BlockAt(doc, n - 1), out |-> At(doc, KeptUpto(doc, n - 1))]
  BY <1>1, <1>2, ScanShape
<1>4. Scanned(doc)[n] = Scan(st, ln)
  BY <1>2, Scanning
<1>5. Inside(st, ln) <=> InBody(doc, n)
  BY <1>2, <1>3 DEF Inside, InBody
<1>6. /\ Inside(st, ln) => Scan(st, ln).block = BlockAt(doc, n - 1)
      /\ ~Inside(st, ln) => Scan(st, ln).block = IF ln.kind = "header" THEN {ln.indent} ELSE {}
  BY <1>3 DEF Scan, Inside
<1>. QED  BY <1>2, <1>4, <1>5, <1>6 DEF BlockAt, Dropped

------------------------------------------------------------------------------
(* What YAML makes of the lines: every line belongs to one scalar at most.    *)

\* The owner of line j, given those of the lines before.
OwnerAfter(doc, before, j) ==
  IF Over(doc, before, j) = {} THEN 0 ELSE CHOOSE i \in Over(doc, before, j) : TRUE

LEMMA Owning ==
  ASSUME NEW doc \in Seq(Line)
  PROVE  /\ Owned(doc)[0] = <<>>
         /\ \A n \in 1..Len(doc) :
              Owned(doc)[n] = Append(Owned(doc)[n - 1], OwnerAfter(doc, Owned(doc)[n - 1], n))
<1> DEFINE Recur(f, n) ==
             f = [k \in 0..n |-> IF k = 0 THEN <<>>
                                 ELSE Append(f[k - 1], OwnerAfter(doc, f[k - 1], k))]
           T == {n \in Nat : \E f : Recur(f, n)}
<1>1. Len(doc) \in Nat /\ 0 \in Nat
  BY LenProperties
<1>2. ASSUME NEW n \in 0..Len(doc), \A j \in 0..n - 1 : j \in T
      PROVE  n \in T
  <2>1. CASE n = 0
    <3>1. Recur([k \in 0..0 |-> <<>>], 0)
      OBVIOUS
    <3>. QED  BY <2>1, <3>1
  <2>2. CASE n # 0
    <3>1. n \in Nat /\ n - 1 \in Nat /\ n - 1 \in T
      <4> HIDE DEF T
      <4>. QED  BY <1>2, <2>2
    <3>2. PICK f : Recur(f, n - 1)
      BY <3>1
    <3> DEFINE g == [k \in 0..n |-> IF k = n THEN Append(f[n - 1], OwnerAfter(doc, f[n - 1], n))
                                             ELSE f[k]]
    <3>3. ASSUME NEW k \in 0..n
          PROVE  g[k] = IF k = 0 THEN <<>> ELSE Append(g[k - 1], OwnerAfter(doc, g[k - 1], k))
      <4>1. CASE k = n
        <5>1. k - 1 \in 0..n /\ k - 1 # n
          BY <2>2, <3>1, <4>1
        <5>. QED  BY <2>2, <4>1, <5>1
      <4>2. CASE k # n /\ k # 0
        <5>1. k \in 0..n - 1 /\ k - 1 \in 0..n /\ k - 1 # n
          BY <3>1, <4>2
        <5>2. f[k] = Append(f[k - 1], OwnerAfter(doc, f[k - 1], k))
          BY <3>2, <4>2, <5>1
        <5>. QED  BY <4>2, <5>1, <5>2
      <4>3. CASE k = 0
        <5>1. f[0] = <<>>
          BY <3>1, <3>2
        <5>. QED  BY <2>2, <4>3, <5>1
      <4>. QED  BY <4>1, <4>2, <4>3
    <3>4. g = [k \in 0..n |-> IF k = 0 THEN <<>>
                              ELSE Append(g[k - 1], OwnerAfter(doc, g[k - 1], k))]
      BY <3>3
    <3>5. Recur(g, n)
      BY <3>4
    <3>. QED  BY <3>1, <3>5
  <2>. QED  BY <2>1, <2>2
<1>3. Len(doc) \in T
  <2> HIDE DEF T
  <2>1. 0..Len(doc) \subseteq T
    BY <1>1, <1>2, Induction
  <2>. QED  BY <1>1, <2>1
<1>4. PICK f : Recur(f, Len(doc))
  BY <1>3
<1>5. Owned(doc) = CHOOSE owners : Recur(owners, Len(doc))
  BY DEF Owned, OwnerAfter
<1>6. Recur(Owned(doc), Len(doc))
  BY <1>4, <1>5
<1>7. ASSUME NEW n \in 1..Len(doc)
      PROVE  Owned(doc)[n] = Append(Owned(doc)[n - 1], OwnerAfter(doc, Owned(doc)[n - 1], n))
  <2>1. n \in 0..Len(doc) /\ n # 0
    BY <1>1
  <2>. QED  BY <1>6, <2>1
<1>8. Owned(doc)[0] = <<>>
  <2>1. 0 \in 0..Len(doc)
    BY <1>1
  <2>. QED  BY <1>6, <2>1
<1>. QED  BY <1>7, <1>8

LEMMA OwnerType ==
  ASSUME NEW doc, NEW before, NEW j \in Nat
  PROVE  /\ OwnerAfter(doc, before, j) \in Nat
         /\ Over(doc, before, j) = {} => OwnerAfter(doc, before, j) = 0
         /\ Over(doc, before, j) # {} => OwnerAfter(doc, before, j) \in Over(doc, before, j)
<1>1. \A i \in Over(doc, before, j) : i \in Nat
  BY DEF Over
<1>. QED  BY <1>1 DEF OwnerAfter

\* A list of owners grows without changing.
LEMMA OwnedShape ==
  ASSUME NEW doc \in Seq(Line), NEW n \in 0..Len(doc)
  PROVE  /\ Owned(doc)[n] \in Seq(Nat) /\ Len(Owned(doc)[n]) = n
         /\ \A i \in 1..n : Owned(doc)[n][i] = OwnerAfter(doc, Owned(doc)[i - 1], i)
<1> DEFINE Shape(k) ==
             /\ Owned(doc)[k] \in Seq(Nat) /\ Len(Owned(doc)[k]) = k
             /\ \A i \in 1..k : Owned(doc)[k][i] = OwnerAfter(doc, Owned(doc)[i - 1], i)
           T == {k \in Nat : Shape(k)}
<1>1. Len(doc) \in Nat /\ 0 \in Nat
  BY LenProperties
<1>2. ASSUME NEW k \in 0..Len(doc), \A j \in 0..k - 1 : j \in T
      PROVE  k \in T
  <2>1. CASE k = 0
    <3>1. <<>> \in Seq(Nat) /\ Len(<<>>) = 0
      OBVIOUS
    <3>2. Owned(doc)[0] = <<>>
      BY Owning
    <3>3. Shape(0)
      BY <3>1, <3>2
    <3>. QED  BY <2>1, <3>3, Zenon
  <2>2. CASE k # 0
    <3>1. k \in 1..Len(doc) /\ k \in Nat /\ k - 1 \in 0..k - 1 /\ k - 1 \in Nat
      BY <1>1, <2>2
    <3>2. Shape(k - 1)
      BY <1>2, <3>1
    <3>3. PICK before, own : before = Owned(doc)[k - 1] /\ own = OwnerAfter(doc, before, k)
      OBVIOUS
    <3>4. before \in Seq(Nat) /\ Len(before) = k - 1 /\ own \in Nat
      BY <3>1, <3>2, <3>3, OwnerType
    <3>5. Owned(doc)[k] = Append(before, own)
      BY <3>1, <3>3, Owning
    <3>6. /\ Append(before, own) \in Seq(Nat) /\ Len(Append(before, own)) = k
          /\ \A i \in 1..k - 1 : Append(before, own)[i] = before[i]
          /\ Append(before, own)[k] = own
      BY <3>1, <3>4, AppendProperties
    <3>7. ASSUME NEW i \in 1..k PROVE Owned(doc)[k][i] = OwnerAfter(doc, Owned(doc)[i - 1], i)
      <4>1. CASE i = k
        BY <3>3, <3>5, <3>6, <4>1
      <4>2. CASE i \in 1..k - 1
        BY <3>2, <3>3, <3>5, <3>6, <4>2
      <4>. QED  BY <3>1, <4>1, <4>2
    <3>8. Shape(k)
      BY <3>5, <3>6, <3>7
    <3>. QED  BY <3>1, <3>8
  <2>. QED  BY <2>1, <2>2
<1>3. 0..Len(doc) \subseteq T
  <2> HIDE DEF T
  <2>. QED  BY <1>1, <1>2, Induction
<1>. QED  BY <1>3

\* Header i owns line j exactly if everything in between is in its body.
LEMMA OwnerFacts ==
  ASSUME NEW doc \in Seq(Line)
  PROVE  /\ Owners(doc) \in Seq(Nat) /\ Len(Owners(doc)) = Len(doc)
         /\ \A j \in 1..Len(doc) : Owners(doc)[j] \in Nat
         /\ \A j \in 1..Len(doc) :
              Owners(doc)[j] # 0 => Owners(doc)[j] \in Over(doc, Owners(doc), j)
         /\ \A j \in 1..Len(doc) : \A i \in Over(doc, Owners(doc), j) : Owners(doc)[j] = i
<1>0. PICK O : O = Owners(doc)
  OBVIOUS
<1>1. Len(doc) \in Nat /\ Len(doc) \in 0..Len(doc)
  BY LenProperties
<1>2. /\ O \in Seq(Nat) /\ Len(O) = Len(doc)
      /\ \A j \in 1..Len(doc) : O[j] = OwnerAfter(doc, Owned(doc)[j - 1], j)
  BY <1>0, <1>1, OwnedShape DEF Owners
<1>3. ASSUME NEW j \in 1..Len(doc)
      PROVE  Over(doc, Owned(doc)[j - 1], j) = Over(doc, O, j)
  <2>1. j - 1 \in 0..Len(doc)
    BY <1>1
  <2>2. \A i \in 1..j - 1 : i \in 1..Len(doc)
    BY <1>1
  <2>3. \A i \in 1..j - 1 : Owned(doc)[j - 1][i] = OwnerAfter(doc, Owned(doc)[i - 1], i)
    BY <2>1, OwnedShape
  <2>4. \A i \in 1..j - 1 : Owned(doc)[j - 1][i] = O[i]
    BY <1>2, <2>2, <2>3
  <2>. QED  BY <2>4 DEF Over
<1>4. ASSUME NEW j \in 1..Len(doc)
      PROVE  /\ O[j] \in Nat
             /\ Over(doc, O, j) = {} => O[j] = 0
             /\ Over(doc, O, j) # {} => O[j] \in Over(doc, O, j)
  <2>1. j \in Nat
    BY <1>1
  <2>2. PICK before : before = Owned(doc)[j - 1]
    OBVIOUS
  <2>3. O[j] = OwnerAfter(doc, before, j) /\ Over(doc, before, j) = Over(doc, O, j)
    BY <1>2, <1>3, <2>2
  <2>. QED  BY <2>1, <2>3, OwnerType
<1>5. ASSUME NEW j \in 1..Len(doc), NEW i \in Over(doc, O, j) PROVE O[j] = i
  <2>1. PICK k : k = O[j] /\ k \in Over(doc, O, j)
    BY <1>4
  <2>2. /\ i \in 1..j - 1 /\ O[i] = 0 /\ doc[i].kind = "header"
        /\ \A m \in i + 1..j : doc[m].kind = "blank" \/ doc[m].indent > doc[i].key
    BY DEF Over
  <2>3. /\ k \in 1..j - 1 /\ O[k] = 0 /\ doc[k].kind = "header"
        /\ \A m \in k + 1..j : doc[m].kind = "blank" \/ doc[m].indent > doc[k].key
    BY <2>1 DEF Over
  <2>4. CASE i < k
    <3>1. k \in 1..Len(doc) /\ i \in 1..k - 1 /\ \A m \in i + 1..k : m \in i + 1..j
      BY <1>1, <2>2, <2>3, <2>4
    <3>2. i \in Over(doc, O, k)
      BY <2>2, <3>1 DEF Over
    <3>3. O[k] \in Over(doc, O, k)
      BY <1>4, <3>1, <3>2
    <3>4. O[k] \in 1..k - 1
      BY <3>3 DEF Over
    <3>. QED  BY <2>3, <3>4
  <2>5. CASE k < i
    <3>1. i \in 1..Len(doc) /\ k \in 1..i - 1 /\ \A m \in k + 1..i : m \in k + 1..j
      BY <1>1, <2>2, <2>3, <2>5
    <3>2. k \in Over(doc, O, i)
      BY <2>3, <3>1 DEF Over
    <3>3. O[i] \in Over(doc, O, i)
      BY <1>4, <3>1, <3>2
    <3>4. O[i] \in 1..i - 1
      BY <3>3 DEF Over
    <3>. QED  BY <2>2, <3>4
  <2>. QED  BY <2>1, <2>2, <2>3, <2>4, <2>5
<1>6. \A j \in 1..Len(doc) : O[j] # 0 => O[j] \in Over(doc, O, j)
  BY <1>4
<1>. QED  BY <1>0, <1>2, <1>4, <1>5, <1>6

------------------------------------------------------------------------------
(* The pass and YAML: what is dropped is in no scalar.                        *)

LEMMA LineFacts ==
  ASSUME NEW doc \in Seq(Line), NEW n \in 1..Len(doc)
  PROVE  /\ doc[n] \in Line /\ n \in Nat
         /\ doc[n].indent \in Nat /\ doc[n].key \in Nat /\ doc[n].indent <= doc[n].key
<1>1. doc[n] \in Line
  BY LenProperties, ElementOfSeq
<1>2. n \in Nat
  BY LenProperties
<1>. QED  BY <1>1, <1>2 DEF Line

LEMMA BlockType ==
  ASSUME NEW doc \in Seq(Line), NEW n \in 0..Len(doc)
  PROVE  BlockAt(doc, n) \subseteq Nat
<1> DEFINE T == {k \in Nat : BlockAt(doc, k) \subseteq Nat}
<1>1. Len(doc) \in Nat /\ 0 \in Nat
  BY LenProperties
<1>2. ASSUME NEW k \in 0..Len(doc), \A j \in 0..k - 1 : j \in T
      PROVE  k \in T
  <2>1. CASE k = 0
    <3>1. BlockAt(doc, 0) = {}
      BY Scanning DEF BlockAt
    <3>. QED  BY <2>1, <3>1
  <2>2. CASE k # 0
    <3>1. k \in 1..Len(doc) /\ k - 1 \in 0..k - 1 /\ k \in Nat
      BY <1>1, <2>2
    <3>2. BlockAt(doc, k - 1) \subseteq Nat
      BY <1>2, <3>1
    <3>3. doc[k].indent \in Nat
      BY <3>1, LineFacts
    <3>4. BlockAt(doc, k) \subseteq Nat
      BY <3>1, <3>2, <3>3, BlockStep
    <3>. QED  BY <3>1, <3>4
  <2>. QED  BY <2>1, <2>2
<1>3. 0..Len(doc) \subseteq T
  <2> HIDE DEF T
  <2>. QED  BY <1>1, <1>2, Induction
<1>. QED  BY <1>3

\* From a header on, as far as its body goes, the pass believes to be in a block at most
\* as deep: its own, or one it is itself taken to be in.
LEMMA Covered ==
  ASSUME NEW doc \in Seq(Line), NEW i \in 1..Len(doc), NEW j \in i..Len(doc),
         doc[i].kind = "header",
         \A m \in i + 1..j : doc[m].kind = "blank" \/ doc[m].indent > doc[i].key
  PROVE  /\ BlockAt(doc, j) # {} /\ \A b \in BlockAt(doc, j) : b <= doc[i].indent
         /\ ~Dropped(doc, j)
<1> DEFINE Shallow(k) == BlockAt(doc, k) # {} /\ \A b \in BlockAt(doc, k) : b <= doc[i].indent
           T == {k \in Nat : Shallow(k) /\ ~Dropped(doc, k)}
<1>1. Len(doc) \in Nat /\ i \in Nat /\ j \in Nat /\ \A k \in i..j : k \in 1..Len(doc) /\ k \in Nat
  BY LenProperties
<1>2. doc[i].indent \in Nat /\ doc[i].key \in Nat /\ doc[i].indent <= doc[i].key
  BY LineFacts
<1>3. ASSUME NEW k \in i..j, \A n \in i..k - 1 : n \in T
      PROVE  k \in T
  <2>0. k \in 1..Len(doc) /\ k \in Nat /\ k - 1 \in 0..Len(doc)
    BY <1>1
  <2>1. CASE k = i
    <3>1. CASE InBody(doc, i)
      <4>1. BlockAt(doc, i) = BlockAt(doc, i - 1)
        BY <3>1, BlockStep
      <4>2. \A b \in BlockAt(doc, i - 1) : doc[i].indent > b /\ b \in Nat
        BY <2>0, <2>1, <3>1, BlockType DEF InBody
      <4>3. Shallow(i)
        BY <1>2, <3>1, <4>1, <4>2 DEF InBody
      <4>. QED  BY <2>0, <2>1, <3>1, <4>3, BlockStep
    <3>2. CASE ~InBody(doc, i)
      <4>1. BlockAt(doc, i) = {doc[i].indent}
        BY <3>2, BlockStep
      <4>2. Shallow(i)
        BY <1>2, <4>1
      <4>. QED  BY <2>0, <2>1, <4>2, BlockStep
    <3>. QED  BY <3>1, <3>2
  <2>2. CASE k # i
    <3>1. k - 1 \in i..k - 1 /\ k \in i + 1..j
      BY <1>1, <2>2
    <3>2. Shallow(k - 1)
      BY <1>3, <3>1
    <3>3. doc[k].indent \in Nat /\ BlockAt(doc, k - 1) \subseteq Nat
      BY <2>0, LineFacts, BlockType
    <3>4. doc[k].kind = "blank" \/ \A b \in BlockAt(doc, k - 1) : doc[k].indent > b
      <4>1. ASSUME doc[k].indent > doc[i].key, NEW b \in BlockAt(doc, k - 1)
            PROVE  doc[k].indent > b
        <5>1. b \in Nat /\ b <= doc[i].indent
          BY <3>2, <3>3
        <5>. QED  BY <1>2, <3>3, <4>1, <5>1
      <4>. QED  BY <3>1, <4>1
    <3>5. InBody(doc, k)
      BY <3>2, <3>4 DEF InBody
    <3>6. BlockAt(doc, k) = BlockAt(doc, k - 1) /\ ~Dropped(doc, k)
      BY <2>0, <3>5, BlockStep
    <3>. QED  BY <2>0, <3>2, <3>6
  <2>. QED  BY <2>1, <2>2
<1>4. i..j \subseteq T
  <2> HIDE DEF T
  <2>. QED  BY <1>1, <1>3, Induction
<1>5. j \in i..j
  BY <1>1
<1>. QED  BY <1>4, <1>5

LEMMA OwnedKept ==
  ASSUME NEW doc \in Seq(Line), NEW j \in 1..Len(doc), Owners(doc)[j] # 0
  PROVE  ~Dropped(doc, j)
<1>1. PICK i : i = Owners(doc)[j] /\ i \in Over(doc, Owners(doc), j)
  BY OwnerFacts
<1>2. /\ i \in 1..j - 1 /\ doc[i].kind = "header"
      /\ \A m \in i + 1..j : doc[m].kind = "blank" \/ doc[m].indent > doc[i].key
  BY <1>1 DEF Over
<1>3. i \in 1..Len(doc) /\ j \in i..Len(doc)
  BY <1>2, LenProperties
<1>. QED  BY <1>2, <1>3, Covered

\* Every line up to a line a header owns is its own.
LEMMA OwnerBetween ==
  ASSUME NEW doc \in Seq(Line), NEW j \in 1..Len(doc), NEW i, i = Owners(doc)[j], i # 0
  PROVE  /\ i \in 1..j - 1 /\ i \in 1..Len(doc) /\ i \in Nat /\ j \in Nat
         /\ doc[i].kind = "header" /\ Owners(doc)[i] = 0
         /\ \A m \in i + 1..j : m \in 1..Len(doc) /\ Owners(doc)[m] = i
         /\ \A m \in i + 1..j : doc[m].kind = "blank" \/ doc[m].indent > doc[i].key
<1>1. i \in Over(doc, Owners(doc), j)
  BY OwnerFacts
<1>2. /\ i \in 1..j - 1 /\ doc[i].kind = "header" /\ Owners(doc)[i] = 0
      /\ \A m \in i + 1..j : doc[m].kind = "blank" \/ doc[m].indent > doc[i].key
  BY <1>1 DEF Over
<1>3. i \in 1..Len(doc) /\ i \in Nat /\ j \in Nat
  BY <1>2, LenProperties
<1>4. ASSUME NEW m \in i + 1..j PROVE m \in 1..Len(doc) /\ Owners(doc)[m] = i
  <2>1. m \in 1..Len(doc) /\ i \in 1..m - 1 /\ \A n \in i + 1..m : n \in i + 1..j
    BY <1>2, <1>3, LenProperties
  <2>2. i \in Over(doc, Owners(doc), m)
    BY <1>2, <2>1 DEF Over
  <2>. QED  BY <2>1, <2>2, OwnerFacts
<1>. QED  BY <1>2, <1>3, <1>4

\* After a dropped comment there is no block until the next header.
LEMMA DroppedStays ==
  ASSUME NEW doc \in Seq(Line), NEW m \in 1..Len(doc), Dropped(doc, m), NEW k \in m..Len(doc),
         \A n \in m + 1..k : doc[n].kind # "header"
  PROVE  doc[k].kind = "comment" => Dropped(doc, k)
<1> DEFINE T == {n \in Nat : BlockAt(doc, n) = {}}
<1>1. Len(doc) \in Nat /\ m \in Nat /\ k \in Nat /\ \A n \in m..k : n \in 1..Len(doc) /\ n \in Nat
  BY LenProperties
<1>2. ASSUME NEW n \in m..k, \A j \in m..n - 1 : j \in T
      PROVE  n \in T
  <2>0. n \in 1..Len(doc) /\ n \in Nat
    BY <1>1
  <2>1. CASE n = m
    <3>1. doc[m].kind = "comment" /\ ~InBody(doc, m)
      BY BlockStep
    <3>2. BlockAt(doc, m) = {}
      BY <3>1, BlockStep
    <3>. QED  BY <2>0, <2>1, <3>2
  <2>2. CASE n # m
    <3>1. n - 1 \in m..n - 1 /\ n \in m + 1..k
      BY <1>1, <2>2
    <3>2. ~InBody(doc, n)
      BY <1>2, <3>1 DEF InBody
    <3>3. BlockAt(doc, n) = {}
      BY <2>0, <3>1, <3>2, BlockStep
    <3>. QED  BY <2>0, <3>3
  <2>. QED  BY <2>1, <2>2
<1>3. m..k \subseteq T
  <2> HIDE DEF T
  <2>. QED  BY <1>1, <1>2, Induction
<1>4. CASE k = m
  BY <1>4, BlockStep
<1>5. CASE k # m
  <2>1. k - 1 \in m..k /\ k \in 1..Len(doc)
    BY <1>1, <1>5
  <2>2. BlockAt(doc, k - 1) = {}
    BY <1>3, <2>1
  <2>3. ~InBody(doc, k)
    BY <2>2 DEF InBody
  <2>. QED  BY <2>1, <2>3, BlockStep
<1>. QED  BY <1>4, <1>5

------------------------------------------------------------------------------
(* What is left of a text: the lines at these places.                         *)

Survivors(out) ==
  {i \in DOMAIN out : out[i].kind = "blank" =>
     /\ i > 1 /\ out[i - 1].kind # "blank"
     /\ \E j \in i + 1..Len(out) : out[j].kind # "blank"}

LeftOf(doc) ==
  LET kept == KeptUpto(doc, Len(doc))
  IN  Places(kept, Survivors(At(doc, kept)))

\* The pass leaves what it does not drop, but for blank lines: one stays if the line
\* before it is text, and there is text after it.
LEMMA LeftFacts ==
  ASSUME NEW doc \in Seq(Line)
  PROVE  /\ LeftOf(doc) \subseteq 1..Len(doc)
         /\ Strip(doc) = At(doc, LeftOf(doc))
         /\ \A j \in LeftOf(doc) : ~Dropped(doc, j)
         /\ \A j \in 1..Len(doc) :
              ~Dropped(doc, j) /\ doc[j].kind # "blank" => j \in LeftOf(doc)
         /\ \A j \in LeftOf(doc) :
              doc[j].kind = "blank" /\ j - 1 \in 1..Len(doc) /\ ~Dropped(doc, j - 1)
                => doc[j - 1].kind # "blank"
         /\ \A j, k \in 1..Len(doc) :
              /\ j - 1 \in 1..Len(doc) /\ ~Dropped(doc, j - 1) /\ doc[j - 1].kind # "blank"
              /\ j < k /\ ~Dropped(doc, k) /\ doc[k].kind # "blank"
              /\ ~Dropped(doc, j)
              => j \in LeftOf(doc)
<1>0. PICK kept, out, num, N :
        /\ kept = KeptUpto(doc, Len(doc)) /\ out = At(doc, kept)
        /\ num = Place(kept) /\ N = Cardinality(kept)
  OBVIOUS
<1>1. Len(doc) \in Nat /\ DOMAIN doc = 1..Len(doc)
  BY LenProperties
<1>2. kept \subseteq 1..Len(doc) /\ \A i \in 1..Len(doc) : i \in kept <=> ~Dropped(doc, i)
  BY <1>0 DEF KeptUpto
<1>3. /\ out \in Seq(Line) /\ Len(out) = N /\ DOMAIN out = 1..N
      /\ kept \subseteq Nat /\ IsFiniteSet(kept)
      /\ \A n \in 1..N : out[n] = doc[num[n]]
  <2>1. kept \subseteq DOMAIN doc
    BY <1>1, <1>2
  <2>. QED  BY <1>0, <2>1, AtFacts
<1>4. /\ N \in Nat
      /\ \A n \in 1..N : num[n] \in kept /\ num[n] \in Nat
      /\ \A i \in kept : \E n \in 1..N : num[n] = i
      /\ \A m, n \in 1..N : m < n => num[m] < num[n]
  BY <1>0, <1>3, PlaceFacts
<1>5. PICK stay, left : stay = Survivors(out) /\ left = {num[q] : q \in stay}
  OBVIOUS
<1>6. left = LeftOf(doc)
  BY <1>0, <1>5 DEF LeftOf, Places
<1>7. stay \subseteq 1..N
  BY <1>3, <1>5 DEF Survivors
<1>8. left \subseteq kept /\ left \subseteq 1..Len(doc)
  BY <1>2, <1>4, <1>5, <1>7
<1>9. Strip(doc) = At(doc, left)
  <2>1. Len(doc) \in 0..Len(doc)
    BY <1>1
  <2>2. Scanned(doc)[Len(doc)].out = out
    <3>1. Scanned(doc)[Len(doc)] = [block |-> BlockAt(doc, Len(doc)), out |-> out]
      BY <1>0, <2>1, ScanShape
    <3>. QED  BY <3>1
  <2>3. Strip(doc) = At(out, stay)
    BY <1>5, <2>2 DEF Strip, Collapse, Survivors
  <2>4. At(out, stay) = At(doc, left)
    <3>1. kept \subseteq DOMAIN doc /\ stay \subseteq 1..Cardinality(kept)
      BY <1>0, <1>1, <1>2, <1>7
    <3>2. At(At(doc, kept), stay) = At(doc, Places(kept, stay))
      BY <3>1, AtAt, ZenonT(30)
    <3>. QED  BY <1>0, <1>5, <3>2 DEF Places
  <2>. QED  BY <2>3, <2>4
<1>10. ASSUME NEW j \in 1..Len(doc), ~Dropped(doc, j), doc[j].kind # "blank"
       PROVE  j \in left
  <2>1. PICK q \in 1..N : num[q] = j
    BY <1>2, <1>4, <1>10
  <2>2. q \in stay
    BY <1>3, <1>5, <1>10, <2>1 DEF Survivors
  <2>. QED  BY <1>5, <2>1, <2>2
\* Neighbours among the lines are neighbours in what is kept.
<1>11. ASSUME NEW q \in 1..N, num[q] - 1 \in kept
       PROVE  q - 1 \in 1..N /\ num[q - 1] = num[q] - 1 /\ q > 1
  <2>1. PICK r \in 1..N : num[r] = num[q] - 1
    BY <1>4, <1>11
  <2>2. num[r] \in Nat /\ num[q] \in Nat /\ num[r] < num[q] /\ q \in Nat /\ r \in Nat
    BY <1>4, <2>1
  <2>3. r # q /\ ~(q < r)
    <3>1. q < r => num[q] < num[r]
      BY <1>4
    <3>2. r = q => num[r] = num[q]
      OBVIOUS
    <3>. QED  BY <2>2, <3>1, <3>2
  <2>4. q - 1 \in 1..N /\ q > 1 /\ q - 1 < q /\ ~(r > q - 1)
    BY <1>4, <2>2, <2>3
  <2>5. r = q - 1
    <3>1. num[q - 1] < num[q] /\ num[q - 1] \in Nat
      BY <1>4, <2>4
    <3>2. r < q - 1 => num[r] < num[q - 1]
      BY <1>4, <2>4
    <3>. QED  BY <2>1, <2>2, <2>4, <3>1, <3>2
  <2>. QED  BY <2>1, <2>4, <2>5
<1>12. ASSUME NEW j \in left, doc[j].kind = "blank", j - 1 \in 1..Len(doc), ~Dropped(doc, j - 1)
       PROVE  doc[j - 1].kind # "blank"
  <2>1. PICK q \in stay : num[q] = j
    BY <1>5
  <2>2. q \in 1..N /\ out[q].kind = "blank"
    BY <1>3, <1>7, <1>12, <2>1
  <2>3. out[q - 1].kind # "blank"
    BY <1>5, <2>2 DEF Survivors
  <2>4. q - 1 \in 1..N /\ num[q - 1] = j - 1
    <3>1. num[q] - 1 \in kept
      BY <1>2, <1>12, <2>1
    <3>. QED  BY <1>11, <2>1, <2>2, <3>1
  <2>. QED  BY <1>3, <2>3, <2>4
<1>13. ASSUME NEW j \in 1..Len(doc), NEW k \in 1..Len(doc),
              j - 1 \in 1..Len(doc), ~Dropped(doc, j - 1), doc[j - 1].kind # "blank",
              j < k, ~Dropped(doc, k), doc[k].kind # "blank", ~Dropped(doc, j)
       PROVE  j \in left
  <2>1. PICK q \in 1..N : num[q] = j
    BY <1>2, <1>4, <1>13
  <2>2. PICK r \in 1..N : num[r] = k
    BY <1>2, <1>4, <1>13
  <2>3. q - 1 \in 1..N /\ num[q - 1] = j - 1 /\ q > 1
    <3>1. num[q] - 1 \in kept
      BY <1>2, <1>13, <2>1
    <3>. QED  BY <1>11, <2>1, <3>1
  <2>4. out[q - 1].kind # "blank" /\ out[r].kind # "blank"
    BY <1>3, <1>13, <2>2, <2>3
  <2>5. r \in q + 1..Len(out)
    <3>1. q \in Nat /\ r \in Nat /\ j \in Nat /\ k \in Nat
      BY <1>1, <1>4
    <3>2. r < q => num[r] < num[q]
      BY <1>4
    <3>3. r = q => num[r] = num[q]
      OBVIOUS
    <3>. QED  BY <1>3, <1>4, <1>13, <2>1, <2>2, <3>1, <3>2, <3>3
  <2>6. q \in stay
    BY <1>3, <1>5, <2>3, <2>4, <2>5 DEF Survivors
  <2>. QED  BY <1>5, <2>1, <2>6
<1>14. \A j \in left : ~Dropped(doc, j)
  BY <1>2, <1>8
<1>. QED  BY <1>6, <1>8, <1>9, <1>10, <1>12, <1>13, <1>14

\* Line q of the stripped text is this line of the text.
From(doc) == Place(LeftOf(doc))

LEMMA FromFacts ==
  ASSUME NEW doc \in Seq(Line)
  PROVE  /\ Strip(doc) \in Seq(Line) /\ Len(Strip(doc)) = Cardinality(LeftOf(doc))
         /\ \A q \in 1..Len(Strip(doc)) :
              /\ q \in Nat /\ From(doc)[q] \in LeftOf(doc)
              /\ From(doc)[q] \in 1..Len(doc) /\ From(doc)[q] \in Nat
              /\ Strip(doc)[q] = doc[From(doc)[q]]
         /\ \A q, r \in 1..Len(Strip(doc)) : q < r <=> From(doc)[q] < From(doc)[r]
         /\ \A q, r \in 1..Len(Strip(doc)) : From(doc)[q] = From(doc)[r] => q = r
         /\ \A j \in LeftOf(doc) : \E q \in 1..Len(Strip(doc)) : From(doc)[q] = j
<1>0. PICK left, nd, num, N :
        /\ left = LeftOf(doc) /\ nd = Strip(doc) /\ num = From(doc) /\ N = Cardinality(left)
  OBVIOUS
<1>1. Len(doc) \in Nat /\ DOMAIN doc = 1..Len(doc) /\ left \subseteq DOMAIN doc
  BY <1>0, LenProperties, LeftFacts
<1>2. nd = At(doc, left)
  BY <1>0, LeftFacts
<1>3. /\ left \subseteq Nat /\ IsFiniteSet(left)
      /\ nd \in Seq(Line) /\ Len(nd) = N
      /\ \A q \in 1..N : nd[q] = doc[num[q]]
  BY <1>0, <1>1, <1>2, AtFacts DEF From
<1>4. /\ N \in Nat
      /\ \A q \in 1..N : num[q] \in left
      /\ \A j \in left : \E q \in 1..N : num[q] = j
      /\ \A q, r \in 1..N : q < r => num[q] < num[r]
  BY <1>0, <1>3, PlaceFacts, SMTT(30) DEF From
<1>5. \A q \in 1..N : q \in Nat /\ num[q] \in 1..Len(doc) /\ num[q] \in Nat
  BY <1>1, <1>3, <1>4
<1>6. ASSUME NEW q \in 1..N, NEW r \in 1..N
      PROVE  (num[q] < num[r] => q < r) /\ (num[q] = num[r] => q = r)
  <2>1. q < r \/ r < q \/ q = r
    BY <1>5
  <2>2. r < q => num[r] < num[q]
    BY <1>4
  <2>3. q < r => num[q] < num[r]
    BY <1>4
  <2>. QED  BY <1>5, <2>1, <2>2, <2>3
<1>. QED  BY <1>0, <1>3, <1>4, <1>5, <1>6

\* The well-formedness this needs: what follows a block scalar's text and comments is
\* no deeper than its key.
LEMMA NextIsShallow ==
  ASSUME NEW doc \in Seq(Line), IsYaml(doc),
         NEW i \in 1..Len(doc), NEW j \in 1..Len(doc), i < j,
         doc[i].kind = "header", Owners(doc)[i] = 0,
         doc[j].kind \notin {"blank", "comment"}, Owners(doc)[j] = 0,
         \A m \in i + 1..j - 1 : doc[m].kind \in {"blank", "comment"} \/ Owners(doc)[m] = i
  PROVE  doc[j].indent <= doc[i].key
BY LenProperties DEF IsYaml

\* Stripping puts no line that says something into a scalar it was not in: were the
\* line that keeps it out dropped, it is a comment, and what follows is no deeper.
LEMMA OutStaysOut ==
  ASSUME NEW doc \in Seq(Line), IsYaml(doc),
         NEW q \in 1..Len(Strip(doc)), NEW p \in 1..q - 1,
         Owners(doc)[From(doc)[q]] = 0, Strip(doc)[q].kind # "blank",
         Owners(doc)[From(doc)[p]] = 0,
         p \in Over(Strip(doc), Owners(Strip(doc)), q)
  PROVE  FALSE
<1>0. PICK i, j : i = From(doc)[p] /\ j = From(doc)[q]
  OBVIOUS
<1>1. p \in 1..Len(Strip(doc)) /\ p < q /\ p \in Nat /\ q \in Nat
  BY FromFacts
<1>2. /\ i \in 1..Len(doc) /\ i \in Nat /\ j \in 1..Len(doc) /\ j \in Nat /\ i < j
      /\ j \in LeftOf(doc)
  BY <1>0, <1>1, FromFacts
<1>3. /\ doc[i].kind = "header" /\ Owners(doc)[i] = 0 /\ Owners(doc)[j] = 0
      /\ doc[j].kind # "blank" /\ doc[i].key \in Nat
  <2>1. Strip(doc)[p].kind = "header"
    BY DEF Over
  <2>. QED  BY <1>0, <1>1, <1>2, <2>1, FromFacts, LineFacts
\* Lines that are left between the two are as deep as the body.
<1>4. ASSUME NEW k \in i + 1..j, k \in LeftOf(doc)
      PROVE  doc[k].kind = "blank" \/ doc[k].indent > doc[i].key
  <2>1. PICK r \in 1..Len(Strip(doc)) : From(doc)[r] = k
    BY <1>4, FromFacts
  <2>2. i < k /\ (k < j \/ k = j) /\ k \in Nat
    BY <1>2
  <2>3. p < r /\ (r < q \/ r = q) /\ r \in Nat
    BY <1>0, <1>1, <2>1, <2>2, FromFacts
  <2>4. r \in p + 1..q
    BY <1>1, <2>3
  <2>5. Strip(doc)[r].kind = "blank" \/ Strip(doc)[r].indent > Strip(doc)[p].key
    BY <2>4 DEF Over
  <2>6. Strip(doc)[r] = doc[k] /\ Strip(doc)[p] = doc[i]
    BY <1>0, <1>1, <2>1, FromFacts, SMTT(30)
  <2>. QED  BY <2>5, <2>6
\* The first line that is not.
<1> DEFINE Short == {m \in i + 1..j : ~(doc[m].kind = "blank" \/ doc[m].indent > doc[i].key)}
<1>5. PICK m \in Short : \A n \in Short : m <= n
  <2>1. i \in 1..j - 1
    BY <1>2
  <2>2. Short # {}
    <3>1. SUFFICES ASSUME Short = {} PROVE FALSE
      OBVIOUS
    <3>2. i \in Over(doc, Owners(doc), j)
      BY <1>3, <2>1, <3>1 DEF Over
    <3>. QED  BY <1>2, <1>3, <3>2, OwnerFacts
  <2>3. Short \subseteq Nat
    BY <1>2
  <2> HIDE DEF Short
  <2>. QED  BY <2>2, <2>3, LeastNatural
<1>6. /\ m \in 1..Len(doc) /\ m \in Nat /\ i < m /\ m <= j
      /\ doc[m].kind # "blank" /\ ~(doc[m].indent > doc[i].key)
  BY <1>2, LenProperties
<1>7. m \notin LeftOf(doc) /\ m # j /\ Dropped(doc, m) /\ doc[m].kind = "comment"
  <2>1. m \notin LeftOf(doc)
    BY <1>4
  <2>2. Dropped(doc, m)
    BY <1>6, <2>1, LeftFacts
  <2>. QED  BY <1>2, <2>1, <2>2 DEF Dropped
\* The first line after it that says something.
<1> DEFINE Says == {k \in m + 1..j : doc[k].kind \notin {"blank", "comment"}}
<1>8. PICK k \in Says : \A n \in Says : k <= n
  <2>1. Says # {}
    <3>1. SUFFICES ASSUME Says = {} PROVE FALSE
      OBVIOUS
    <3>2. j \in m + 1..j /\ j \in m..Len(doc)
      BY <1>2, <1>6, <1>7, LenProperties
    <3>3. doc[j].kind = "comment" /\ \A n \in m + 1..j : doc[n].kind # "header"
      BY <1>3, <3>1, <3>2
    <3>4. Dropped(doc, j)
      BY <1>6, <1>7, <3>2, <3>3, DroppedStays
    <3>. QED  BY <1>2, <3>4, LeftFacts
  <2>2. Says \subseteq Nat
    BY <1>6
  <2> HIDE DEF Says
  <2>. QED  BY <2>1, <2>2, LeastNatural
<1>9. /\ k \in 1..Len(doc) /\ k \in Nat /\ m < k /\ k <= j /\ i < k /\ k \in i + 1..j
      /\ doc[k].kind \notin {"blank", "comment"}
  BY <1>2, <1>6, LenProperties
<1>10. \A n \in m + 1..k - 1 : doc[n].kind \in {"blank", "comment"}
  <2>1. ASSUME NEW n \in m + 1..k - 1, doc[n].kind \notin {"blank", "comment"} PROVE FALSE
    <3>1. n \in m + 1..j /\ n < k /\ n \in Nat
      <4> HIDE DEF Says
      <4>. QED  BY <1>2, <1>6, <1>9
    <3>2. n \in Says
      BY <2>1, <3>1
    <3>. QED  BY <1>8, <1>9, <3>1, <3>2
  <2>. QED  BY <2>1
<1>11. Owners(doc)[k] = 0
  <2>1. SUFFICES ASSUME Owners(doc)[k] # 0 PROVE FALSE
    OBVIOUS
  <2>2. PICK h : h = Owners(doc)[k]
    OBVIOUS
  <2>3. /\ h \in 1..k - 1 /\ doc[h].kind = "header" /\ h \in Nat
        /\ \A n \in h + 1..k : n \in 1..Len(doc) /\ Owners(doc)[n] = h
    BY <1>9, <2>1, <2>2, OwnerBetween
  <2>4. h < m
    <3>1. h # m /\ h \notin m + 1..k - 1
      BY <1>7, <1>10, <2>3
    <3>. QED  BY <1>6, <1>9, <2>3, <3>1
  <2>5. m \in h + 1..k
    BY <1>6, <1>9, <2>3, <2>4
  <2>6. Owners(doc)[m] # 0
    BY <2>1, <2>2, <2>3, <2>5
  <2>. QED  BY <1>6, <1>7, <2>6, OwnedKept
<1>12. ASSUME NEW n \in i + 1..k - 1
       PROVE  doc[n].kind \in {"blank", "comment"} \/ Owners(doc)[n] = i
  <2>1. CASE n < m
    <3>1. n \in 1..Len(doc) /\ n \in Nat /\ i \in 1..n - 1
      BY <1>2, <1>9, LenProperties, SMTT(30)
    <3>2. ASSUME NEW l \in i + 1..n PROVE doc[l].kind = "blank" \/ doc[l].indent > doc[i].key
      <4>1. l < m /\ l \in i + 1..j /\ l \in Nat
        BY <1>2, <1>6, <2>1, <3>1
      <4>2. ~(m <= l)
        BY <1>6, <4>1
      <4>3. l \notin Short
        BY <1>5, <4>2
      <4>. QED  BY <4>1, <4>3
    <3>3. i \in Over(doc, Owners(doc), n)
      BY <1>3, <3>1, <3>2 DEF Over
    <3>. QED  BY <3>1, <3>3, OwnerFacts
  <2>2. CASE n = m
    BY <1>7, <2>2
  <2>3. CASE m < n
    <3>1. n \in m + 1..k - 1
      BY <1>2, <1>6, <1>9, <2>3
    <3>. QED  BY <1>10, <3>1
  <2>4. n \in Nat
    BY <1>2
  <2>. QED  BY <1>6, <2>1, <2>2, <2>3, <2>4
<1>13. doc[k].indent <= doc[i].key
  BY <1>2, <1>3, <1>9, <1>11, <1>12, NextIsShallow
<1>14. k \in LeftOf(doc)
  <2>1. ~Dropped(doc, k)
    BY <1>9 DEF Dropped
  <2>. QED  BY <1>9, <2>1, LeftFacts
<1>15. doc[k].indent > doc[i].key
  BY <1>4, <1>9, <1>14
<1>16. doc[k].indent \in Nat
  BY <1>9, LineFacts
<1>. QED  BY <1>3, <1>13, <1>15, <1>16, SMTT(30)

\* A line of a scalar is left in it, and no other line that says something gets in.
LEMMA OwnersKept ==
  ASSUME NEW doc \in Seq(Line), IsYaml(doc), NEW q \in 1..Len(Strip(doc))
  PROVE  /\ Owners(doc)[From(doc)[q]] # 0 =>
              /\ Owners(Strip(doc))[q] \in 1..q - 1
              /\ From(doc)[Owners(Strip(doc))[q]] = Owners(doc)[From(doc)[q]]
         /\ Owners(doc)[From(doc)[q]] = 0 /\ Strip(doc)[q].kind # "blank" =>
              Owners(Strip(doc))[q] = 0
<1>0. PICK nd, own, O, num :
        nd = Strip(doc) /\ own = Owners(nd) /\ O = Owners(doc) /\ num = From(doc)
  OBVIOUS
<1> DEFINE In(r)  == O[num[r]] # 0 => own[r] \in 1..r - 1 /\ num[own[r]] = O[num[r]]
           Out(r) == O[num[r]] = 0 /\ nd[r].kind # "blank" => own[r] = 0
           T == {r \in Nat : In(r) /\ Out(r)}
<1>1. nd \in Seq(Line) /\ Len(nd) \in Nat /\ \A r \in 1..Len(nd) : r \in Nat
  BY <1>0, FromFacts, LenProperties
<1>2. ASSUME NEW r \in 1..Len(nd), \A p \in 1..r - 1 : p \in T
      PROVE  r \in T
  <2>1. r \in Nat /\ \A p \in 1..r - 1 : p \in 1..Len(nd) /\ p \in Nat /\ p < r
    BY <1>1
  <2>2. num[r] \in 1..Len(doc) /\ num[r] \in Nat /\ nd[r] = doc[num[r]]
    BY <1>0, FromFacts
  <2>3. ASSUME O[num[r]] # 0 PROVE own[r] \in 1..r - 1 /\ num[own[r]] = O[num[r]]
    <3>1. PICK i : i = O[num[r]]
      OBVIOUS
    <3>2. /\ i \in 1..num[r] - 1 /\ i \in 1..Len(doc) /\ i \in Nat
          /\ doc[i].kind = "header" /\ O[i] = 0
          /\ \A m \in i + 1..num[r] : doc[m].kind = "blank" \/ doc[m].indent > doc[i].key
      BY <1>0, <2>2, <2>3, <3>1, OwnerBetween, SMTT(30)
    <3>3. i \in LeftOf(doc)
      BY <3>2, LeftFacts DEF Dropped
    <3>4. PICK p \in 1..Len(nd) : num[p] = i
      BY <1>0, <3>3, FromFacts
    <3>5. p < r /\ p \in 1..r - 1
      <4>1. num[p] < num[r]
        BY <2>2, <3>2, <3>4
      <4>2. p < r
        BY <1>0, <4>1, FromFacts
      <4>. QED  BY <1>1, <4>2
    <3>6. nd[p] = doc[i]
      BY <1>0, <3>4, FromFacts
    <3>7. own[p] = 0
      <4>1. nd[p].kind # "blank" /\ O[num[p]] = 0
        BY <3>2, <3>4, <3>6
      <4>. QED  BY <1>2, <3>5, <4>1
    <3>8. ASSUME NEW m \in p + 1..r PROVE nd[m].kind = "blank" \/ nd[m].indent > nd[p].key
      <4>1. m \in 1..Len(nd) /\ p < m /\ (m < r \/ m = r)
        BY <1>1
      <4>2. num[m] \in Nat /\ num[p] < num[m] /\ (num[m] < num[r] \/ num[m] = num[r])
        BY <1>0, <4>1, FromFacts
      <4>3. num[m] \in i + 1..num[r]
        BY <2>2, <3>2, <3>4, <4>2, SMTT(30)
      <4>4. doc[num[m]].kind = "blank" \/ doc[num[m]].indent > doc[i].key
        BY <3>2, <4>3
      <4>5. nd[m] = doc[num[m]]
        BY <1>0, <4>1, FromFacts
      <4>. QED  BY <3>6, <4>4, <4>5
    <3>9. nd[p].kind = "header"
      BY <3>2, <3>6
    <3>10. p \in Over(nd, own, r)
      BY <3>5, <3>7, <3>8, <3>9 DEF Over
    <3>11. own[r] = p
      BY <1>0, <1>1, <3>10, OwnerFacts
    <3>. QED  BY <3>1, <3>4, <3>5, <3>11
  <2>4. ASSUME O[num[r]] = 0, nd[r].kind # "blank" PROVE own[r] = 0
    <3>1. SUFFICES ASSUME own[r] # 0 PROVE FALSE
      OBVIOUS
    <3>2. PICK p : p = own[r] /\ p \in Over(nd, own, r)
      BY <1>0, <1>1, <3>1, OwnerFacts
    <3>3. p \in 1..r - 1 /\ own[p] = 0
      BY <3>2 DEF Over
    <3>4. O[num[p]] = 0
      <4>1. In(p) /\ p \in Nat
        BY <1>2, <3>3
      <4>2. own[p] \notin 1..p - 1
        BY <3>3
      <4>. QED  BY <4>1, <4>2
    <3>. QED  BY <1>0, <2>4, <3>2, <3>3, <3>4, OutStaysOut
  <2>. QED  BY <2>1, <2>3, <2>4
<1>3. 1..Len(nd) \subseteq T
  <2> HIDE DEF T
  <2>1. 1 \in Nat
    OBVIOUS
  <2>. QED  BY <1>1, <1>2, <2>1, Induction
<1>4. q \in T
  <2> HIDE DEF T
  <2>. QED  BY <1>0, <1>3
<1>. QED  BY <1>0, <1>4

\* The lines of a header's body that are not blank are all left.
LEMMA BodyLeft ==
  ASSUME NEW doc \in Seq(Line), NEW j \in 1..Len(doc), Owners(doc)[j] # 0
  PROVE  /\ ~Dropped(doc, j)
         /\ doc[j].kind # "blank" => j \in LeftOf(doc)
         /\ doc[j].kind # "blank" => \E q \in 1..Len(Strip(doc)) : From(doc)[q] = j
<1>1. ~Dropped(doc, j)
  BY OwnedKept
<1>2. doc[j].kind # "blank" => j \in LeftOf(doc)
  BY <1>1, LeftFacts
<1>. QED  BY <1>1, <1>2, FromFacts

\* Where a scalar's text ends.
Ended(doc, owners, j) ==
  \E first, m \in owners[j] + 1..j :
    /\ doc[first].kind # "blank" /\ doc[m].kind # "blank"
    /\ \A l \in owners[j] + 1..first - 1 : doc[l].kind = "blank"
    /\ doc[m].indent < doc[first].indent

LEMMA EndedKept ==
  ASSUME NEW doc \in Seq(Line), IsYaml(doc), NEW q \in 1..Len(Strip(doc)),
         Owners(doc)[From(doc)[q]] # 0
  PROVE  Ended(Strip(doc), Owners(Strip(doc)), q) <=> Ended(doc, Owners(doc), From(doc)[q])
<1>0. PICK nd, num, j, i, p :
        /\ nd = Strip(doc) /\ num = From(doc) /\ j = num[q]
        /\ i = Owners(doc)[j] /\ p = Owners(nd)[q]
  OBVIOUS
<1>1. p \in 1..q - 1 /\ num[p] = i /\ p \in 1..Len(nd) /\ p \in Nat /\ q \in Nat
  <2>1. p \in 1..q - 1 /\ num[p] = i /\ q \in Nat
    BY <1>0, OwnersKept, FromFacts
  <2>. QED  BY <1>0, <2>1, FromFacts, LenProperties
<1>2. /\ j \in 1..Len(doc) /\ j \in Nat /\ i \in Nat /\ i \in 1..j - 1
      /\ \A m \in i + 1..j : m \in 1..Len(doc) /\ Owners(doc)[m] = i
  <2>1. j \in 1..Len(doc) /\ i # 0 /\ i = Owners(doc)[j]
    BY <1>0, FromFacts
  <2>. QED  BY <2>1, OwnerBetween
\* Places in the body, there and back.
<1>3. ASSUME NEW r \in p + 1..q
      PROVE  r \in 1..Len(nd) /\ num[r] \in i + 1..j /\ nd[r] = doc[num[r]] /\ num[r] \in Nat
  <2>1. r \in 1..Len(nd) /\ p < r /\ (r < q \/ r = q)
    BY <1>0, <1>1, FromFacts, LenProperties
  <2>2. num[r] \in Nat /\ num[p] < num[r] /\ (num[r] < j \/ num[r] = j) /\ nd[r] = doc[num[r]]
    BY <1>0, <1>1, <2>1, FromFacts, SMTT(30)
  <2>. QED  BY <1>1, <1>2, <2>1, <2>2, SMTT(30)
<1>4. ASSUME NEW m \in i + 1..j, doc[m].kind # "blank"
      PROVE  \E r \in p + 1..q : num[r] = m
  <2>1. m \in 1..Len(doc) /\ Owners(doc)[m] # 0 /\ i < m /\ (m < j \/ m = j) /\ m \in Nat
    BY <1>0, <1>2
  <2>2. PICK r \in 1..Len(nd) : num[r] = m
    BY <1>0, <1>4, <2>1, BodyLeft
  <2>3. p < r /\ (r < q \/ r = q) /\ r \in Nat
    BY <1>0, <1>1, <2>1, <2>2, FromFacts, SMTT(30)
  <2>. QED  BY <1>1, <2>2, <2>3
<1>5. ASSUME Ended(nd, Owners(nd), q) PROVE Ended(doc, Owners(doc), j)
  <2>1. PICK first \in p + 1..q, m \in p + 1..q :
          /\ nd[first].kind # "blank" /\ nd[m].kind # "blank"
          /\ \A l \in p + 1..first - 1 : nd[l].kind = "blank"
          /\ nd[m].indent < nd[first].indent
    BY <1>0, <1>5 DEF Ended
  <2>2. /\ num[first] \in i + 1..j /\ num[m] \in i + 1..j
        /\ nd[first] = doc[num[first]] /\ nd[m] = doc[num[m]]
    BY <1>3
  <2>3. ASSUME NEW l \in i + 1..num[first] - 1, doc[l].kind # "blank" PROVE FALSE
    <3>1. l \in i + 1..j /\ l < num[first] /\ l \in Nat
      BY <1>2, <2>2
    <3>2. PICK r \in p + 1..q : num[r] = l
      BY <1>4, <2>3, <3>1
    <3>3. r \in 1..Len(nd) /\ first \in 1..Len(nd) /\ nd[r] = doc[l]
      BY <1>3, <3>2
    <3>4. r < first
      BY <1>0, <3>1, <3>2, <3>3, FromFacts
    <3>5. r \in p + 1..first - 1
      BY <1>1, <3>4
    <3>. QED  BY <2>1, <2>3, <3>3, <3>5
  <2>4. /\ doc[num[first]].kind # "blank" /\ doc[num[m]].kind # "blank"
        /\ doc[num[m]].indent < doc[num[first]].indent
    BY <2>1, <2>2
  <2>5. Owners(doc)[j] = i
    BY <1>0
  <2>. QED  BY <2>2, <2>3, <2>4, <2>5 DEF Ended
<1>6. ASSUME Ended(doc, Owners(doc), j) PROVE Ended(nd, Owners(nd), q)
  <2>1. PICK first \in i + 1..j, m \in i + 1..j :
          /\ doc[first].kind # "blank" /\ doc[m].kind # "blank"
          /\ \A l \in i + 1..first - 1 : doc[l].kind = "blank"
          /\ doc[m].indent < doc[first].indent
    BY <1>0, <1>6 DEF Ended
  <2>2. PICK f \in p + 1..q : num[f] = first
    BY <1>4, <2>1
  <2>3. PICK r \in p + 1..q : num[r] = m
    BY <1>4, <2>1
  <2>4. /\ nd[f] = doc[first] /\ nd[r] = doc[m]
        /\ f \in 1..Len(nd) /\ first \in Nat
    BY <1>3, <2>2, <2>3
  <2>5. ASSUME NEW l \in p + 1..f - 1 PROVE nd[l].kind = "blank"
    <3>1. l \in p + 1..q /\ l < f
      BY <1>1
    <3>2. l \in 1..Len(nd) /\ num[l] \in i + 1..j /\ num[l] \in Nat /\ nd[l] = doc[num[l]]
      BY <1>3, <3>1
    <3>3. num[l] < first
      BY <1>0, <2>2, <2>4, <3>1, <3>2, FromFacts
    <3>4. num[l] \in i + 1..first - 1
      BY <1>2, <2>4, <3>2, <3>3, SMTT(30)
    <3>. QED  BY <2>1, <3>2, <3>4
  <2>6. /\ nd[f].kind # "blank" /\ nd[r].kind # "blank"
        /\ nd[r].indent < nd[f].indent
    BY <2>1, <2>4
  <2>7. Owners(nd)[q] = p
    BY <1>0
  <2>. QED  BY <2>2, <2>3, <2>5, <2>6, <2>7 DEF Ended
<1>. QED  BY <1>0, <1>5, <1>6

------------------------------------------------------------------------------
(* What a text says is what its stripped lines say.                           *)

Text(doc) == {j \in DOMAIN doc : Owners(doc)[j] # 0 /\ ~Ended(doc, Owners(doc), j)}

\* The text goes on after a line of it.
Continues(doc, j) ==
  \E k \in Text(doc) : k > j /\ Owners(doc)[k] = Owners(doc)[j] /\ doc[k].kind # "blank"

\* A gap's first line, if the text goes on after it.
GapCounts(doc, j) == doc[j - 1].kind # "blank" /\ Continues(doc, j)

\* What stripping keeps of what a text tells.
Means(doc, j) ==
  IF j \in Text(doc) THEN doc[j].kind = "blank" => GapCounts(doc, j)
  ELSE Owners(doc)[j] = 0 /\ doc[j].kind \notin {"blank", "comment"}

LEMMA ToldOf ==
  ASSUME NEW doc
  PROVE  Told(doc) =
           {j \in DOMAIN doc :
              IF j \in Text(doc) THEN doc[j].kind = "blank" => Continues(doc, j)
              ELSE Owners(doc)[j] = 0 /\ doc[j].kind \notin {"blank", "comment"}}
<1>1. {j \in DOMAIN doc : Owners(doc)[j] # 0 /\ j \notin After(doc, Owners(doc))} = Text(doc)
  BY DEF After, Text, Ended
<1>. QED  BY <1>1 DEF Told, Continues

LEMMA ToldOnce ==
  ASSUME NEW doc
  PROVE  Told(doc) \ Repeats(doc) = {j \in DOMAIN doc : Means(doc, j)}
BY ToldOf DEF Repeats, Means, GapCounts

LEMMA TextKept ==
  ASSUME NEW doc \in Seq(Line), IsYaml(doc), NEW q \in 1..Len(Strip(doc)),
         Owners(doc)[From(doc)[q]] # 0
  PROVE  q \in Text(Strip(doc)) <=> From(doc)[q] \in Text(doc)
<1>1. /\ DOMAIN doc = 1..Len(doc) /\ DOMAIN Strip(doc) = 1..Len(Strip(doc))
      /\ From(doc)[q] \in 1..Len(doc)
  BY FromFacts, LenProperties
<1>2. Owners(Strip(doc))[q] # 0
  BY OwnersKept, FromFacts
<1>. QED  BY <1>1, <1>2, EndedKept DEF Text

\* A line of a text's gap that is left is the gap's only line, and counts after
\* stripping as it did before.
LEMMA GapKept ==
  ASSUME NEW doc \in Seq(Line), IsYaml(doc), NEW q \in 1..Len(Strip(doc)),
         Owners(doc)[From(doc)[q]] # 0, Strip(doc)[q].kind = "blank"
  PROVE  /\ Strip(doc)[q - 1].kind # "blank"
         /\ GapCounts(Strip(doc), q) <=> GapCounts(doc, From(doc)[q])
<1>0. PICK nd, num, j, i, p :
        /\ nd = Strip(doc) /\ num = From(doc) /\ j = num[q]
        /\ i = Owners(doc)[j] /\ p = Owners(nd)[q]
  OBVIOUS
<1>1. p \in 1..q - 1 /\ num[p] = i /\ p \in 1..Len(nd) /\ p \in Nat /\ q \in Nat
  <2>1. p \in 1..q - 1 /\ num[p] = i /\ q \in Nat
    BY <1>0, OwnersKept, FromFacts
  <2>. QED  BY <1>0, <2>1, FromFacts, LenProperties
<1>2. j \in 1..Len(doc) /\ j \in Nat /\ j \in LeftOf(doc) /\ nd[q] = doc[j] /\ i # 0
  BY <1>0, FromFacts
<1>3. /\ i \in 1..j - 1 /\ i \in 1..Len(doc) /\ i \in Nat /\ doc[i].kind = "header"
      /\ \A m \in i + 1..j : m \in 1..Len(doc) /\ Owners(doc)[m] = i
  BY <1>0, <1>2, OwnerBetween, SMTT(30)
<1>4. Len(nd) \in Nat /\ DOMAIN nd = 1..Len(nd) /\ DOMAIN doc = 1..Len(doc)
  BY <1>0, FromFacts, LenProperties
\* The gap's first line follows a line of the text, and that line is left too.
<1>5. /\ j - 1 \in 1..Len(doc) /\ ~Dropped(doc, j - 1) /\ doc[j - 1].kind # "blank"
  <2>1. j - 1 \in 1..Len(doc) /\ (j - 1 = i \/ j - 1 \in i + 1..j)
    BY <1>2, <1>3
  <2>2. ~Dropped(doc, j - 1)
    <3>1. CASE j - 1 = i
      BY <1>3, <3>1 DEF Dropped
    <3>2. CASE j - 1 \in i + 1..j
      BY <1>2, <1>3, <3>2, OwnedKept
    <3>. QED  BY <2>1, <3>1, <3>2
  <2>3. doc[j].kind = "blank"
    BY <1>0, <1>2
  <2>. QED  BY <1>2, <2>1, <2>2, <2>3, LeftFacts
<1>6. nd[q - 1].kind # "blank"
  <2>1. PICK l : l = j - 1 /\ l \in LeftOf(doc)
    BY <1>5, LeftFacts
  <2>2. PICK r \in 1..Len(nd) : num[r] = j - 1
    <3>1. \A m \in LeftOf(doc) : \E r \in 1..Len(nd) : num[r] = m
      BY <1>0, FromFacts
    <3>2. l \in LeftOf(doc)
      BY <2>1
    <3>3. \E r \in 1..Len(nd) : num[r] = l
      BY <3>1, <3>2
    <3>. QED  BY <2>1, <3>3
  <2>3. r < q /\ r \in Nat
    <3>1. num[r] < num[q]
      BY <1>0, <1>2, <2>2
    <3>. QED  BY <1>0, <3>1, FromFacts
  <2>4. r = q - 1
    <3>1. q - 1 \in 1..Len(nd) /\ q - 1 < q /\ (r < q - 1 \/ r = q - 1)
      BY <1>0, <1>1, <1>4, <2>3
    <3>2. num[q - 1] < j /\ num[q - 1] \in Nat
      BY <1>0, <3>1, FromFacts
    <3>3. r < q - 1 => num[r] < num[q - 1]
      BY <1>0, <3>1, FromFacts
    <3>. QED  BY <1>2, <2>2, <3>1, <3>2, <3>3
  <2>5. nd[r] = doc[j - 1]
    BY <1>0, <2>2, FromFacts
  <2>. QED  BY <1>5, <2>4, <2>5
<1>7. ASSUME NEW k \in Text(nd), k > q, Owners(nd)[k] = p, nd[k].kind # "blank"
      PROVE  \E l \in Text(doc) : l > j /\ Owners(doc)[l] = i /\ doc[l].kind # "blank"
  <2>1. k \in 1..Len(nd) /\ k \in Nat /\ Owners(nd)[k] # 0
    BY <1>0, <1>1, <1>4, <1>7, FromFacts DEF Text
  <2>2. Owners(doc)[num[k]] # 0
    BY <1>0, <1>7, <2>1, OwnersKept
  <2>3. Owners(doc)[num[k]] = i
    BY <1>0, <1>1, <1>7, <2>1, <2>2, OwnersKept
  <2>4. num[k] \in Text(doc)
    BY <1>0, <1>7, <2>1, <2>2, TextKept
  <2>5. num[k] > j /\ doc[num[k]] = nd[k]
    <3>1. q < k
      BY <1>1, <1>7, <2>1
    <3>2. num[q] < num[k] /\ num[k] \in Nat
      BY <1>0, <2>1, <3>1, FromFacts
    <3>. QED  BY <1>0, <1>2, <2>1, <3>2, FromFacts
  <2>. QED  BY <1>7, <2>3, <2>4, <2>5
<1>8. ASSUME NEW l \in Text(doc), l > j, Owners(doc)[l] = i, doc[l].kind # "blank"
      PROVE  \E k \in Text(nd) : k > q /\ Owners(nd)[k] = p /\ nd[k].kind # "blank"
  <2>1. l \in 1..Len(doc) /\ l \in Nat /\ Owners(doc)[l] # 0
    BY <1>2, <1>4, <1>8, LineFacts DEF Text
  <2>2. PICK k \in 1..Len(nd) : num[k] = l
    BY <1>0, <1>8, <2>1, BodyLeft
  <2>3. k \in Text(nd) /\ nd[k] = doc[l] /\ k \in Nat
    BY <1>0, <1>8, <2>1, <2>2, TextKept, FromFacts
  <2>4. k > q
    <3>1. num[q] < num[k]
      BY <1>0, <1>2, <1>8, <2>1, <2>2
    <3>2. q < k
      BY <1>0, <3>1, FromFacts
    <3>. QED  BY <1>1, <2>3, <3>2
  <2>5. num[Owners(nd)[k]] = num[p] /\ Owners(nd)[k] \in 1..k - 1
    BY <1>0, <1>1, <1>8, <2>1, <2>2, OwnersKept
  <2>6. Owners(nd)[k] \in 1..Len(nd)
    BY <1>4, <2>3, <2>5
  <2>7. Owners(nd)[k] = p
    BY <1>0, <1>1, <2>5, <2>6, FromFacts
  <2>. QED  BY <1>8, <2>3, <2>4, <2>7
<1>. QED  BY <1>0, <1>5, <1>6, <1>7, <1>8 DEF GapCounts, Continues

\* A blank line outside the scalars is in none after stripping, or at the end of one.
LEMMA NoGapOutside ==
  ASSUME NEW doc \in Seq(Line), IsYaml(doc), NEW q \in 1..Len(Strip(doc)),
         Owners(doc)[From(doc)[q]] = 0, q \in Text(Strip(doc))
  PROVE  ~Continues(Strip(doc), q)
<1>0. PICK nd, num, j : nd = Strip(doc) /\ num = From(doc) /\ j = num[q]
  OBVIOUS
<1>1. /\ j \in 1..Len(doc) /\ nd[q] = doc[j] /\ q \in Nat
      /\ DOMAIN nd = 1..Len(nd) /\ DOMAIN doc = 1..Len(doc)
  BY <1>0, FromFacts, LenProperties
<1>2. Owners(doc)[j] = 0
  BY <1>0
<1> SUFFICES ASSUME Continues(nd, q) PROVE FALSE
  BY <1>0
<1>3. q \in Text(nd) /\ Continues(nd, q)
  BY <1>0
<1>4. PICK k \in Text(nd) :
        k > q /\ Owners(nd)[k] = Owners(nd)[q] /\ nd[k].kind # "blank"
  BY <1>3 DEF Continues
<1>5. k \in 1..Len(nd) /\ k \in Nat /\ Owners(nd)[k] # 0
  BY <1>0, <1>1, <1>4, FromFacts DEF Text
<1>6. PICK p : p = Owners(nd)[q] /\ p \in 1..q - 1
  <2>1. nd \in Seq(Line) /\ Owners(nd)[q] # 0
    BY <1>0, <1>3, FromFacts DEF Text
  <2>2. Owners(nd)[q] \in Over(nd, Owners(nd), q)
    BY <1>0, <2>1, OwnerFacts
  <2>. QED  BY <2>2 DEF Over
<1>7. Owners(doc)[num[k]] # 0
  BY <1>0, <1>4, <1>5, OwnersKept
<1>8. PICK i : i = Owners(doc)[num[k]] /\ i = num[p]
  BY <1>0, <1>4, <1>5, <1>6, <1>7, OwnersKept
<1>9. num[k] \in 1..Len(doc) /\ num[k] \in Nat /\ j \in Nat /\ i < j /\ j < num[k]
  <2>1. p \in 1..Len(nd) /\ p < q /\ q < k
    BY <1>0, <1>1, <1>4, <1>5, <1>6, FromFacts, LenProperties
  <2>. QED  BY <1>0, <1>5, <1>8, <2>1, FromFacts
<1>10. PICK l : l = num[k] /\ l \in 1..Len(doc) /\ i = Owners(doc)[l] /\ i # 0
  BY <1>7, <1>8, <1>9
<1>11. i \in Nat /\ \A m \in i + 1..l : Owners(doc)[m] = i
  BY <1>10, OwnerBetween
<1>12. j \in i + 1..l
  BY <1>9, <1>10, <1>11
<1>. QED  BY <1>2, <1>10, <1>11, <1>12

\* A line means something in the stripped text if and only if it does in the text.
LEMMA MeansKept ==
  ASSUME NEW doc \in Seq(Line), IsYaml(doc), NEW q \in 1..Len(Strip(doc))
  PROVE  Means(Strip(doc), q) <=> Means(doc, From(doc)[q])
<1>0. PICK nd, num, j : nd = Strip(doc) /\ num = From(doc) /\ j = num[q]
  OBVIOUS
<1>1. /\ j \in 1..Len(doc) /\ nd[q] = doc[j] /\ q \in Nat
      /\ DOMAIN nd = 1..Len(nd) /\ DOMAIN doc = 1..Len(doc)
  BY <1>0, FromFacts, LenProperties
<1>2. CASE Owners(doc)[j] # 0
  <2>1. Owners(nd)[q] # 0
    BY <1>0, <1>1, <1>2, OwnersKept
  <2>2. q \in Text(nd) <=> j \in Text(doc)
    BY <1>0, <1>2, TextKept
  <2>3. nd[q].kind = "blank" => (GapCounts(nd, q) <=> GapCounts(doc, j))
    BY <1>0, <1>2, GapKept
  <2>4. Means(nd, q) <=> Means(doc, j)
    BY <1>1, <1>2, <2>1, <2>2, <2>3 DEF Means
  <2>. QED  BY <1>0, <2>4
<1>3. CASE Owners(doc)[j] = 0 /\ nd[q].kind # "blank"
  <2>1. Owners(nd)[q] = 0
    BY <1>0, <1>3, OwnersKept
  <2>2. q \notin Text(nd) /\ j \notin Text(doc)
    BY <1>3, <2>1 DEF Text
  <2>3. Means(nd, q) <=> Means(doc, j)
    BY <1>1, <1>3, <2>1, <2>2 DEF Means
  <2>. QED  BY <1>0, <2>3
<1>4. CASE Owners(doc)[j] = 0 /\ nd[q].kind = "blank"
  <2>1. ~Means(doc, j)
    BY <1>1, <1>4 DEF Means, Text
  <2>2. SUFFICES ASSUME Means(nd, q) PROVE FALSE
    BY <1>0, <2>1
  <2>. QED  BY <1>0, <1>4, <2>1, <2>2, NoGapOutside DEF Means, GapCounts
<1>. QED  BY <1>0, <1>2, <1>3, <1>4

\* Nothing that means something is dropped.
LEMMA MeansLeft ==
  ASSUME NEW doc \in Seq(Line), NEW j \in 1..Len(doc), Means(doc, j)
  PROVE  j \in LeftOf(doc)
<1>1. CASE doc[j].kind # "blank"
  <2>1. CASE Owners(doc)[j] # 0
    BY <1>1, <2>1, BodyLeft
  <2>2. CASE Owners(doc)[j] = 0
    <3>1. doc[j].kind # "comment"
      BY <2>2 DEF Means, Text
    <3>. QED  BY <1>1, <3>1, LeftFacts DEF Dropped
  <2>. QED  BY <2>1, <2>2
<1>2. CASE doc[j].kind = "blank"
  <2>1. j \in Text(doc) /\ GapCounts(doc, j)
    BY <1>2 DEF Means
  <2>2. PICK i : i = Owners(doc)[j] /\ i # 0
    BY <2>1 DEF Text
  <2>3. /\ i \in 1..j - 1 /\ i \in 1..Len(doc) /\ i \in Nat /\ j \in Nat /\ doc[i].kind = "header"
        /\ \A m \in i + 1..j : m \in 1..Len(doc) /\ Owners(doc)[m] = i
    BY <2>2, OwnerBetween
  <2>4. doc[j - 1].kind # "blank"
    BY <2>1 DEF GapCounts
  <2>5. j - 1 \in 1..Len(doc) /\ (j - 1 = i \/ j - 1 \in i + 1..j)
    BY <2>3
  <2>6. ~Dropped(doc, j - 1)
    <3>1. CASE j - 1 = i
      BY <2>3, <3>1 DEF Dropped
    <3>2. CASE j - 1 \in i + 1..j
      BY <2>2, <2>3, <3>2, OwnedKept
    <3>. QED  BY <2>5, <3>1, <3>2
  <2>7. PICK k \in Text(doc) : k > j /\ Owners(doc)[k] = i /\ doc[k].kind # "blank"
    BY <2>1, <2>2 DEF GapCounts, Continues
  <2>8. k \in 1..Len(doc) /\ k \in Nat /\ j < k
    BY <2>3, <2>7, LenProperties DEF Text
  <2>9. ~Dropped(doc, k) /\ ~Dropped(doc, j)
    BY <2>2, <2>7, <2>8, OwnedKept
  <2>. QED  BY <2>4, <2>5, <2>6, <2>7, <2>8, <2>9, LeftFacts
<1>. QED  BY <1>1, <1>2

\* No gap of a stripped text repeats: all that it tells stays by another stripping.
LEMMA NothingRepeats ==
  ASSUME NEW doc \in Seq(Line), IsYaml(doc)
  PROVE  Told(Strip(doc)) = {q \in DOMAIN Strip(doc) : Means(Strip(doc), q)}
<1>0. PICK nd : nd = Strip(doc)
  OBVIOUS
<1>1. DOMAIN nd = 1..Len(nd)
  BY <1>0, FromFacts, LenProperties
<1>2. ASSUME NEW q \in 1..Len(nd), q \in Text(nd), nd[q].kind = "blank", Continues(nd, q)
      PROVE  nd[q - 1].kind # "blank"
  <2>1. Owners(doc)[From(doc)[q]] # 0
    BY <1>0, <1>2, NoGapOutside
  <2>. QED  BY <1>0, <1>2, <2>1, GapKept
<1>3. ASSUME NEW q \in 1..Len(nd)
      PROVE  Means(nd, q) <=> IF q \in Text(nd)
                                THEN nd[q].kind = "blank" => Continues(nd, q)
                                ELSE Owners(nd)[q] = 0 /\ nd[q].kind \notin {"blank", "comment"}
  BY <1>2 DEF Means, GapCounts
<1>. QED  BY <1>0, <1>1, <1>3, ToldOf

\* strip_yaml_comments takes nothing of what a text says but repeated blank lines of a
\* scalar, whatever its length, its depth and the order of comments, blank lines and
\* block scalars in it.
THEOREM StripLosesGapsOnly ==
  ASSUME NEW doc \in Seq(Line)
  PROVE  LosesGapsOnly(doc)
<1> SUFFICES ASSUME IsYaml(doc)
             PROVE  Meaning(Strip(doc)) = At(doc, Told(doc) \ Repeats(doc))
  BY DEF LosesGapsOnly
<1>0. PICK nd, left, M, Q :
        /\ nd = Strip(doc) /\ left = LeftOf(doc)
        /\ M = {j \in DOMAIN doc : Means(doc, j)} /\ Q = {q \in DOMAIN nd : Means(nd, q)}
  OBVIOUS
<1>1. /\ nd = At(doc, left) /\ left \subseteq DOMAIN doc /\ DOMAIN doc = 1..Len(doc)
      /\ DOMAIN nd = 1..Len(nd) /\ Len(nd) = Cardinality(left)
  BY <1>0, LeftFacts, FromFacts, LenProperties
<1>2. Q \subseteq 1..Cardinality(left)
  BY <1>0, <1>1
<1>3. At(nd, Q) = At(doc, Places(left, Q))
  BY <1>1, <1>2, AtAt, ZenonT(30)
<1>4. Places(left, Q) = M
  <2>1. ASSUME NEW q \in Q PROVE Place(left)[q] \in M
    <3>1. q \in 1..Len(nd) /\ Means(nd, q)
      BY <1>0, <1>1
    <3>2. From(doc)[q] \in 1..Len(doc) /\ Means(doc, From(doc)[q])
      BY <1>0, <3>1, MeansKept, FromFacts
    <3>. QED  BY <1>0, <1>1, <3>2 DEF From
  <2>2. ASSUME NEW j \in M PROVE \E q \in Q : Place(left)[q] = j
    <3>1. j \in 1..Len(doc) /\ Means(doc, j)
      BY <1>0, <1>1
    <3>2. PICK q \in 1..Len(nd) : From(doc)[q] = j
      BY <1>0, <3>1, MeansLeft, FromFacts
    <3>3. Means(nd, q)
      BY <1>0, <3>1, <3>2, MeansKept
    <3>. QED  BY <1>0, <1>1, <3>2, <3>3 DEF From
  <2>. QED  BY <2>1, <2>2 DEF Places
<1>5. Meaning(nd) = At(nd, Q) /\ Told(doc) \ Repeats(doc) = M
  BY <1>0, NothingRepeats, ToldOnce DEF Meaning
<1>. QED  BY <1>0, <1>3, <1>4, <1>5

==============================================================================
