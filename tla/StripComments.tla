--------------------------- MODULE StripComments ---------------------------
(***************************************************************************)
(* strip_yaml_comments of scripts/sync-templates-to-controller.sh, which   *)
(* rewrites every template on its way to the controller: one pass that     *)
(* drops comment lines and must know a block scalar's body, where a line   *)
(* that begins with # is text, by indentation alone.                       *)
(* A line is its indentation, the column of its key (behind a dash it is   *)
(* further right) and what the pass or YAML can tell of the rest.          *)
(***************************************************************************)
EXTENDS Naturals, FiniteSets, Sequences

\* "header": key: followed by | or > and nothing but indicators, or a comment.  The
\* pass knows no other way to open a block scalar (- |, a tag, a # or : in the key),
\* and no # at the start of a line of a quoted scalar: none is in these documents.
Line ==
  {l \in [indent : Nat, key : Nat, kind : {"blank", "comment", "plain", "header"}] :
     l.indent <= l.key}

\* The elements of a sequence at these places.
At(seq, places) ==
  [n \in 1..Cardinality(places) |->
     seq[CHOOSE i \in places : Cardinality({j \in places : j <= i}) = n]]

------------------------------------------------------------------------------
(* The pass.                                                                  *)

\* Seeded fault: a blank line ends the body.
InsideUntilBlank(st, ln) == st.block # {} /\ \A i \in st.block : ln.indent > i

\* The body of the header at st.block goes on.
Inside(st, ln) == st.block # {} /\ (ln.kind = "blank" \/ \A i \in st.block : ln.indent > i)

Scan(st, ln) ==
  IF Inside(st, ln) THEN [st EXCEPT !.out = Append(@, ln)]
  ELSE IF ln.kind = "comment" THEN [st EXCEPT !.block = {}]
  ELSE [block |-> IF ln.kind = "header" THEN {ln.indent} ELSE {}, out |-> Append(st.out, ln)]

\* Blank lines in a row become one, and the file neither begins nor ends with one.
Collapse(out) ==
  LET kept == {i \in DOMAIN out : out[i].kind = "blank" =>
                 /\ i > 1 /\ out[i - 1].kind # "blank"
                 /\ \E j \in i + 1..Len(out) : out[j].kind # "blank"}
  IN  At(out, kept)

\* What the pass has after each line.
Scanned(doc) ==
  LET scan[n \in 0..Len(doc)] ==
        IF n = 0 THEN [block |-> {}, out |-> <<>>] ELSE Scan(scan[n - 1], doc[n])
  IN  scan

Strip(doc) == Collapse(Scanned(doc)[Len(doc)].out)

------------------------------------------------------------------------------
(* What YAML makes of a document.                                             *)

\* The headers whose block scalar extends to line j, given the owners of the lines
\* before: every line in between is blank or deeper than the key.
Over(doc, before, j) ==
  {i \in 1..j - 1 :
     /\ doc[i].kind = "header" /\ before[i] = 0
     /\ \A m \in i + 1..j : doc[m].kind = "blank" \/ doc[m].indent > doc[i].key}

\* The owner of every line up to each: its header, or 0.
Owned(doc) ==
  LET owners[j \in 0..Len(doc)] ==
        IF j = 0 THEN <<>>
        ELSE LET before == owners[j - 1]
                 over   == Over(doc, before, j)
             IN  Append(before, IF over = {} THEN 0 ELSE CHOOSE i \in over : TRUE)
  IN  owners

Owners(doc) == Owned(doc)[Len(doc)]

\* Lines of a scalar's region that are no text: its first line sets the indentation,
\* and the first line after it that falls short ends the text.
After(doc, owners) ==
  {j \in DOMAIN doc : owners[j] # 0 /\
     \E first, m \in owners[j] + 1..j :
       /\ doc[first].kind # "blank" /\ doc[m].kind # "blank"
       /\ \A l \in owners[j] + 1..first - 1 : doc[l].kind = "blank"
       /\ doc[m].indent < doc[first].indent}

\* Only comments may follow the text there, and what comes next is no deeper than the key.
IsYaml(doc) ==
  LET owners == Owners(doc)
      silent(j) == doc[j].kind \in {"blank", "comment"}
  IN  /\ \A j \in After(doc, owners) : silent(j)
      /\ \A i, j \in DOMAIN doc :
           /\ i < j /\ doc[i].kind = "header" /\ owners[i] = 0
           /\ ~silent(j) /\ owners[j] = 0
           /\ \A m \in i + 1..j - 1 : silent(m) \/ owners[m] = i
           => doc[j].indent <= doc[i].key

\* The lines that say something: structure, and the text of every scalar, its gaps
\* included but not the blank lines at its end.
Told(doc) ==
  LET owners == Owners(doc)
      after  == After(doc, owners)
      text   == {j \in DOMAIN doc : owners[j] # 0 /\ j \notin after}
      tells(j) ==
        IF j \in text
          THEN doc[j].kind = "blank" =>
                 \E k \in text : k > j /\ owners[k] = owners[j] /\ doc[k].kind # "blank"
          ELSE owners[j] = 0 /\ doc[j].kind \notin {"blank", "comment"}
  IN  {j \in DOMAIN doc : tells(j)}

Meaning(doc) == At(doc, Told(doc))

\* The lines of a scalar's gaps after the first of each gap.
Repeats(doc) == {j \in Told(doc) : doc[j].kind = "blank" /\ doc[j - 1].kind = "blank"}

\* Stripping keeps what a text says line for line, whatever comments, blank lines and
\* block scalars follow each other in it, but for this: a gap of several blank lines in
\* a scalar is left with one.
LosesGapsOnly(doc) ==
  IsYaml(doc) => Meaning(Strip(doc)) = At(doc, Told(doc) \ Repeats(doc))

==============================================================================
