-------------------------- MODULE MCTemplateSync --------------------------
(* Two templates and an example, whose texts have a scalar with # lines and   *)
(* gaps in it; v1 and c1 differ in comments and blank lines only, v1 and v2   *)
(* in a # line of the scalar.                                                 *)
EXTENDS SyncedText, TLC

CONSTANTS r1, r2, a, b, example

LineOf(i, kind) == [indent |-> i, key |-> i, kind |-> kind]

key     == LineOf(0, "plain")
goal    == LineOf(0, "header")
item    == [goal EXCEPT !.key = 1]
remark  == LineOf(0, "comment")
blank   == LineOf(0, "blank")
hash    == LineOf(2, "comment")
word    == LineOf(2, "plain")

v1 == <<goal, hash, blank, hash, remark, key>>
c1 == <<remark, goal, hash, blank, blank, hash, key, remark>>
v2 == <<goal, word, blank, hash, item, hash>>

Texts == {v1, c1, v2}

ASSUME TextsAssumption == \A d \in Texts : IsYaml(d)

\* Definitions TLC evaluates once; what a .cfg puts in for a constant it evaluates at
\* every use.
Outcome == v1 :> Strip(v1) @@ c1 :> Strip(c1) @@ v2 :> Strip(v2)
Stripped == Outcome

Of(n, v) == [Nothing EXCEPT ![n] = v]

Few == { Nothing, Of(a, v1), [Of(a, v2) EXCEPT ![b] = v1],
         [Of(a, c1) EXCEPT ![example] = v1] }
FewTemplates == Few

Charts == {Outcome[d] : d \in Texts}
ChartFiles == Charts
==============================================================================
