-------------------------- MODULE MCStripComments --------------------------
(* Every text of up to five lines, of every kind and at up to three depths, a *)
(* header behind a dash included.                                             *)
EXTENDS StripComments

LineOf(i, kind) == [indent |-> i, key |-> i, kind |-> kind]
DashedHeader == [indent |-> 0, key |-> 1, kind |-> "header"]

SomeLines ==
  {LineOf(0, "blank"), DashedHeader}
  \cup {LineOf(i, "header") : i \in 0..1}
  \cup {LineOf(i, kind) : i \in 0..2, kind \in {"comment", "plain"}}

Texts == UNION {[1..n -> SomeLines] : n \in 0..5}

ASSUME TextsAssumption == \A doc \in Texts : LosesGapsOnly(doc)
==============================================================================
