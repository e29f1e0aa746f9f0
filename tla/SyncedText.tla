---------------------------- MODULE SyncedText ----------------------------
(***************************************************************************)
(* TemplateSync with the texts it handles: what emit_template writes is    *)
(* what the comment stripper leaves of a document.                         *)
(***************************************************************************)
EXTENDS TemplateSync, StripComments

ASSUME EmitAssumption == \A d \in Document : d \in Seq(Line) /\ Emit[d] = Strip(d)

\* The chart files of a name: on the controller's default branch and on the sync branch.
Published(n) == {library[n], branch.files[n]} \ {Absent}

\* Whatever the controller's library holds of a template, or the sync branch proposes,
\* was made from a text that catalog main has held under that name, and says what that
\* text says but for the length of gaps in a scalar, which become one blank line: no #
\* line of an agent's prompt is lost, however the templates were pushed and merged.
\* (strip_yaml_comments knows a block scalar's body by indentation alone.)
PublishedLosesGapsOnly ==
  /\ \A n \in TemplateName : \A file \in Published(n) :
       file \in merged[n] /\ \E d \in Document : Emit[d] = file
  /\ \A d \in Document :
       (\E n \in TemplateName : Emit[d] \in Published(n)) /\ IsYaml(d)
         => Meaning(Emit[d]) = At(d, Told(d) \ Repeats(d))

\* What the script says of a block scalar: it "copies their body verbatim".
BodiesVerbatim ==
  \A n \in TemplateName :
    LET d == templates[n]
    IN  d # Absent /\ Emit[d] \in Published(n) /\ IsYaml(d) => Meaning(Emit[d]) = Meaning(d)

==============================================================================
