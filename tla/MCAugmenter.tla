----------------------------- MODULE MCAugmenter -----------------------------
(***************************************************************************)
(* A small instance of Augmenter: four pieces of evidence, two engine      *)
(* reports, and the product of provider answers good and bad in every part *)
(* validation looks at.                                                    *)
(***************************************************************************)
EXTENDS Augmenter

MCEvidence   == {"item", "log", "trace", "snippet"}
MCLogContent == {"log", "trace"}
MCSource     == {"snippet"}

MCGeneratedCodes == {"generated.core_dump", "generated.config"}
MCGuidanceFor    == [access_denied |-> "review_target_access", defect |-> "review_defect"]

Finding(n, code, support, target) ==
  [id |-> <<n, code>>, code |-> code, text |-> code, support |-> support,
   target |-> target, generated |-> FALSE]

Report(findings, actions, cited, missing, warnings) ==
  [findings |-> findings, actions |-> actions, cited |-> cited, missing |-> missing,
   warnings |-> warnings, mode |-> "deterministic", invoked |-> FALSE, used |-> FALSE,
   disclosed |-> {}]

Inspect == [id |-> "a1", code |-> "inspect_logs", support |-> {"item"}]
Review  == [id |-> "a2", code |-> "review_defect", support |-> {}]

MCBases ==
  {Report(<<Finding(1, "nonzero_exit", {"item"}, FALSE)>>, <<Inspect>>, {"item"}, <<>>, <<>>),
   Report(<<Finding(1, "target_defect", {"trace"}, TRUE), Finding(2, "defect", {"item", "log"}, FALSE)>>,
          <<Inspect, Review>>, {"item", "log", "trace"}, <<"logs_not_collected">>,
          <<"log_content_is_untrusted">>)}

Hypothesis(code, text, support, acceptable) ==
  [code |-> code, text |-> text, support |-> support, contradicts |-> {}, acceptable |-> acceptable]

MCHypotheses ==
  {<<>>,
   <<Hypothesis("access_denied", "t1", {"log"}, TRUE)>>,
   <<Hypothesis("defect", "t1", {"item", "log"}, TRUE)>>,
   <<Hypothesis("unknown", "t1", {"item", "snippet"}, TRUE)>>,
   <<Hypothesis("access_denied", "t1", {"log"}, FALSE)>>,
   <<Hypothesis("access_denied", "t1", {"log"}, TRUE), Hypothesis("unknown", "t2", {"log"}, TRUE)>>}

MCActions == {<<>>, <<"a2">>, <<"a2", "a1">>, <<"a1", "a1">>, <<"absent">>}
MCMissing == {<<>>, <<"generated.config">>, <<"generated.config", "generated.config">>, <<"logs_not_collected">>}

Answers(hypotheses, actions, missing, flags) ==
  {[genuine |-> g, proposal |-> [wellFormed |-> w, hypotheses |-> h, actions |-> a, missing |-> m]] :
     <<g, w>> \in flags, h \in hypotheses, a \in actions, m \in missing}

MCResponses ==
  Answers(MCHypotheses, MCActions, MCMissing, {<<TRUE, TRUE>>})
    \cup Answers(MCHypotheses, {<<>>}, {<<>>}, {<<TRUE, FALSE>>, <<FALSE, TRUE>>})

=============================================================================
