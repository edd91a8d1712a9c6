----------------------------- MODULE MCEvaluation -----------------------------
(***************************************************************************)
(* Corpora of two cases, the ways an execution can go, and policies.       *)
(***************************************************************************)
EXTENDS Integers

ACase(name, disposition) ==
  [name |-> name, disposition |-> disposition, tags |-> {"language", "context.stale_source"}, source |-> TRUE,
   codes |-> IF disposition = "must_abstain" THEN {} ELSE {"network"},
   facts |-> IF disposition = "must_abstain" THEN {} ELSE {"port"},
   relations |-> IF disposition = "required" THEN {"refusal"} ELSE {},
   forbidden |-> {"claim"},
   citations |-> IF disposition = "required" THEN 2 ELSE 0]

(* A cause is demanded and no fact of it named: not a valid corpus.        *)
Unfounded == <<[ACase(1, "required") EXCEPT !.facts = {}]>>

MCCorpora ==
  {<<ACase(1, "required"), ACase(2, "must_abstain")>>, <<ACase(1, "required"), ACase(2, "allowed")>>,
   <<ACase(2, "required"), ACase(1, "required")>>, Unfounded}

Caused ==
  [fails |-> "no", invoked |-> TRUE, accepted |-> TRUE, causes |-> {"network"}, told |-> {"port", "refusal"},
   cites |-> 2, primary |-> TRUE, retry |-> TRUE, cited |-> TRUE, expected |-> TRUE, safe |-> TRUE,
   stable |-> TRUE, fallback |-> FALSE, mismatch |-> TRUE, discloses |-> FALSE]

Abstained == [Caused EXCEPT !.causes = {}, !.told = {}]

MCAnswers ==
  {Caused, Abstained,
   [Caused EXCEPT !.causes = {"disk"}],
   [Caused EXCEPT !.told = {"port"}],
   [Caused EXCEPT !.told = {"port", "refusal", "claim"}, !.cites = 3],
   [Caused EXCEPT !.primary = FALSE, !.mismatch = FALSE],
   [Abstained EXCEPT !.accepted = FALSE, !.fallback = TRUE],
   [Abstained EXCEPT !.accepted = FALSE, !.invoked = FALSE],
   [Abstained EXCEPT !.fails = "diagnose"],
   [Abstained EXCEPT !.fails = "evidence"]}

Without == -1
Bound(least, most, denominator) == [least |-> least, most |-> most, denominator |-> denominator]

(* The shape of testdata/evaluation/promotion-policy.json, and one that    *)
(* asks for less.                                                          *)
Strict ==
  [unique |-> 2, repeats |-> 2, invoked |-> 4, comparisons |-> 2, sources |-> 4,
   tags |-> [language |-> 2],
   metrics |-> [primary_code_precision |-> Bound(100, Without, 4), citation_validity |-> Bound(100, Without, 4),
                provider_fallback_rate |-> Bound(Without, 0, 4), unsupported_claim_rate |-> Bound(Without, 0, 0),
                abstention_accuracy |-> Bound(100, Without, 0), useful_diagnosis_rate |-> Bound(100, Without, 2)]]

Lenient ==
  [Strict EXCEPT !.metrics = [primary_code_precision |-> Bound(75, Without, 4),
                              abstention_accuracy |-> Bound(100, Without, 0),
                              useful_diagnosis_rate |-> Bound(75, Without, 1)]]

MCPolicies == {Strict, Lenient, [Lenient EXCEPT !.repeats = 1]}
===============================================================================
