----------------------------- MODULE Evaluation ------------------------------
(***************************************************************************)
(* The release gate: RunWithOptions of internal/evaluation runs every case *)
(* of a corpus a number of times, one after the other, adds up what it     *)
(* counted, and AssessPromotion compares the metrics with a policy.        *)
(*                                                                         *)
(* What one execution gave is an answer: how far it came, and what the     *)
(* comparisons of runCase with the report found; "expected" stands for the *)
(* labels that are compared and not counted: confidence, finding and       *)
(* action codes.  Texts are what they are matched against: the named       *)
(* facts, relations and claims they contain.                               *)
(* Bounds of a policy are percentages; NoBound is an absent one.           *)
(*                                                                         *)
(* Operators named Bug... are deliberate mistakes no definition uses: put  *)
(* in place of the definition that follows them, each breaks the property  *)
(* PROJECT.json pairs it with.                                             *)
(***************************************************************************)
EXTENDS Naturals, Integers, SequencesExt

CONSTANTS
  Corpora,           \* the corpora that may be evaluated
  PromotionPolicies, \* promotion policies
  Answers,           \* what one execution may give
  Repeats,           \* executions of each case, 1 to 20
  WithSource         \* source context is enabled

(* A case and its labels.                                                  *)
Labels ==
  [name : Nat, disposition : STRING, tags : SUBSET STRING, source : BOOLEAN, codes : SUBSET STRING,
   facts : SUBSET STRING, relations : SUBSET STRING, forbidden : SUBSET STRING, citations : Int]

(* What one execution gave.                                                *)
Outcomes ==
  [fails : STRING, invoked : BOOLEAN, accepted : BOOLEAN, causes : SUBSET STRING, told : SUBSET STRING,
   cites : Nat, primary : BOOLEAN, retry : BOOLEAN, cited : BOOLEAN, expected : BOOLEAN, safe : BOOLEAN,
   stable : BOOLEAN, fallback : BOOLEAN, mismatch : BOOLEAN, discloses : BOOLEAN]

(* The texts of a case and of a report are finite; bounds are numbers.     *)
ASSUME EvaluationAssumption ==
  /\ Repeats \in Nat \ {0}
  /\ WithSource \in BOOLEAN
  /\ \A cases \in Corpora :
       /\ cases \in Seq(Labels)
       /\ \A i \in DOMAIN cases :
            IsFiniteSet(cases[i].facts) /\ IsFiniteSet(cases[i].relations) /\ IsFiniteSet(cases[i].forbidden)
  /\ Answers \subseteq Outcomes
  /\ \A answer \in Answers : IsFiniteSet(answer.causes)
  /\ \A p \in PromotionPolicies :
       /\ p.invoked \in Int
       /\ \A name \in DOMAIN p.metrics :
            p.metrics[name] \in [least : Int, most : Int, denominator : Int]

VARIABLES
  stage,     \* "run", "done", "aborted" or "refused"
  corpus,    \* the cases, a sequence
  policy,    \* the policy the result was assessed with
  live,      \* the mode was a live one
  results,   \* one result per execution, in order
  totals,    \* what was counted so far
  first,     \* signature of the first iteration of the case under way
  assessment \* violations of the policy

evaluation == <<stage, corpus, policy, live, results, totals, first, assessment>>

-----------------------------------------------------------------------------
(* The corpus.                                                             *)

ValidGeneratedExpectations(c) ==
  /\ c.disposition \in {"required", "allowed", "must_abstain"}
  /\ c.citations \in 0 .. 8
  /\ c.disposition = "required" => c.codes # {} /\ c.facts # {}
  /\ c.disposition = "must_abstain" => c.codes = {} /\ c.facts = {} /\ c.relations = {} /\ c.citations = 0

MaximumCases == 512

ValidCorpus(cases) ==
  /\ cases # <<>> /\ Len(cases) <= MaximumCases
  /\ \A i, j \in DOMAIN cases : i < j => cases[i].name < cases[j].name
  /\ \A i \in DOMAIN cases : cases[i].tags # {} /\ ValidGeneratedExpectations(cases[i])

-----------------------------------------------------------------------------
(* One execution.  A counter that is not named counts nothing.             *)

Counted ==
  {"primary", "citations", "retry", "stable", "fallback", "actions", "safe", "claims", "unsupported",
   "invoked", "accepted", "required", "useful", "taxonomyCases", "taxonomy", "factsExpected", "facts",
   "relationsExpected", "relations", "abstentions", "abstained", "forbiddenChecks", "forbidden",
   "economyCases", "economical", "comparisons", "consistent", "sources", "mismatches"}

Counts(named) == [name \in Counted |-> IF name \in DOMAIN named THEN named[name] ELSE 0]
Nothing == [name \in Counted |-> 0]
One(condition) == IF condition THEN 1 ELSE 0
Broken(condition, name) == IF condition THEN {} ELSE {name}
Added(a, b) == [name \in Counted |-> a[name] + b[name]]

Unsupported(c, answer) == answer.causes \ c.codes
HasCause(answer) == answer.causes # {}
Scored(c, answer) == c.disposition = "required" \/ HasCause(answer)
Economical(c, answer) == answer.cites <= c.citations

(* Facts, relations, claims and citations, where content is scored at all. *)
ContentViolations(c, answer) ==
  IF ~ Scored(c, answer) THEN {}
  ELSE Broken(c.facts \subseteq answer.told, "fact")
         \cup Broken(c.relations \subseteq answer.told, "relation")
         \cup Broken(c.forbidden \cap answer.told = {}, "claim")
         \cup Broken(HasCause(answer) /\ c.citations > 0 => Economical(c, answer), "economy")

DispositionViolations(c, answer) ==
  CASE c.disposition = "required"     -> Broken(answer.accepted, "proposal") \cup Broken(HasCause(answer), "cause")
    [] c.disposition = "must_abstain" -> Broken(answer.accepted /\ ~ HasCause(answer), "abstention")
    [] OTHER                          -> {}

EvaluateGenerated(c, answer) ==
  LET scored   == Scored(c, answer)
      required == c.disposition = "required"
      correct  == HasCause(answer) /\ Unsupported(c, answer) = {}
      count(set) == IF scored THEN Cardinality(set) ELSE 0
      economy  == scored /\ HasCause(answer) /\ c.citations > 0
  IN Counts([
        invoked |-> 1, accepted |-> One(answer.accepted),
        taxonomyCases |-> One(scored), taxonomy |-> One(scored /\ correct),
        factsExpected |-> count(c.facts), facts |-> count(c.facts \cap answer.told),
        relationsExpected |-> count(c.relations), relations |-> count(c.relations \cap answer.told),
        forbiddenChecks |-> count(c.forbidden), forbidden |-> count(c.forbidden \cap answer.told),
        economyCases |-> One(economy), economical |-> One(economy /\ Economical(c, answer)),
        required |-> One(required),
        useful |-> One(/\ required
                       /\ correct
                       /\ ContentViolations(c, answer) \cup DispositionViolations(c, answer) = {}),
        abstentions |-> One(c.disposition = "must_abstain"),
        abstained |-> One(c.disposition = "must_abstain" /\ DispositionViolations(c, answer) = {})])

UsesSource(c) == WithSource /\ c.source

(* An execution that fails is a result with a violation and counts as one  *)
(* of the cases in every ratio over all of them, but in no other.          *)
Fails(answer) == answer.fails # "no"

BugUnlabelledPasses(c, answer) == \* a code no label supports is counted and not reported
  IF Fails(answer) THEN {answer.fails}
  ELSE Broken(answer.cited, "citations") \cup Broken(answer.primary, "primary") \cup Broken(answer.retry, "retry")
         \cup (IF answer.invoked THEN ContentViolations(c, answer) \cup DispositionViolations(c, answer) ELSE {})
         \cup Broken(answer.expected, "codes") \cup Broken(answer.safe, "action") \cup Broken(answer.stable, "unstable")

RunCaseViolations(c, answer) ==
  IF Fails(answer) THEN {answer.fails}
  ELSE Broken(answer.cited, "citations") \cup Broken(answer.primary, "primary") \cup Broken(answer.retry, "retry")
         \cup Broken(UsesSource(c) /\ "context.stale_source" \in c.tags => answer.mismatch, "stale")
         \cup Broken(~ (answer.mismatch /\ answer.discloses), "disclosed")
         \cup Broken(Unsupported(c, answer) = {}, "unlabelled")
         \cup (IF answer.invoked THEN ContentViolations(c, answer) \cup DispositionViolations(c, answer) ELSE {})
         \cup Broken(answer.expected, "codes") \cup Broken(answer.safe, "action") \cup Broken(answer.stable, "unstable")

RunCaseCounters(c, answer) ==
  IF Fails(answer) THEN Nothing
  ELSE Added(IF answer.invoked THEN EvaluateGenerated(c, answer) ELSE Nothing,
         Counts([
            primary |-> One(answer.primary), citations |-> One(answer.cited), retry |-> One(answer.retry),
            stable |-> One(answer.stable), fallback |-> One(answer.fallback),
            actions |-> 1, safe |-> One(answer.safe),
            claims |-> Cardinality(answer.causes), unsupported |-> Cardinality(Unsupported(c, answer)),
            mismatches |-> One(answer.mismatch)]))

-----------------------------------------------------------------------------
(* Metrics: what is divided by what, the value of 0/0, and the denominator *)
(* the gate compares with the policy's minimum.                            *)

Cases == Len(corpus) * Repeats

Metric(over, whole, empty, gate) == [over |-> over, whole |-> whole, empty |-> empty, gate |-> gate]

Metrics ==
  LET of(name, whole) == Metric(totals[name], totals[whole], 100, totals[whole])
      all(name)       == Metric(totals[name], Cases, 100, Cases)
  IN [abstention_accuracy     |-> of("abstained", "abstentions"),
      causal_completeness     |-> of("relations", "relationsExpected"),
      citation_economy        |-> of("economical", "economyCases"),
      citation_validity       |-> all("citations"),
      deterministic_stability |-> all("stable"),
      entity_preservation     |-> of("facts", "factsExpected"),
      forbidden_claim_rate    |-> Metric(totals.forbidden, totals.forbiddenChecks, 0, totals.abstentions),
      generated_consistency   |-> of("consistent", "comparisons"),
      primary_code_precision  |-> all("primary"),
      proposal_acceptance     |-> of("accepted", "invoked"),
      provider_fallback_rate  |-> all("fallback"),
      retry_advice_accuracy   |-> all("retry"),
      safe_action_rate        |-> Metric(totals.safe, totals.actions, 100, Cases),
      taxonomy_accuracy       |-> of("taxonomy", "taxonomyCases"),
      unsupported_claim_rate  |-> Metric(totals.unsupported, totals.claims, 0, 0),
      useful_diagnosis_rate   |-> of("useful", "required")]

AtLeast(m, bound)    == IF m.whole = 0 THEN m.empty >= bound ELSE m.over * 100 >= bound * m.whole
NoMoreThan(m, bound) == IF m.whole = 0 THEN m.empty <= bound ELSE m.over * 100 <= bound * m.whole

NoBound == -1

ValidPolicy(p) ==
  /\ p.unique \in 1 .. MaximumCases /\ p.repeats \in 2 .. 20 /\ p.invoked >= 1 /\ p.comparisons >= 1 /\ p.sources >= 0
  /\ DOMAIN p.tags # {} /\ DOMAIN p.metrics # {} /\ DOMAIN p.metrics \subseteq DOMAIN Metrics
  /\ \A tag \in DOMAIN p.tags : p.tags[tag] \in 1 .. MaximumCases
  /\ \A name \in DOMAIN p.metrics :
       LET t == p.metrics[name] IN
       /\ t.least # NoBound \/ t.most # NoBound
       /\ t.denominator >= 0
       /\ {t.least, t.most} \subseteq {NoBound} \cup 0 .. 100
       /\ t.least # NoBound /\ t.most # NoBound => t.least <= t.most

UniqueTagCases(tag) == Cardinality({r.name : r \in {s \in ToSet(results) : tag \in s.tags}})

BugCorpusIsTheWorkload(p, isLive) == \* what was asked for, not what was run
  Broken(isLive, "live") \cup Broken(Len(corpus) >= p.unique, "unique") \cup Broken(Repeats >= p.repeats, "repeats")

WorkloadViolations(p, isLive) ==
  Broken(isLive, "live")
    \cup Broken(Len(corpus) >= p.unique, "unique")
    \cup Broken(Repeats >= p.repeats, "repeats")
    \cup Broken(totals.invoked >= p.invoked, "invoked")
    \cup Broken(totals.comparisons >= p.comparisons, "comparisons")
    \cup Broken(totals.sources >= p.sources, "sources")

TagViolations(p) == {tag \in DOMAIN p.tags : UniqueTagCases(tag) < p.tags[tag]}

MetricViolations(p) ==
  {name \in DOMAIN p.metrics :
     LET m == Metrics[name]
         t == p.metrics[name]
     IN \/ m.gate < t.denominator
        \/ t.least # NoBound /\ ~ AtLeast(m, t.least)
        \/ t.most # NoBound /\ ~ NoMoreThan(m, t.most)}

AssessPromotion(p, isLive) ==
  IF ~ ValidPolicy(p) THEN {"policy"} ELSE WorkloadViolations(p, isLive) \cup TagViolations(p) \cup MetricViolations(p)

-----------------------------------------------------------------------------
(* Steps.                                                                  *)

NoPolicy == [unique |-> 0]
NoSignature == <<>>

EvaluationInit ==
  /\ corpus \in Corpora
  /\ policy = NoPolicy
  /\ live = FALSE
  /\ stage = IF ValidCorpus(corpus) THEN "run" ELSE "refused"
  /\ results = <<>>
  /\ totals = Nothing
  /\ first = NoSignature
  /\ assessment = {}

Case      == corpus[(Len(results) \div Repeats) + 1]
Iteration == (Len(results) % Repeats) + 1
Signature(answer) == <<answer.accepted, answer.causes>>

(* The first signature stays empty when the first execution invoked no     *)
(* provider: every later one then differs from it.                         *)
Compared(answer) ==
  LET before   == IF Iteration = 1 THEN NoSignature ELSE first
      compared == answer.invoked /\ ~ Fails(answer) /\ Iteration > 1
  IN Counts([comparisons |-> One(compared),
             consistent |-> One(compared /\ Signature(answer) = before)])

RunCase ==
  /\ stage = "run"
  /\ Len(results) < Cases
  /\ \E answer \in Answers :
       LET violations == RunCaseViolations(Case, answer)
           sourced    == Counts([sources |-> One(UsesSource(Case) /\ answer.fails \in {"no", "diagnose"})])
       IN /\ results' = Append(results, [name |-> Case.name, tags |-> Case.tags, answer |-> answer,
                                         passed |-> violations = {}])
          /\ totals' = Added(Added(totals, RunCaseCounters(Case, answer)), Added(Compared(answer), sourced))
          /\ first' = IF Iteration > 1 THEN first
                      ELSE IF answer.invoked /\ ~ Fails(answer) THEN Signature(answer) ELSE NoSignature
  /\ UNCHANGED <<stage, corpus, policy, live, assessment>>

(* A cancelled evaluation gives no summary.                                *)
Abort ==
  /\ stage = "run"
  /\ Len(results) < Cases
  /\ stage' = "aborted"
  /\ UNCHANGED <<corpus, policy, live, results, totals, first, assessment>>

Summarize ==
  /\ stage = "run"
  /\ Len(results) = Cases
  /\ policy' \in PromotionPolicies
  /\ live' \in BOOLEAN
  /\ assessment' = AssessPromotion(policy', live')
  /\ stage' = "done"
  /\ UNCHANGED <<corpus, results, totals, first>>

EvaluationDone == stage # "run" /\ UNCHANGED evaluation

EvaluationNext == RunCase \/ Abort \/ Summarize \/ EvaluationDone

EvaluationSpec == EvaluationInit /\ [][EvaluationNext]_evaluation

-----------------------------------------------------------------------------
(* Properties.                                                             *)

(* The counters and the case results tell the same story: when every       *)
(* execution passed, no correctness, safety or content metric is below     *)
(* perfect.  They are computed apart, so that fluent output cannot hide a  *)
(* regression; a violation that is counted but not reported, or reported   *)
(* but not counted, would let one of the two hide it.                      *)
PassedMeansPerfect ==
  (stage = "done" /\ \A i \in DOMAIN results : results[i].passed) =>
    /\ \A name \in {"abstention_accuracy", "causal_completeness", "citation_economy", "citation_validity",
                    "deterministic_stability", "entity_preservation", "primary_code_precision",
                    "retry_advice_accuracy", "safe_action_rate", "taxonomy_accuracy", "useful_diagnosis_rate"} :
         AtLeast(Metrics[name], 100)
    /\ NoMoreThan(Metrics.forbidden_claim_rate, 0) /\ NoMoreThan(Metrics.unsupported_claim_rate, 0)

Promoted == stage = "done" /\ assessment = {}
Demands(name, bound) == name \in DOMAIN policy.metrics /\ policy.metrics[name].least >= bound
CaseOf(i) == corpus[((i - 1) \div Repeats) + 1]
Required  == {i \in DOMAIN results : CaseOf(i).disposition = "required"}
Useful    == {i \in Required : LET a == results[i].answer IN
                a.fails = "no" /\ a.accepted /\ HasCause(a) /\ a.causes \subseteq CaseOf(i).codes
                  /\ CaseOf(i).facts \subseteq a.told}

(* A promotion is earned by every execution of every case.  The content    *)
(* metrics leave out what failed or asked no provider, and 0/0 is perfect: *)
(* it takes the demands on the workload to see such executions.  Under a   *)
(* policy that demands every execution to have asked the provider, a       *)
(* promoted result has no failed execution, no wrong primary finding if    *)
(* precision must be perfect, no cause where the case demands abstention   *)
(* if that must be, and the demanded share of useful diagnoses among all   *)
(* executions of the cases that require one.                               *)
PromotionIsEarned ==
  (Promoted /\ policy.invoked >= Cases) =>
    /\ live /\ Len(results) = Cases
    /\ \A i \in DOMAIN results :
         LET a == results[i].answer IN
         /\ a.fails = "no" /\ a.invoked
         /\ Demands("primary_code_precision", 100) => a.primary
         /\ Demands("abstention_accuracy", 100) /\ CaseOf(i).disposition = "must_abstain"
              => a.accepted /\ a.causes = {}
    /\ Demands("useful_diagnosis_rate", 75) =>
         Cardinality(Useful) * 100 >= policy.metrics.useful_diagnosis_rate.least * Cardinality(Required)
=============================================================================
