------------------------------- MODULE Engine --------------------------------
(***************************************************************************)
(* The deterministic diagnosis: Prepare (enrichment.Collect) and Diagnose  *)
(* of internal/engine.  Structured facts, logs and the ranges recognized   *)
(* in them become candidates; the best candidate of every code is ranked;  *)
(* advice, limitations and citations follow; the report is sealed and      *)
(* checked against its evidence.  The caller may cancel at any time, and   *)
(* the loops look at the context once per element.                         *)
(*                                                                         *)
(* A target finding is named after the format it comes from:               *)
(* "connection_refused" stands for target.connection_refused_message.      *)
(* Every controlled score is the priority unless stated.  Texts, severity  *)
(* and categories are left out.                                            *)
(*                                                                         *)
(* Operators named Bug... are deliberate mistakes no definition uses: put  *)
(* in place of the definition that follows them, each breaks the property  *)
(* PROJECT.json pairs it with.                                             *)
(***************************************************************************)
EXTENDS Enrichment, ReportCodec

CONSTANTS
  Bundles,   \* core evidence, verified, that Prepare may be given
  Wrappers,  \* failure evidence that is diagnosed as it is supplied
  Diagnoses  \* how many times the same evidence is diagnosed

(* What the core promises of the evidence it verified, and the companion   *)
(* of the enrichment it seals: an ID says what it names, the selected runs *)
(* have numbers in increasing order, the similar failures are missing for  *)
(* one reason, and Control has no failure classes.                         *)
WellFormedItem(i) ==
  /\ i.id[1] = i.code
  /\ i.code \in {"JobPhase", "SharedConfidence"} => i.at = Job

WellFormedArtifact(a) ==
  /\ a.id # <<>> /\ a.id[1] = "log"
  /\ a.log \in Seq(ToSet(a.log))

WellFormedEnrichment(i) ==
  /\ i.id[1] = "analysis"
  /\ i.code \in DOMAIN CodeRank
  /\ i.start \in Nat

WellFormed(e) ==
  /\ e = [sealed |-> e.sealed, shared |-> e.shared, phase |-> e.phase, outcome |-> e.outcome,
          runs |-> e.runs, items |-> e.items, artifacts |-> e.artifacts, enrichment |-> e.enrichment,
          omissions |-> e.omissions, active |-> e.active, snapshot |-> e.snapshot, source |-> e.source]
  /\ e.shared \in BOOLEAN
  /\ e.phase # ""
  /\ e.runs \in Seq(Nat \ {0}) /\ Increasing(e.runs)
  /\ e.items \in Seq(ToSet(e.items)) /\ \A i \in ToSet(e.items) : WellFormedItem(i)
  /\ e.artifacts \in Seq(ToSet(e.artifacts)) /\ \A a \in ToSet(e.artifacts) : WellFormedArtifact(a)
  /\ e.enrichment \in Seq(ToSet(e.enrichment)) /\ \A i \in ToSet(e.enrichment) : WellFormedEnrichment(i)
  /\ ~ {"similar_not_requested", "similar_unavailable"} \subseteq e.omissions
  /\ e.shared => \A i \in ToSet(e.items) : i.code # "FailureClass"

ASSUME EngineAssumption ==
  /\ \A e \in Bundles \cup Wrappers : WellFormed(e)
  /\ \A e \in Bundles : e.enrichment = <<>>

VARIABLES
  pc,         \* where the diagnosis is
  evidence,   \* the evidence diagnosed, with the enrichment collected so far
  at,         \* elements the loop under way has seen
  cancelled,  \* the caller's context is done
  candidates, \* candidates found, in order
  report,     \* the sealed report, or NoReport
  error,      \* why there is none, or None
  earlier     \* what earlier diagnoses of the same evidence gave

vars == <<pc, evidence, at, cancelled, candidates, report, error, earlier>>

NoReport == [schema |-> 0]

-----------------------------------------------------------------------------
(* The view: items by code, and which of them a conclusion may rest on.    *)

ByCode(code)   == Filtered(evidence.items, LAMBDA i : i.code = code)
Decoded(items) == Filtered(items, LAMBDA i : i.ok)
Enriched(code) == \E i \in ToSet(evidence.enrichment) : i.code = code
Omitted(code)  == code \in evidence.omissions

SelectedRun == IF evidence.runs = <<>> THEN 1 ELSE Last(evidence.runs)

OfSelectedRun(items) == Filtered(items, LAMBDA i : i.at \in {Last(evidence.runs), Job})

SharedPrimaryItems(items) == OfSelectedRun(items)

PrimaryItems(code) ==
  LET items == ByCode(code) IN
  IF evidence.runs = <<>> THEN items
  ELSE IF evidence.shared THEN SharedPrimaryItems(items)
  ELSE IF OfSelectedRun(items) = <<>> THEN items ELSE OfSelectedRun(items)

PrimaryArtifact(id) ==
  evidence.shared =>
    /\ evidence.runs # <<>>
    /\ \E a \in ToSet(evidence.artifacts) : a.id = id /\ a.run = Last(evidence.runs)

-----------------------------------------------------------------------------
(* Candidates.                                                             *)

Candidate(priority, code, support) ==
  [priority |-> priority, score |-> priority, code |-> code, support |-> support, analyzer |-> "builtin.rules"]

Found(priority, code, items) == [i \in DOMAIN items |-> Candidate(priority, code, {items[i].id})]
First(priority, code, items) == AtMost(1, Found(priority, code, items))

CoreRule ==
  [executable_not_found      |-> <<100, "core.executable_not_found">>,
   working_directory_missing |-> <<99, "core.working_directory_missing">>,
   permission_denied         |-> <<98, "core.permission_denied">>,
   job_timeout               |-> <<96, "core.timeout">>,
   run_timeout               |-> <<96, "core.timeout">>,
   timeout                   |-> <<96, "core.timeout">>,
   user_cancellation         |-> <<95, "core.user_cancellation">>,
   ownership_lost            |-> <<94, "core.supervisor_ownership_lost">>,
   supervisor_claim_expired  |-> <<94, "core.supervisor_ownership_lost">>,
   signal_termination        |-> <<90, "core.signal_termination">>,
   nonzero_exit              |-> <<82, "core.nonzero_exit">>,
   target_start_failed       |-> <<80, "core.start_failed">>,
   submission_failed         |-> <<80, "core.start_failed">>,
   wait_evaluation_error     |-> <<78, "core.wait_evaluation_error">>,
   log_recording_degraded    |-> <<55, "core.log_recording_degraded">>]

CoreFailureCandidate(class, support) ==
  LET rule == IF class \in DOMAIN CoreRule THEN CoreRule[class] ELSE <<65, "core.target_failure">> IN
  Candidate(rule[1], rule[2], support)

RelatedCodes == {"RunDiagnostic", "RunOutcome", "RunExitSignal", "RunExitCode", "RunTimeoutScope",
                 "ResourceObservation", "JobDiagnostic", "JobOutcome"}

(* The facts recorded beside a failure class: of its run, and of the job.  *)
RelatedEvidence(class) ==
  {i.id : i \in {j \in ToSet(evidence.items) : j.code \in RelatedCodes /\ j.at \in {class.at, Job}}}

(* /usr/bin/false was asked for, and did what it does.                     *)
IntentionalFalseCandidate ==
  LET command == AtMost(1, Filtered(Decoded(ByCode("TargetCommand")), LAMBDA i : i.value = "false"))
      class   == AtMost(1, Filtered(Decoded(PrimaryItems("FailureClass")), LAMBDA i : i.value = "nonzero_exit"))
      exit    == AtMost(1, Filtered(Decoded(PrimaryItems("RunExitCode")), LAMBDA i : i.value # "0"))
  IN IF <<>> \in {command, class, exit} THEN <<>>
     ELSE <<Candidate(100, "core.intentional_false", {command[1].id, class[1].id, exit[1].id})>>

SharedOutcomeRule ==
  [timed_out |-> <<96, "shared.timed_out">>, cancelled |-> <<95, "shared.cancelled">>,
   lost      |-> <<94, "shared.lost">>,      aborted   |-> <<68, "shared.aborted">>,
   failure   |-> <<65, "shared.failure">>]

BugJobOutcome == ByCode("JobOutcome")  \* today's job outcome for a historical run

(* The job's outcome speaks only when no run was selected.                 *)
SharedOutcomes ==
  IF evidence.runs # <<>> THEN PrimaryItems("RunOutcome") ELSE ByCode("JobOutcome")

SharedOutcomeCandidates ==
  LET known == Filtered(Decoded(SharedOutcomes), LAMBDA i : i.value \in DOMAIN SharedOutcomeRule) IN
  [n \in DOMAIN known |-> LET rule == SharedOutcomeRule[known[n].value] IN
                          Candidate(rule[1], rule[2], {known[n].id})]

SharedStateCandidates ==
  LET where(items, values) == Filtered(Decoded(items), LAMBDA i : i.value \in values) IN
  Found(50, "shared.observation_uncertain", where(ByCode("SharedConfidence"), {"stale", "uncertain"}))
    \o Found(70, "shared.dependency_unsatisfied", where(PrimaryItems("SharedDependency"), {"unsatisfied"}))
    \o Found(45, "shared.scheduler_pending", where(PrimaryItems("SharedScheduler"), {"pending"}))

BuiltinShared(c) == [c EXCEPT !.analyzer = "builtin.shared"]

SharedCandidates ==
  IF ~ evidence.shared THEN <<>>
  ELSE LET exits   == Filtered(Decoded(PrimaryItems("RunExitCode")), LAMBDA i : i.value # "0")
           signals == Filtered(Decoded(PrimaryItems("RunExitSignal")), LAMBDA i : i.value # "")
           states  == SharedOutcomeCandidates \o SharedStateCandidates
       IN Found(82, "core.nonzero_exit", exits) \o Found(90, "core.signal_termination", signals)
            \o [n \in DOMAIN states |-> BuiltinShared(states[n])]

(* One conventional signature of a log, the first that matches.  A Python  *)
(* traceback counts only where enrichment has not found one.               *)
ArtifactSignatures ==
  <<<<72, "storage_exhausted">>, <<68, "nested_command_missing">>,
    <<62, "permission_denied">>, <<58, "connection_refused">>>>

ArtifactCandidate(artifact) ==
  LET holds(rule) == \E l \in ToSet(artifact.log) : l.says = rule[2]
      python == ~ Enriched("python") /\ \E l \in ToSet(artifact.log) : l.is = "python"
      matches == (IF python THEN <<<<75, "python_exception">>>> ELSE <<>>)
                   \o Filtered(ArtifactSignatures, holds)
  IN [i \in DOMAIN AtMost(1, matches) |-> Candidate(matches[1][1], matches[1][2], {artifact.id})]

StructureRule == [python |-> <<76, "python_exception">>, go_panic |-> <<75, "go_panic">>,
                  jvm |-> <<73, "jvm_exception">>, compiler |-> <<70, "compiler_error">>]

(* Evidence sealed elsewhere may leave the classification to the reader.   *)
DiagnosticFormat(item) ==
  IF item.format # "causal_message" THEN item.format
  ELSE LET a == CHOOSE b \in ToSet(evidence.artifacts) : b.id = item.artifact IN
       ClassifyDiagnostic(a.log[item.start])

TargetDiagnosticRules ==
  {"address_in_use", "authentication_denied", "configuration_missing", "connection_refused",
   "data_validation", "database_deadlock", "database_unique_violation", "deadline_exceeded",
   "dependency_missing", "dns_resolution_failed", "file_descriptor_exhausted",
   "linker_undefined_reference", "migration_rejected", "migration_required", "missing_file",
   "nested_command_missing", "permission_denied", "rate_limited", "read_only_filesystem",
   "service_unavailable", "storage_exhausted", "tls_verification_failed"}

BugFirstMessageLeads(item) == IF item.start = 1 THEN 86 ELSE 84
BugMessageIsExact(item)    == 96

(* The last message of a log is taken for its cause, the others for the    *)
(* warnings before it.                                                     *)
CausalPriority(item) ==
  IF \E j \in ToSet(evidence.enrichment) :
       j.code = "causal" /\ j.artifact = item.artifact /\ j.start > item.start
  THEN 84 ELSE 86

EnrichmentCandidates ==
  LET used == Filtered(evidence.enrichment,
                LAMBDA i : /\ PrimaryArtifact(i.artifact)
                           /\ i.code = "causal" => DiagnosticFormat(i) \in TargetDiagnosticRules)
      of(i) == IF i.code = "causal" THEN <<CausalPriority(i), DiagnosticFormat(i)>> ELSE StructureRule[i.code]
  IN [n \in DOMAIN used |-> Candidate(of(used[n])[1], of(used[n])[2], {used[n].id})]

Matching == Decoded(ByCode("SimilarFailure"))
Recovered == \E i \in ToSet(Matching) : i.value = "recovered"
IDSet(items) == ToSet(IDs(items))

(* Which class is reported when several recur is the order of a Go map.    *)
Recurring ==
  LET classes == Filtered(Decoded(ByCode("FailureClass")), LAMBDA i : i.at \notin {Job, Elsewhere} /\ i.value # "")
      again(n) == \E m \in DOMAIN classes : m < n /\ classes[m].value = classes[n].value
      latest(n) == \A m \in DOMAIN classes : m > n => classes[m].value # classes[n].value
  IN {classes[n].id : n \in {m \in DOMAIN classes : again(m) /\ latest(m)}}

SecondaryCandidates(recurring) ==
  LET health == IF evidence.shared THEN PrimaryItems("LogRecordingHealth") ELSE ByCode("LogRecordingHealth") IN
  First(52, "secondary.log_recording_degraded", Filtered(Decoded(health), LAMBDA i : i.value = "degraded"))
    \o First(50, "secondary.notification_failed",
             Filtered(Decoded(ByCode("NotificationStatus")), LAMBDA i : i.value = "failed"))
    \o (IF Matching # <<>>
        THEN <<[Candidate(60, "secondary.same_fingerprint_history", IDSet(Matching)) EXCEPT !.score = 90]>>
        ELSE [n \in 1 .. Cardinality(recurring) |->
                Candidate(48, "secondary.repeated_failure", recurring)])

FirstOf(items, others) == IDSet(AtMost(1, items \o others))

(* What remains to be said when nothing was found.                         *)
StateCandidate ==
  LET unknown(support) == Candidate(35, "core.insufficient_structured_evidence", support)
      success == Filtered(Decoded(SharedOutcomes), LAMBDA i : i.value = "success")
  IN IF evidence.shared
     THEN IF success # <<>> THEN Candidate(98, "core.no_target_failure", {success[1].id})
                            ELSE unknown(FirstOf(ByCode("JobPhase"), <<>>))
     ELSE IF evidence.outcome = "success"
          THEN [Candidate(40, "core.no_target_failure", FirstOf(ByCode("JobOutcome"), ByCode("JobPhase")))
                  EXCEPT !.score = 98]
          ELSE unknown(FirstOf(ByCode("JobPhase"), ByCode("JobOutcome")))

-----------------------------------------------------------------------------
(* Ranking: by priority, then by code; the first candidate of a code stays. *)

CodeOrder ==
  <<"core.executable_not_found", "core.insufficient_structured_evidence", "core.intentional_false",
    "core.log_recording_degraded", "core.no_target_failure", "core.nonzero_exit",
    "core.permission_denied", "core.signal_termination", "core.start_failed",
    "core.supervisor_ownership_lost", "core.target_failure", "core.timeout",
    "core.user_cancellation", "core.wait_evaluation_error", "core.working_directory_missing",
    "secondary.log_recording_degraded", "secondary.notification_failed",
    "secondary.repeated_failure", "secondary.same_fingerprint_history",
    "shared.aborted", "shared.cancelled", "shared.dependency_unsatisfied", "shared.failure",
    "shared.lost", "shared.observation_uncertain", "shared.scheduler_pending", "shared.timed_out",
    "address_in_use", "authentication_denied", "compiler_error", "configuration_missing",
    "connection_refused", "data_validation", "database_deadlock", "database_unique_violation",
    "deadline_exceeded", "dependency_missing", "dns_resolution_failed",
    "file_descriptor_exhausted", "go_panic", "jvm_exception", "linker_undefined_reference",
    "migration_rejected", "migration_required", "missing_file", "permission_denied",
    "python_exception", "rate_limited", "read_only_filesystem", "service_unavailable",
    "nested_command_missing", "storage_exhausted", "tls_verification_failed">>

CodeRankOf == [c \in ToSet(CodeOrder) |-> CHOOSE n \in DOMAIN CodeOrder : CodeOrder[n] = c]

Ahead(a, b) ==
  \/ a.priority > b.priority
  \/ a.priority = b.priority /\ CodeRankOf[a.code] < CodeRankOf[b.code]

UniqueCandidates(cs) ==
  {cs[i] : i \in {j \in DOMAIN cs : \A k \in DOMAIN cs :
                    cs[k].code = cs[j].code =>
                      \/ cs[j].priority > cs[k].priority
                      \/ cs[j].priority = cs[k].priority /\ j <= k}}

Ranked(cs) ==
  LET kept == UniqueCandidates(cs)
      place(c) == Cardinality({d \in kept : Ahead(d, c)}) + 1
  IN [n \in 1 .. Cardinality(kept) |-> CHOOSE c \in kept : place(c) = n]

Findings(cs) ==
  LET ranked == Ranked(cs) IN
  [n \in DOMAIN ranked |->
     LET c == ranked[n] IN
     [id |-> <<n, c.code>>, code |-> c.code, score |-> c.score, support |-> c.support, analyzer |-> c.analyzer]]

-----------------------------------------------------------------------------
(* Advice for the primary finding.                                         *)

ShowJobCodes == {"core.executable_not_found", "core.working_directory_missing", "core.permission_denied",
                 "permission_denied", "core.supervisor_ownership_lost", "core.user_cancellation",
                 "secondary.notification_failed"}

ShowStderrCodes == (TargetDiagnosticRules \ {"permission_denied"})
                     \cup {"python_exception", "go_panic", "jvm_exception", "compiler_error"}

Action(n, execution, command, run, support) ==
  [id |-> n, execution |-> execution, command |-> command, run |-> run, support |-> support]

ActionsFor(primary) ==
  LET code == primary.code
      inspect(command, run) == Action(1, "read_only", command, run, primary.support)
      change(n) == Action(n, "none", None, 0, primary.support)
  IN CASE code = "core.intentional_false"     -> <<change(1)>>
       [] code = "core.executable_not_found"  -> <<inspect("show", 0), change(2)>>
       [] code = "core.timeout"               -> <<inspect("evidence", 0), change(2)>>
       [] code \in ShowJobCodes \ {"core.executable_not_found"} -> <<inspect("show", 0)>>
       [] code \in ShowStderrCodes            -> <<inspect("logs", SelectedRun)>>
       [] OTHER                               -> <<inspect("evidence", 0)>>

AfterDelayCodes == {"connection_refused", "deadline_exceeded", "database_deadlock",
                    "dns_resolution_failed", "rate_limited", "service_unavailable"}

AfterChangeCodes ==
  {"core.executable_not_found", "core.working_directory_missing", "core.permission_denied",
   "core.timeout", "core.nonzero_exit", "core.start_failed", "core.target_failure", "python_exception"}
    \cup (TargetDiagnosticRules \ AfterDelayCodes)

BaseVerdict(code) ==
  CASE code \in AfterChangeCodes                    -> <<"after_change", 92>>
    [] code \in AfterDelayCodes                     -> <<"after_delay", 78>>
    [] code = "core.intentional_false"              -> <<"after_change", 100>>
    [] code = "core.user_cancellation"              -> <<"not_applicable", 98>>
    [] code = "core.supervisor_ownership_lost"      -> <<"now", 72>>
    [] code = "core.signal_termination"             -> <<"unknown", 70>>
    [] code = "secondary.notification_failed"       -> <<"no", 88>>
    [] code = "core.no_target_failure"              -> <<"not_applicable", 98>>
    [] code = "core.insufficient_structured_evidence" -> <<"unknown", 45>>
    [] OTHER                                        -> <<"unknown", 60>>

(* The policy the job already has.  A bound of 0 is no bound.              *)
LastCounter(code) ==
  LET counts == Decoded(ByCode(code)) IN IF counts = <<>> THEN 0 ELSE Last(counts).value

Exhausted(policy) ==
  \/ policy.runs # 0 /\ LastCounter("RunCount") >= policy.runs
  \/ policy.failures # 0 /\ LastCounter("FailureCount") >= policy.failures

ScheduledPhases == {"submitting", "queued", "starting", "running", "active", "backoff", "stopping"}

ExistingPolicy ==
  LET policies == ByCode("ExecutionPolicy") IN
  IF ByCode("NextRunAt") # <<>> THEN "backoff"
  ELSE IF evidence.phase = "waiting" THEN "waiting_prerequisite"
  ELSE IF evidence.phase \in ScheduledPhases THEN "scheduled"
  ELSE IF evidence.phase # "completed" \/ policies = <<>> THEN "unknown"
  ELSE IF ~ policies[1].ok THEN "unknown"
  ELSE IF Exhausted(policies[1].value) THEN "exhausted"
  ELSE IF evidence.outcome = "success" THEN "none" ELSE "nonretryable"

PolicyCodes == {"ExecutionPolicy", "NextRunAt", "WaitingReason", "RunCount", "FailureCount"}

RetryReasons(verdict, policy) == {<<"policy", policy>>, <<"verdict", verdict>>}

(* History decides between change and delay: a match that later succeeded  *)
(* speaks for a delay, repeated matches against trying again unchanged.    *)
RetryFor(primary) ==
  LET base    == BaseVerdict(primary.code)
      change  == base[1] = "after_change"
      history == change /\ (Recovered \/ Len(Matching) > 1)
      verdict == IF change /\ Recovered THEN <<"after_delay", 78>>
                 ELSE IF history THEN <<"after_change", 96>> ELSE base
      next    == Decoded(ByCode("NextRunAt"))
      waits   == (verdict[1] = "after_delay" \/ ExistingPolicy = "backoff") /\ next # <<>>
  IN [verdict |-> verdict[1], policy |-> ExistingPolicy, score |-> verdict[2],
      reasons |-> RetryReasons(verdict[1], ExistingPolicy), earliest |-> waits,
      support |-> primary.support \cup (IF history THEN IDSet(Matching) ELSE {})
                    \cup {i.id : i \in {j \in ToSet(evidence.items) : j.code \in PolicyCodes}}]

-----------------------------------------------------------------------------
(* Limitations, citations and the report.                                  *)

Says(condition, code) == IF condition THEN <<code>> ELSE <<>>

Missing(primary) ==
  Says(Omitted("command_not_requested") \/ Omitted("command_limit_exceeded"), "command_context")
    \o Says(Omitted("paths_not_requested"), "path_context")
    \o Says(Omitted("environment_names_not_requested"), "environment_names")
    \o Says(Omitted("system_not_requested") \/ Omitted("system_unavailable"), "system_context")
    \o Says(Omitted("log_content_not_requested") /\ primary.code # "core.intentional_false", "bounded_log_content")
    \o Says(Omitted("logs_pruned"), "pruned_logs")
    \o Says(Omitted("resource_unsupported") \/ Omitted("resource_unavailable"), "resource_observations")
    \o Says(Omitted("similar_not_requested"), "same_fingerprint_history")
    \o Says(Omitted("similar_unavailable"), "same_fingerprint_history")

SourceContextWarnings == Says(evidence.source = "mismatch", "source_context_mismatch")

Warnings ==
  Says(Omitted("similar_partially_indexed"), "similar_history_partially_indexed")
    \o Says(Omitted("similar_truncated"), "similar_history_truncated")
    \o Says(evidence.active, "active_state_may_have_advanced")
    \o Says(evidence.artifacts # <<>>, "log_content_is_untrusted")
    \o Says(evidence.snapshot \in {"point_in_time", "mixed"}, "artifact_snapshot_incomplete")
    \o SourceContextWarnings

BugCiteFindingsOnly(findings, actions, retry) == UNION {f.support : f \in ToSet(findings)}

ReferencedEvidence(findings, actions, retry) ==
  (UNION {f.support : f \in ToSet(findings)}) \cup (UNION {a.support : a \in ToSet(actions)}) \cup retry.support

(* A reference is looked for among the items, then the artifacts, then the *)
(* enrichment; NotCited marks one that is nowhere.                         *)
NotCited == [id |-> <<>>, kind |-> "none", source |-> <<>>, start |-> 0, end |-> 0]

Cite(id) ==
  LET core(kind) == [id |-> id, kind |-> kind, source |-> <<>>, start |-> 0, end |-> 0] IN
  IF id \in IDSet(evidence.items) THEN core("item")
  ELSE IF id \in IDSet(evidence.artifacts) THEN core("artifact")
  ELSE IF id \in IDSet(evidence.enrichment)
       THEN LET i == CHOOSE j \in ToSet(evidence.enrichment) : j.id = id IN
            [id |-> id, kind |-> "enrichment", source |-> i.artifact, start |-> i.start, end |-> i.end]
       ELSE NotCited

BuildCitations(references) == {Cite(id) : id \in references}

CoreFailureFingerprint ==
  LET known == Decoded(PrimaryItems("FailureFingerprint")) IN IF known = <<>> THEN None ELSE known[1].value

AnalyzerDescriptors == {"builtin.rules"} \cup (IF evidence.enrichment = <<>> THEN {} ELSE {"builtin.log-structure"})

Draft(findings, primary) ==
  LET actions == ActionsFor(primary)
      retry   == RetryFor(primary)
  IN [schema |-> LocalSchema, shared |-> FALSE, primary |-> findings[1].id,
      subject |-> [phase |-> evidence.phase, outcome |-> evidence.outcome, runs |-> evidence.runs],
      findings |-> findings, actions |-> actions, retry |-> retry,
      citations |-> BuildCitations(ReferencedEvidence(findings, actions, retry)),
      missing |-> Missing(primary), warnings |-> Warnings,
      analyzers |-> AnalyzerDescriptors, fingerprint |-> CoreFailureFingerprint]

SharedCodes == {"shared.aborted", "shared.cancelled", "shared.dependency_unsatisfied", "shared.failure",
                "shared.lost", "shared.observation_uncertain", "shared.scheduler_pending", "shared.timed_out"}

(* A local command has no authority over shared work: advice is text, and  *)
(* the reasons of the retry advice stay those of the local policy.         *)
ApplySharedReport(r, code) ==
  [r EXCEPT
     !.schema = SharedSchema,
     !.shared = TRUE,
     !.analyzers = @ \cup {"builtin.shared"},
     !.actions = [n \in DOMAIN @ |-> [@[n] EXCEPT !.execution = "none", !.command = None, !.run = 0]],
     !.retry.policy = "unknown",
     !.retry.verdict = IF code = "shared.cancelled" THEN "not_applicable"
                       ELSE IF code \in SharedCodes THEN "unknown" ELSE @]

-----------------------------------------------------------------------------
(* Steps.                                                                  *)

Init ==
  /\ \/ pc = "collect" /\ evidence \in Bundles
     \/ pc = "verify" /\ evidence \in Wrappers
  /\ at = 0
  /\ cancelled = FALSE
  /\ candidates = <<>>
  /\ report = NoReport
  /\ error = None
  /\ earlier = {}

Stop(why) ==
  /\ pc' = "done"
  /\ error' = why
  /\ UNCHANGED <<evidence, at, cancelled, candidates, report, earlier>>

Goto(next) == pc' = next /\ at' = 0
Keep == UNCHANGED <<evidence, cancelled, report, error, earlier>>

(* enrichment.Collect, one artifact at a time.                             *)
CollectArtifact ==
  /\ pc = "collect"
  /\ at < Len(evidence.artifacts)
  /\ ~ cancelled
  /\ evidence' = [evidence EXCEPT !.enrichment = WithArtifact(@, evidence.artifacts[at + 1])]
  /\ at' = at + 1
  /\ UNCHANGED <<pc, cancelled, candidates, report, error, earlier>>

Collected ==
  /\ pc = "collect"
  /\ at = Len(evidence.artifacts) \/ Len(evidence.enrichment) = MaximumItems
  /\ Goto("verify")
  /\ UNCHANGED candidates
  /\ Keep

Verified ==
  /\ pc = "verify"
  /\ ValidFailureEvidence(evidence)
  /\ ~ (evidence.shared /\ evidence.source # "none")
  /\ Goto("classes")
  /\ candidates' = SharedCandidates \o IntentionalFalseCandidate
  /\ Keep

Refuse ==
  /\ pc = "verify"
  /\ ~ ValidFailureEvidence(evidence) \/ (evidence.shared /\ evidence.source # "none")
  /\ Stop("evidence")

Classes == PrimaryItems("FailureClass")

AnalyzeClass ==
  /\ pc = "classes"
  /\ at < Len(Classes)
  /\ ~ cancelled
  /\ at' = at + 1
  /\ LET item == Classes[at + 1] IN
     candidates' = IF ~ item.ok \/ item.value = "" THEN candidates
                   ELSE Append(candidates, CoreFailureCandidate(item.value, {item.id} \cup RelatedEvidence(item)))
  /\ UNCHANGED pc
  /\ Keep

ClassesDone ==
  /\ pc = "classes"
  /\ at = Len(Classes)
  /\ Goto("artifacts")
  /\ UNCHANGED candidates
  /\ Keep

AnalyzeArtifact ==
  /\ pc = "artifacts"
  /\ at < Len(evidence.artifacts)
  /\ ~ cancelled
  /\ at' = at + 1
  /\ LET artifact == evidence.artifacts[at + 1] IN
     candidates' = IF PrimaryArtifact(artifact.id) THEN candidates \o ArtifactCandidate(artifact) ELSE candidates
  /\ UNCHANGED pc
  /\ Keep

(* A cancelled artifact loop returns what it has; the caller looks at the  *)
(* context again before it goes on.                                        *)
ArtifactsDone ==
  /\ pc = "artifacts"
  /\ at = Len(evidence.artifacts) \/ cancelled
  /\ Goto("enriched")
  /\ candidates' = candidates \o EnrichmentCandidates
  /\ Keep

BugIgnoreContext == \* the last look at the context is left out
  /\ pc = "enriched"
  /\ \E recurring \in (IF Recurring = {} THEN {{}} ELSE {{id} : id \in Recurring}) :
       LET all == candidates \o SecondaryCandidates(recurring) IN
       candidates' = IF all = <<>> THEN <<StateCandidate>> ELSE all
  /\ Goto("report")
  /\ Keep

Settle ==
  /\ pc = "enriched"
  /\ ~ cancelled
  /\ \E recurring \in (IF Recurring = {} THEN {{}} ELSE {{id} : id \in Recurring}) :
       LET all == candidates \o SecondaryCandidates(recurring) IN
       candidates' = IF all = <<>> THEN <<StateCandidate>> ELSE all
  /\ Goto("report")
  /\ Keep

Report ==
  /\ pc = "report"
  /\ LET findings == Findings(candidates)
         primary  == Ranked(candidates)[1]
         draft    == Draft(findings, primary)
         whole    == Normalized(IF evidence.shared THEN ApplySharedReport(draft, primary.code) ELSE draft)
         refused  == IF NotCited \in draft.citations THEN "citations"
                     ELSE IF ~ Valid(whole) THEN "seal"
                     ELSE IF ~ ValidateAgainstEvidence(whole, evidence) THEN "validate" ELSE None
     IN error' = refused /\ report' = IF refused = None THEN whole ELSE report
  /\ pc' = "done"
  /\ UNCHANGED <<evidence, at, cancelled, candidates, earlier>>

(* A loop that finds the context done gives up.                            *)
GiveUp ==
  /\ cancelled
  /\ \/ pc = "collect" /\ (at = 0 \/ at < Len(evidence.artifacts))
     \/ pc = "classes" /\ at < Len(Classes)
     \/ pc = "enriched"
  /\ Stop("cancelled")

Cancel ==
  /\ pc \notin {"done", "report"}
  /\ ~ cancelled
  /\ cancelled' = TRUE
  /\ UNCHANGED <<pc, evidence, at, candidates, report, error, earlier>>

(* The same wrapper is diagnosed again.                                    *)
Again ==
  /\ pc = "done"
  /\ report # NoReport
  /\ Cardinality(earlier) + 1 < Diagnoses
  /\ earlier' = earlier \cup {report}
  /\ pc' = "verify"
  /\ at' = 0
  /\ candidates' = <<>>
  /\ report' = NoReport
  /\ UNCHANGED <<evidence, cancelled, error>>

Done == pc = "done" /\ UNCHANGED vars

Diagnose == \/ CollectArtifact \/ Collected \/ Verified \/ Refuse \/ AnalyzeClass \/ ClassesDone
            \/ AnalyzeArtifact \/ ArtifactsDone \/ Settle \/ Report \/ GiveUp

Next == Diagnose \/ Cancel \/ Again \/ Done

Spec == Init /\ [][Next]_vars /\ WF_vars(Diagnose)

-----------------------------------------------------------------------------
(* Properties.                                                             *)

Reported == pc = "done" /\ report # NoReport
Codes(fs) == {f.code : f \in ToSet(fs)}

(* Diagnosis fails only on evidence it must refuse and on cancellation:    *)
(* whatever combination of facts, logs and omissions the evidence holds,   *)
(* the report built from it cites only what exists, lists nothing twice,   *)
(* has only allowlisted actions on selected runs, and passes Seal and      *)
(* ValidateAgainstEvidence.                                                *)
EveryReportSeals == pc = "done" => error \in {None, "evidence", "cancelled"}

ExactClasses == {"executable_not_found", "working_directory_missing", "permission_denied", "job_timeout",
                 "run_timeout", "timeout", "user_cancellation", "ownership_lost",
                 "supervisor_claim_expired", "signal_termination"}

TargetCodes == TargetDiagnosticRules \cup {StructureRule[c][2] : c \in DOMAIN StructureRule}

(* "Exact launch, lifecycle, and policy facts continue to outrank target   *)
(* messages": when the selected run's class is one of them, no log output  *)
(* takes its place as the primary finding.                                 *)
TrustedOutranksTarget ==
  (Reported /\ \E i \in ToSet(Decoded(Classes)) : i.value \in ExactClasses)
    => report.findings[1].code \notin TargetCodes

OfJobOrRun(id, run) ==
  \/ \E i \in ToSet(evidence.items) : i.id = id /\ i.at \in {Job, run}
  \/ \E a \in ToSet(evidence.artifacts) :
       /\ a.run = run
       /\ \/ a.id = id
          \/ \E e \in ToSet(evidence.enrichment) : e.id = id /\ e.artifact = a.id

(* A shared report about a historical run rests on that run's own facts    *)
(* and logs and on the job's: never on another run's observation, and its  *)
(* outcome never on the job's present one.                                 *)
SharedNeverBorrows ==
  (Reported /\ evidence.shared /\ evidence.runs # <<>>) =>
    \A f \in ToSet(report.findings) :
      f.code \notin {"secondary.notification_failed", "secondary.same_fingerprint_history"} =>
        \A id \in f.support : OfJobOrRun(id, Last(evidence.runs)) /\ id[1] # "JobOutcome"

(* What the report would be made of if nobody ever cancelled.              *)
WholeCodes ==
  (UNION {Codes(ArtifactCandidate(a)) : a \in {b \in ToSet(evidence.artifacts) : PrimaryArtifact(b.id)}})
    \cup Codes(EnrichmentCandidates)
    \cup {CoreFailureCandidate(i.value, {}).code : i \in {j \in ToSet(Decoded(Classes)) : j.value # ""}}

(* A cancellation ends the diagnosis or comes too late: it never thins the *)
(* report out.  The artifact loop returns what it has when the context is  *)
(* done, so this rests on the caller looking at the context once more.     *)
ReportIsWhole == Reported => WholeCodes \subseteq Codes(report.findings)

(* What enrichment collected of the messages of the logs, and the last     *)
(* message collected of each log.                                          *)
CollectedMessages ==
  {i \in ToSet(evidence.enrichment) :
     i.code = "causal" /\ PrimaryArtifact(i.artifact) /\ DiagnosticFormat(i) \in TargetDiagnosticRules}

LastMessages ==
  {i \in CollectedMessages :
     \A j \in ToSet(evidence.enrichment) :
       (j.code = "causal" /\ j.artifact = i.artifact) => j.start <= i.start}

Diagnosed(messages) == {DiagnosticFormat(i) : i \in messages}

Cited(code, messages) ==
  \E f \in ToSet(report.findings) :
    /\ f.code = code
    /\ \E i \in messages : DiagnosticFormat(i) = code /\ f.support = {i.id}

(* What the two passes over the enrichment and the choice of one candidate *)
(* per code leave of the collected messages: every diagnosis among them is *)
(* a finding that cites one message of that diagnosis, the last message of *)
(* a log where it is one; and the diagnoses of last messages are ranked    *)
(* before all the others.  Of the lines of a log it says nothing: see      *)
(* FinalMessageIsPrimary.                                                  *)
LastMessageLeads ==
  Reported =>
    LET final == Diagnosed(LastMessages) IN
    /\ \A code \in Diagnosed(CollectedMessages) :
         Cited(code, IF code \in final THEN LastMessages ELSE CollectedMessages)
    /\ \A n, m \in DOMAIN report.findings :
         /\ report.findings[n].code \in final
         /\ report.findings[m].code \in Diagnosed(CollectedMessages) \ final
         => n < m

(* The finding whose support is a message range that starts at this line.  *)
CitesLine(finding, artifact, line) ==
  \E i \in ToSet(evidence.enrichment) :
    i.code = "causal" /\ i.artifact = artifact /\ i.start = line /\ i.id \in finding.support

(* "When one artifact contains multiple causal messages, the final         *)
(* recognized diagnostic range is primary and earlier recognized ranges    *)
(* remain separately cited findings" (DETERMINISTIC_ANALYZERS.md): every   *)
(* recognized line of a log has a finding of its own, the last line's      *)
(* before the others.  The code collects the first MaximumMessages         *)
(* messages only and keeps one candidate of a code.                        *)
FinalMessageIsPrimary ==
  Reported =>
    \A a \in {b \in ToSet(evidence.artifacts) : PrimaryArtifact(b.id)} :
      LET lines == Messages(a.log) IN
      Len(lines) > 1 =>
        \E place \in Injection(DOMAIN lines, DOMAIN report.findings) :
          \A n \in DOMAIN lines :
            /\ CitesLine(report.findings[place[n]], a.id, lines[n])
            /\ place[Len(lines)] <= place[n]

(* "Explicit cancellation and success produce `not_applicable`"            *)
(* (DETERMINISTIC_ANALYZERS.md), when no failure is recorded either.  The  *)
(* code goes by the primary finding, which after a success may be a failed *)
(* notification or a message of the log.                                   *)
SuccessNeedsNoRetry ==
  (Reported /\ ~ evidence.shared /\ evidence.outcome = "success" /\ ByCode("FailureClass") = <<>>)
    => report.retry.verdict = "not_applicable"

(* "A fixed evidence bundle ... produce[s] the same semantic report_id":   *)
(* two diagnoses of the same evidence give the same report.                *)
EvidenceDeterminesReport == Reported => earlier \subseteq {report}
=============================================================================
