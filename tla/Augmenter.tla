------------------------------ MODULE Augmenter ------------------------------
(***************************************************************************)
(* One generated diagnosis: Augmenter.Diagnose of                          *)
(* internal/generation/augmenter.go.  The deterministic engine answers     *)
(* first; the report it gives is then offered, with a projection of the    *)
(* evidence, to one language-model provider.  The provider's proposal is   *)
(* untrusted: it is validated (provider/codec.go) and either reconciled    *)
(* with the deterministic report, or the report is sealed as a fallback,   *)
(* or, under --require-model, the call fails.                              *)
(*                                                                         *)
(* Four parties act concurrently: the diagnosis itself, the provider, the  *)
(* deadline of the request context, and the caller who may cancel.         *)
(*                                                                         *)
(* Texts, digests and limits on bytes are abstracted to what the           *)
(* properties distinguish.  Sets stand for the lists that Seal sorts and   *)
(* checks for duplicates only where no duplicate can be told apart.        *)
(*                                                                         *)
(* Operators named Bug... are deliberate mistakes no definition uses: put  *)
(* in place of the definition that follows them, each breaks the property  *)
(* PROJECT.json pairs it with.                                             *)
(***************************************************************************)
EXTENDS Naturals, SequencesExt, Lists

CONSTANTS
  Evidence,          \* IDs of the items, artifacts, enrichment and snippets collected
  LogContent,        \* those of them disclosed under the class log_content
  Source,            \* those of them that are source snippets
  Bases,             \* the reports the deterministic engine may give
  Responses,         \* the responses the provider may send
  GeneratedCodes,    \* missing-evidence codes with the prefix "generated."
  GuidanceFor,       \* the action code of the fixed guidance, per hypothesis code
  MaximumReferences, \* bounds of provider/codec.go
  MaximumActions,
  MaximumMissing

VARIABLES
  pc,        \* where Diagnose is
  required,  \* --require-model
  base,      \* the deterministic report
  request,   \* what Prepare sealed: the evidence shown, and whether it holds a causal signal
  provider,  \* "idle", "working", "answered" or "failed"
  received,  \* evidence the provider has actually been given
  response,  \* the provider's response
  caller,    \* "waiting" or the place Diagnose was at when the caller cancelled
  deadline,  \* the request context has timed out
  events,    \* progress events emitted, in order
  error,     \* why Diagnose failed, or "none"
  report     \* the report Diagnose returned

vars == <<pc, required, base, request, provider, received, response, caller,
          deadline, events, error, report>>

NoReport   == [mode |-> "none"]
NoRequest  == [shown |-> {}, signal |-> FALSE]
NoResponse == [genuine |-> FALSE]

Init ==
  /\ pc = "base"
  /\ required \in BOOLEAN
  /\ base = NoReport
  /\ request = NoRequest
  /\ provider = "idle"
  /\ received = {}
  /\ response = NoResponse
  /\ caller = "waiting"
  /\ deadline = FALSE
  /\ events = <<>>
  /\ error = "none"
  /\ report = NoReport

-----------------------------------------------------------------------------
(* Validation of a proposal against the request it answers.                *)

Unique(s) == IsInjective(s)

HypothesisAllowed(h) ==
  LET causal == request.shown \cap LogContent IN
  /\ h.acceptable
  /\ h.support # {}
  /\ Cardinality(h.support) <= MaximumReferences
  /\ h.support \subseteq request.shown
  /\ h.contradicts = {}
  /\ causal # {} => h.support \cap causal # {}

BugValidateSetsOnly(p) ==  \* duplicates are not looked for
  /\ p.wellFormed
  /\ p.hypotheses # <<>> => request.signal
  /\ Len(p.hypotheses) <= 1
  /\ \A h \in ToSet(p.hypotheses) : HypothesisAllowed(h)
  /\ ToSet(p.actions) \subseteq {a.id : a \in ToSet(base.actions)}
  /\ ToSet(p.missing) \subseteq GeneratedCodes

ValidProposal(p) ==
  /\ p.wellFormed
  /\ Len(p.hypotheses) <= 1
  /\ Len(p.actions) <= MaximumActions
  /\ Len(p.missing) <= MaximumMissing
  /\ p.hypotheses # <<>> => request.signal
  /\ \A h \in ToSet(p.hypotheses) : HypothesisAllowed(h)
  /\ Unique(p.actions)
  /\ ToSet(p.actions) \subseteq {a.id : a \in ToSet(base.actions)}
  /\ Unique(p.missing)
  /\ ToSet(p.missing) \subseteq GeneratedCodes

Abstains(p) == p.hypotheses = <<>> /\ p.actions = <<>> /\ p.missing = <<>>

-----------------------------------------------------------------------------
(* Reconciliation.  A valid proposal has at most one hypothesis, so the    *)
(* loops over the hypotheses run at most once.                             *)

DuplicatesDeterministicFinding(h, findings) ==
  /\ h.contradicts = {}
  /\ \E f \in ToSet(findings) : /\ ~ f.generated
                                /\ h.code = f.code \/ h.text = f.text
                                /\ h.support = f.support

GeneratedFinding(n, h) ==
  [id |-> <<n, h.code>>, code |-> h.code, text |-> h.text, support |-> h.support,
   target |-> FALSE, generated |-> TRUE]

BugGeneratedFirst(findings, hypotheses) ==
  IF hypotheses = <<>> THEN findings
  ELSE <<GeneratedFinding(Len(findings) + 1, Head(hypotheses))>> \o findings

AppendHypothesis(findings, hypotheses) ==
  IF hypotheses = <<>> \/ DuplicatesDeterministicFinding(Head(hypotheses), findings)
  THEN findings
  ELSE Append(findings, GeneratedFinding(Len(findings) + 1, Head(hypotheses)))

ZeroAction == [id |-> "", code |-> "", support |-> {}]

ActionById(actions, id) ==
  IF \E a \in ToSet(actions) : a.id = id
  THEN CHOOSE a \in ToSet(actions) : a.id = id
  ELSE ZeroAction

BugKeepPreferredOnly(actions, preferred) ==
  IF preferred = <<>> THEN actions
  ELSE [i \in DOMAIN preferred |-> ActionById(actions, preferred[i])]

ReorderActions(actions, preferred) ==
  LET others == {i \in DOMAIN actions : actions[i].id \notin ToSet(preferred)} IN
  [i \in DOMAIN preferred |-> ActionById(actions, preferred[i])] \o Picked(actions, others)

GuidanceId == "generated-guidance"

PrependGeneratedGuidance(actions, hypotheses) ==
  IF \/ hypotheses = <<>>
     \/ Head(hypotheses).code \notin DOMAIN GuidanceFor
     \/ \E a \in ToSet(actions) : a.code = GuidanceFor[Head(hypotheses).code]
  THEN actions
  ELSE <<[id |-> GuidanceId, code |-> GuidanceFor[Head(hypotheses).code],
          support |-> Head(hypotheses).support]>> \o actions

GeneratedCitations(hypotheses) == (UNION {h.support : h \in ToSet(hypotheses)}) \cap Evidence

SourceContextWarning ==
  IF request.shown \cap Source # {} THEN <<"source_context_point_in_time">> ELSE <<>>

BugReplaceWarnings(code) ==
  [base EXCEPT !.invoked = TRUE, !.disclosed = request.shown,
               !.warnings = <<code>> \o SourceContextWarning]

BugForgetManifest(code) ==
  [base EXCEPT !.invoked = TRUE, !.warnings = @ \o <<code>>]

(* The report of sealFallback: the deterministic report, a warning and the *)
(* manifest of the attempted disclosure.                                   *)
Fallback(code) ==
  [base EXCEPT !.invoked = TRUE, !.disclosed = request.shown,
               !.warnings = @ \o <<code>> \o SourceContextWarning]

BugDiscloseCitedOnly(p) ==
  [base EXCEPT
     !.mode = "mixed", !.invoked = TRUE, !.used = TRUE,
     !.disclosed = GeneratedCitations(p.hypotheses),
     !.findings = AppendHypothesis(@, p.hypotheses)]

Reconciled(p) ==
  [base EXCEPT
     !.mode = "mixed", !.invoked = TRUE, !.used = TRUE, !.disclosed = request.shown,
     !.findings = AppendHypothesis(@, p.hypotheses),
     !.actions  = PrependGeneratedGuidance(ReorderActions(@, p.actions), p.hypotheses),
     !.cited    = @ \cup GeneratedCitations(p.hypotheses),
     !.missing  = @ \o p.missing,
     !.warnings = @ \o <<"generated_content_uncalibrated">> \o SourceContextWarning]

(* What Seal and ValidateAgainstEvidence demand of a report.               *)
References(r) == UNION ({f.support : f \in ToSet(r.findings)} \cup {a.support : a \in ToSet(r.actions)})

Sealable(r) ==
  /\ r.findings # <<>>
  /\ Unique([i \in DOMAIN r.findings |-> r.findings[i].id])
  /\ Unique([i \in DOMAIN r.actions |-> r.actions[i].id])
  /\ \A a \in ToSet(r.actions) : a.id # ""
  /\ Unique(r.missing)
  /\ Unique(r.warnings)
  /\ r.cited \subseteq Evidence
  /\ References(r) \subseteq r.cited
  /\ r.disclosed \subseteq Evidence
  /\ r.used => r.invoked /\ r.disclosed # {}
  /\ (r.mode = "mixed") = r.used

-----------------------------------------------------------------------------
(* The diagnosis.                                                          *)

Fail(why) ==
  /\ error' = why
  /\ pc' = "done"
  /\ UNCHANGED report

Give(r) ==
  /\ pc' = "done"
  /\ IF Sealable(r) THEN report' = r /\ UNCHANGED error
                    ELSE error' = "seal" /\ UNCHANGED report

BugSilentFallback(code) == Give(Fallback(code)) /\ UNCHANGED events

(* The optional stage did not contribute: announce it and give the         *)
(* deterministic report.                                                   *)
Degrade(code) ==
  /\ events' = Append(events, "fallback")
  /\ Give(Fallback(code))

HandleFailure(code) ==
  \/ required /\ Fail(code) /\ UNCHANGED events
  \/ ~ required /\ Degrade(code)

BaseDiagnose ==
  /\ pc = "base"
  /\ \/ /\ Fail("base")
        /\ UNCHANGED <<base, events>>
     \/ /\ base' \in Bases
        /\ events' = Append(events, "preparing")
        /\ pc' = "prepare"
        /\ UNCHANGED <<error, report>>
  /\ UNCHANGED <<required, request, provider, received, response, caller, deadline>>

(* A disclosure policy, a size limit or the lack of a deterministic        *)
(* candidate that the projection supports ends the call with an error.     *)
HasCandidate(shown) ==
  \E f \in ToSet(base.findings) : ~ f.target /\ f.support \cap shown # {}

Prepare ==
  /\ pc = "prepare"
  /\ \/ /\ Fail("prepare")
        /\ UNCHANGED <<request, events>>
     \/ /\ \E shown \in SUBSET Evidence, signal \in BOOLEAN :
             /\ HasCandidate(shown)
             /\ request' = [shown |-> shown, signal |-> signal]
        /\ events' = Append(events, "waiting")
        /\ pc' = "await"
        /\ UNCHANGED <<error, report>>
  /\ UNCHANGED <<required, base, provider, received, response, caller, deadline>>

GenerateFailed ==
  /\ pc = "await"
  /\ provider = "failed"
  /\ \/ /\ caller # "waiting"
        /\ Fail("canceled")
        /\ UNCHANGED events
     \/ /\ caller = "waiting"
        /\ HandleFailure("generator_failed")
  /\ UNCHANGED <<required, base, request, provider, received, response, caller, deadline>>

GenerateAnswered ==
  /\ pc = "await"
  /\ provider = "answered"
  /\ events' = Append(events, "validating")
  /\ pc' = "judge"
  /\ UNCHANGED <<required, base, request, provider, received, response, caller, deadline, error, report>>

Judge ==
  /\ pc = "judge"
  /\ \/ /\ ~ response.genuine
        /\ HandleFailure("generator_provenance_invalid")
     \/ /\ response.genuine
        /\ ~ ValidProposal(response.proposal)
        /\ HandleFailure("generator_proposal_invalid")
     \/ /\ response.genuine
        /\ ValidProposal(response.proposal)
        /\ Abstains(response.proposal)
        /\ Degrade("generator_abstained")
     \/ /\ response.genuine
        /\ ValidProposal(response.proposal)
        /\ ~ Abstains(response.proposal)
        /\ Give(Reconciled(response.proposal))
        /\ UNCHANGED events
  /\ UNCHANGED <<required, base, request, provider, received, response, caller, deadline>>

Diagnose == BaseDiagnose \/ Prepare \/ GenerateFailed \/ GenerateAnswered \/ Judge

-----------------------------------------------------------------------------
(* The provider adapter, the deadline and the caller.  The adapter may     *)
(* fail before it sends anything; once its context is done it returns, but *)
(* a response that is already complete is still returned as a success.     *)

ContextDone == deadline \/ caller # "waiting"

Send ==
  /\ pc = "await"
  /\ provider = "idle"
  /\ ~ ContextDone
  /\ provider' = "working"
  /\ received' = request.shown
  /\ UNCHANGED <<pc, required, base, request, response, caller, deadline, events, error, report>>

Answer ==
  /\ pc = "await"
  /\ provider = "working"
  /\ response' \in Responses
  /\ provider' = "answered"
  /\ UNCHANGED <<pc, required, base, request, received, caller, deadline, events, error, report>>

AdapterFails ==
  /\ pc = "await"
  /\ provider \in {"idle", "working"}
  /\ provider' = "failed"
  /\ UNCHANGED <<pc, required, base, request, received, response, caller, deadline, events, error, report>>

AdapterGivesUp == ContextDone /\ AdapterFails

BugNoTimeout == FALSE /\ UNCHANGED vars

DeadlineExpires ==
  /\ pc \in {"await", "judge"}
  /\ ~ deadline
  /\ deadline' = TRUE
  /\ UNCHANGED <<pc, required, base, request, provider, received, response, caller, events, error, report>>

CallerCancels ==
  /\ pc # "done"
  /\ caller = "waiting"
  /\ caller' = pc
  /\ UNCHANGED <<pc, required, base, request, provider, received, response, deadline, events, error, report>>

Done == pc = "done" /\ UNCHANGED vars

Next == Diagnose \/ Send \/ Answer \/ AdapterFails \/ DeadlineExpires \/ CallerCancels \/ Done

(* Straight-line code runs on; the timer fires; an adapter whose context   *)
(* is done returns (HTTP requests carry the context, the command bridge    *)
(* kills its process group and waits at most WaitDelay).                   *)
Fairness == WF_vars(Diagnose) /\ WF_vars(DeadlineExpires) /\ WF_vars(AdapterGivesUp)

Spec == Init /\ [][Next]_vars /\ Fairness

-----------------------------------------------------------------------------
(* Types.                                                                  *)

Modes  == {"deterministic", "mixed"}
Places == {"base", "prepare", "await", "judge", "done"}
FailureCodes == {"generator_failed", "generator_provenance_invalid", "generator_proposal_invalid"}

IsReport(r) ==
  /\ DOMAIN r = {"findings", "actions", "cited", "missing", "warnings", "mode",
                 "invoked", "used", "disclosed"}
  /\ r.mode \in Modes
  /\ r.invoked \in BOOLEAN /\ r.used \in BOOLEAN
  /\ r.disclosed \subseteq Evidence

IsList(s) == s \in Seq(ToSet(s))

(* What the deterministic engine seals: see internal/engine/engine.go.     *)
ASSUME BasesAssumption ==
  \A b \in Bases :
    /\ IsReport(b)
    /\ b.mode = "deterministic" /\ ~ b.invoked /\ ~ b.used /\ b.disclosed = {}
    /\ Sealable(b)
    /\ IsList(b.findings) /\ IsList(b.actions) /\ IsList(b.missing) /\ IsList(b.warnings)
    /\ \A f \in ToSet(b.findings) : ~ f.generated
    /\ \A i \in DOMAIN b.findings : b.findings[i].id[1] = i
    /\ \A a \in ToSet(b.actions) : a.id # GuidanceId
    /\ ToSet(b.missing) \cap GeneratedCodes = {}
    /\ ToSet(b.warnings) \cap (FailureCodes \cup {"generator_abstained",
         "generated_content_uncalibrated", "source_context_point_in_time"}) = {}

(* What decoding makes of a JSON object: absent lists are empty.            *)
ASSUME ResponsesAssumption ==
  \A r \in Responses :
    /\ r.genuine \in BOOLEAN
    /\ IsList(r.proposal.hypotheses) /\ IsList(r.proposal.actions) /\ IsList(r.proposal.missing)

TypeOK ==
  /\ pc \in Places
  /\ required \in BOOLEAN
  /\ base \in Bases \cup {NoReport}
  /\ request.shown \subseteq Evidence /\ request.signal \in BOOLEAN
  /\ provider \in {"idle", "working", "answered", "failed"}
  /\ received \subseteq Evidence
  /\ response \in Responses \cup {NoResponse}
  /\ caller \in {"waiting"} \cup (Places \ {"done"})
  /\ deadline \in BOOLEAN
  /\ error \in {"none", "base", "prepare", "canceled", "seal"} \cup FailureCodes
  /\ report = NoReport \/ IsReport(report)

-----------------------------------------------------------------------------
(* Safety.                                                                 *)

Returned == report # NoReport
Degraded == Returned /\ report.mode = "deterministic"

(* A returned report keeps every deterministic finding, in its place and   *)
(* before anything generated, and adds at most one generated finding       *)
(* (augmenter.go:225-239).                                                 *)
FindingsKeepAuthority ==
  Returned =>
    LET n == Len(base.findings) IN
    /\ Len(report.findings) \in {n, n + 1}
    /\ \A i \in 1 .. n : report.findings[i] = base.findings[i]
    /\ \A i \in n + 1 .. Len(report.findings) : report.findings[i].generated

(* A returned report keeps every deterministic action exactly once and     *)
(* adds at most the fixed guidance, in front.  Untrusted action IDs reach  *)
(* reorderActions, which looks each one up: validation and reordering      *)
(* together keep the list a permutation (augmenter.go:330-374,             *)
(* codec.go:738-745).                                                      *)
ActionsKeepAuthority ==
  Returned =>
    LET guidance == {i \in DOMAIN report.actions : report.actions[i].id = GuidanceId} IN
    /\ guidance \subseteq {1}
    /\ ToSet(report.actions) \ {report.actions[i] : i \in guidance} = ToSet(base.actions)
    /\ Len(report.actions) = Len(base.actions) + Cardinality(guidance)

(* A fallback report is the complete deterministic result: findings,       *)
(* actions, citations and missing evidence are those of the engine, and    *)
(* its warnings are kept (augmenter.go:179-208).                           *)
FallbackIsComplete ==
  Degraded => /\ report.findings = base.findings
              /\ report.actions = base.actions
              /\ report.cited = base.cited
              /\ report.missing = base.missing
              /\ ToSet(base.warnings) \subseteq ToSet(report.warnings)

(* Whatever the provider was given is in the disclosure manifest of every  *)
(* report the call can return, after any failure and any cancellation, and *)
(* a generated finding rests only on evidence that was disclosed           *)
(* (projection.go:128-149, codec.go:690-718).                              *)
ManifestCoversProvider ==
  Returned => /\ received \subseteq report.disclosed
              /\ report.invoked
              /\ \A f \in ToSet(report.findings) : f.generated => f.support \subseteq received

(* No answer a provider can send makes the reconciled or fallback report   *)
(* fail its own sealing: a valid proposal is never turned into an internal *)
(* error, and the fallback is always available (augmenter.go:199-205,      *)
(* 256-262).                                                               *)
EveryAnswerSeals == error # "seal"

(* Under --require-model a report without generated content means that the *)
(* model abstained; a provider-stage failure never returns a report        *)
(* (augmenter.go:140-157).                                                 *)
RequiredNeverFallsBack ==
  required /\ Degraded => "generator_abstained" \in ToSet(report.warnings)

(* A fallback happens only where it may, and gives up nothing.             *)
FallbackIsSound == FallbackIsComplete /\ RequiredNeverFallsBack

(* The user is told "fallback" exactly when the model did not contribute,  *)
(* and never "validating" for an answer that never came.                   *)
ProgressMatchesOutcome ==
  /\ Returned => (Degraded <=> Last(events) = "fallback")
  /\ "validating" \in ToSet(events) => received = request.shown /\ response \in Responses

(* Every diagnosis returns, whatever the provider does.                    *)
Termination == <>(pc = "done")

(* docs/SECURITY_MODEL.md:238 promises that cancellation always stops the  *)
(* operation rather than degrading to a fallback report: a caller who      *)
(* cancelled while the provider was still at work gets no fallback.        *)
CancellationNeverDegrades == Degraded => caller # "await"

-----------------------------------------------------------------------------
(* The promise a caller relies on.                                         *)

Verdict == IF Returned THEN IF Degraded THEN "fallback" ELSE "mixed"
                        ELSE IF error = "none" THEN "pending" ELSE "error"

Disclosed == IF report = NoReport THEN {} ELSE report.disclosed

Promise == INSTANCE AdvicePromise WITH verdict <- Verdict, disclosed <- Disclosed

(* The diagnosis implements the promise.                                   *)
KeepsPromise == Promise!Spec

=============================================================================
