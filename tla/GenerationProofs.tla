-------------------------- MODULE GenerationProofs --------------------------
(***************************************************************************)
(* Theorems about generated diagnoses: about Augmenter, which admits them, *)
(* for every set of evidence, every engine report and every provider       *)
(* answer, and about Evaluation, which measures them, for every corpus,    *)
(* number of repeats, set of answers and set of policies.                  *)
(*                                                                         *)
(* Admission: a call ends with a report in exactly two ways, as the        *)
(* fallback of the engine's report or as its reconciliation with a         *)
(* proposal that passed validation (ReportInv); while it runs, the         *)
(* provider has been given nothing or exactly what the request shows       *)
(* (ControlInv).  Every property is a consequence of these two.            *)
(*                                                                         *)
(* Measurement: the counters and the violations of one execution are       *)
(* computed apart.  PassedCounts compares them: an execution without a     *)
(* violation counts in full wherever it is counted (Perfect), and          *)
(* ExecutionEarns: an execution counts only where it deserves to.  The     *)
(* first sums up to PassedInv, the second to EarnedInv, where a counter    *)
(* that is as high as it can be speaks for every result.                   *)
(***************************************************************************)
EXTENDS Augmenter, Evaluation, ListProofs

(***************************************************************************)
(* Admission.                                                              *)
(***************************************************************************)

ControlInv ==
  /\ pc # "done" => report = NoReport /\ error = "none"
  /\ pc \in {"base", "prepare"} => provider = "idle" /\ received = {} /\ request = NoRequest
  /\ pc \in {"prepare", "await", "judge"} => base \in Bases
  /\ pc \in {"await", "judge"} => request.shown # {}
  /\ pc = "judge" => provider = "answered"
  /\ provider = "idle" => received = {}
  /\ provider \in {"working", "answered"} => received = request.shown
  /\ provider = "answered" => response \in Responses
  /\ received \subseteq request.shown

FallbackCodes == FailureCodes \cup {"generator_abstained"}

IsFallback ==
  \E code \in FallbackCodes : /\ report = Fallback(code)
                              /\ required => code = "generator_abstained"

IsReconciled ==
  /\ report = Reconciled(response.proposal)
  /\ ValidProposal(response.proposal)
  /\ response \in Responses
  /\ received = request.shown
  /\ received # {}

ReportInv == Returned => base \in Bases /\ (IsFallback \/ IsReconciled)

IInv == TypeOK /\ ControlInv /\ ReportInv

-----------------------------------------------------------------------------
(* The two reports a call can give.                                        *)

LEMMA BasesAreReports ==
  ASSUME NEW b \in Bases
  PROVE  /\ IsReport(b)
         /\ b.mode = "deterministic" /\ ~ b.used /\ b.disclosed = {}
BY BasesAssumption

LEMMA FallbackFields ==
  ASSUME base \in Bases, request.shown \subseteq Evidence, NEW code
  PROVE  /\ IsReport(Fallback(code))
         /\ Fallback(code).mode = "deterministic"
         /\ Fallback(code).invoked
         /\ Fallback(code).disclosed = request.shown
         /\ Fallback(code).findings = base.findings
         /\ Fallback(code).actions = base.actions
         /\ Fallback(code).cited = base.cited
         /\ Fallback(code).missing = base.missing
         /\ Fallback(code).warnings = base.warnings \o <<code>> \o SourceContextWarning
         /\ Fallback(code) # NoReport
<1>1. IsReport(base) /\ base.mode = "deterministic"
  BY BasesAreReports
<1>2. DOMAIN Fallback(code) = DOMAIN base
  BY DEF Fallback
<1>3. Fallback(code) # NoReport
  BY <1>1, <1>2 DEF IsReport, NoReport
<1>4. QED
  BY <1>1, <1>3 DEF Fallback, IsReport, Modes

LEMMA ReconciledFields ==
  ASSUME base \in Bases, request.shown \subseteq Evidence, NEW p
  PROVE  /\ IsReport(Reconciled(p))
         /\ Reconciled(p).mode = "mixed"
         /\ Reconciled(p).invoked
         /\ Reconciled(p).disclosed = request.shown
         /\ Reconciled(p).findings = AppendHypothesis(base.findings, p.hypotheses)
         /\ Reconciled(p) # NoReport
<1>1. IsReport(base) /\ base.mode = "deterministic"
  BY BasesAreReports
<1>2. DOMAIN Reconciled(p) = DOMAIN base
  BY DEF Reconciled
<1>3. Reconciled(p) # NoReport
  BY <1>1, <1>2 DEF IsReport, NoReport
<1>4. QED
  BY <1>1, <1>3 DEF Reconciled, IsReport, Modes

(* Both depend only on the engine's report, the request and the proposal.  *)
LEMMA ReportsAreStable ==
  ASSUME UNCHANGED <<base, request, response>>
  PROVE  /\ \A code : Fallback(code)' = Fallback(code)
         /\ Reconciled(response.proposal)' = Reconciled(response.proposal)
         /\ ValidProposal(response.proposal)' = ValidProposal(response.proposal)
BY DEF Fallback, Reconciled, ValidProposal, SourceContextWarning, HypothesisAllowed

-----------------------------------------------------------------------------
(* The ways a call ends.                                                   *)

LEMMA FailKeepsInv ==
  ASSUME IInv, NEW why \in {"base", "prepare", "canceled"} \cup FailureCodes, Fail(why),
         pc # "done",
         UNCHANGED <<required, base, request, provider, received, response, caller, deadline>>
  PROVE  IInv'
BY DEF IInv, TypeOK, ControlInv, ReportInv, Fail, Returned, Places

LEMMA DegradeKeepsInv ==
  ASSUME IInv, NEW code \in FallbackCodes, Degrade(code), pc \in {"await", "judge"},
         required => code = "generator_abstained",
         UNCHANGED <<required, base, request, provider, received, response, caller, deadline>>
  PROVE  IInv'
<1>1. base \in Bases /\ request.shown \subseteq Evidence
  BY DEF IInv, TypeOK, ControlInv
<1>2. IsReport(Fallback(code)) /\ Fallback(code) # NoReport
  BY <1>1, FallbackFields
<1>3. pc' = "done"
  BY DEF Degrade, Give
<1>4. ControlInv'
  BY <1>3 DEF IInv, ControlInv
<1>5. CASE report' = Fallback(code) /\ UNCHANGED error
  <2>1. TypeOK'
    BY <1>2, <1>3, <1>5 DEF IInv, TypeOK, Places
  <2>2. IsFallback'
    BY <1>5, ReportsAreStable DEF IsFallback
  <2>3. QED
    BY <1>1, <1>4, <2>1, <2>2 DEF IInv, ReportInv
<1>6. CASE error' = "seal" /\ UNCHANGED report
  BY <1>3, <1>4, <1>6 DEF IInv, TypeOK, ControlInv, ReportInv, Returned, Places
<1>7. QED
  BY <1>5, <1>6 DEF Degrade, Give

LEMMA ReconcileKeepsInv ==
  ASSUME IInv, ValidProposal(response.proposal), Give(Reconciled(response.proposal)), pc = "judge",
         UNCHANGED <<required, base, request, provider, received, response, caller, deadline>>
  PROVE  IInv'
<1> DEFINE p == response.proposal
<1>1. base \in Bases /\ request.shown \subseteq Evidence
  BY DEF IInv, TypeOK, ControlInv
<1>2. IsReport(Reconciled(p)) /\ Reconciled(p) # NoReport
  BY <1>1, ReconciledFields
<1>3. received = request.shown /\ received # {} /\ response \in Responses
  BY DEF IInv, ControlInv
<1>4. pc' = "done" /\ ControlInv'
  BY DEF IInv, ControlInv, Give
<1>5. CASE report' = Reconciled(p) /\ UNCHANGED error
  <2>1. TypeOK'
    BY <1>2, <1>4, <1>5 DEF IInv, TypeOK, Places
  <2>2. IsReconciled'
    BY <1>3, <1>5, ReportsAreStable DEF IsReconciled
  <2>3. QED
    BY <1>1, <1>4, <2>1, <2>2 DEF IInv, ReportInv
<1>6. CASE error' = "seal" /\ UNCHANGED report
  BY <1>4, <1>6 DEF IInv, TypeOK, ControlInv, ReportInv, Returned, Places
<1>7. QED
  BY <1>5, <1>6 DEF Give

LEMMA HandleFailureKeepsInv ==
  ASSUME IInv, NEW code \in FailureCodes, HandleFailure(code), pc \in {"await", "judge"},
         UNCHANGED <<required, base, request, provider, received, response, caller, deadline>>
  PROVE  IInv'
<1>1. CASE Fail(code)
  BY <1>1, FailKeepsInv
<1>2. CASE ~ required /\ Degrade(code)
  BY <1>2, DegradeKeepsInv DEF FallbackCodes
<1>3. QED
  BY <1>1, <1>2 DEF HandleFailure

-----------------------------------------------------------------------------
(* The invariant.                                                          *)

LEMMA InitIInv == Init => IInv
<1> SUFFICES ASSUME Init
             PROVE  IInv
  OBVIOUS
<1>1. request.shown = {} /\ request.signal = FALSE
  BY DEF Init, NoRequest
<1>2. TypeOK
  BY <1>1 DEF Init, TypeOK, Places
<1>3. ControlInv /\ ReportInv
  BY <1>1 DEF Init, ControlInv, ReportInv, Returned
<1>4. QED
  BY <1>2, <1>3 DEF IInv

(* While the call runs there is no report to speak of.                     *)
LEMMA RunningHasNoReport ==
  ASSUME IInv, pc # "done", UNCHANGED report
  PROVE  ReportInv'
BY DEF IInv, ControlInv, ReportInv, Returned

LEMMA DiagnoseKeepsInv == IInv /\ Diagnose => IInv'
<1> SUFFICES ASSUME IInv, Diagnose
             PROVE  IInv'
  OBVIOUS
<1>1. CASE BaseDiagnose
  <2>1. CASE Fail("base") /\ UNCHANGED base
    BY <1>1, <2>1, FailKeepsInv DEF BaseDiagnose
  <2>2. CASE base' \in Bases /\ pc' = "prepare" /\ UNCHANGED <<error, report>>
    BY <1>1, <2>2, RunningHasNoReport DEF BaseDiagnose, IInv, TypeOK, ControlInv, Places
  <2>3. QED
    BY <1>1, <2>1, <2>2 DEF BaseDiagnose
<1>2. CASE Prepare
  <2>1. CASE Fail("prepare") /\ UNCHANGED request
    BY <1>2, <2>1, FailKeepsInv DEF Prepare
  <2>2. ASSUME NEW shown \in SUBSET Evidence, NEW signal \in BOOLEAN, HasCandidate(shown),
               request' = [shown |-> shown, signal |-> signal],
               pc' = "await", UNCHANGED <<error, report>>
        PROVE  IInv'
    <3>1. shown # {}
      BY <2>2 DEF HasCandidate
    <3>2. QED
      BY <1>2, <2>2, <3>1, RunningHasNoReport DEF Prepare, IInv, TypeOK, ControlInv, Places
  <2>3. QED
    BY <1>2, <2>1, <2>2 DEF Prepare
<1>3. CASE GenerateFailed
  <2>1. CASE Fail("canceled")
    BY <1>3, <2>1, FailKeepsInv DEF GenerateFailed
  <2>2. CASE HandleFailure("generator_failed")
    BY <1>3, <2>2, HandleFailureKeepsInv DEF GenerateFailed, FailureCodes
  <2>3. QED
    BY <1>3, <2>1, <2>2 DEF GenerateFailed
<1>4. CASE GenerateAnswered
  BY <1>4, RunningHasNoReport DEF GenerateAnswered, IInv, TypeOK, ControlInv, Places
<1>5. CASE Judge
  <2>1. CASE HandleFailure("generator_provenance_invalid")
    BY <1>5, <2>1, HandleFailureKeepsInv DEF Judge, FailureCodes
  <2>2. CASE HandleFailure("generator_proposal_invalid")
    BY <1>5, <2>2, HandleFailureKeepsInv DEF Judge, FailureCodes
  <2>3. CASE Degrade("generator_abstained")
    BY <1>5, <2>3, DegradeKeepsInv DEF Judge, FallbackCodes
  <2>4. CASE ValidProposal(response.proposal) /\ Give(Reconciled(response.proposal))
    BY <1>5, <2>4, ReconcileKeepsInv DEF Judge
  <2>5. QED
    BY <1>5, <2>1, <2>2, <2>3, <2>4 DEF Judge
<1>6. QED
  BY <1>1, <1>2, <1>3, <1>4, <1>5 DEF Diagnose

LEMMA StepIInv == IInv /\ [Next]_vars => IInv'
<1> SUFFICES ASSUME IInv, [Next]_vars
             PROVE  IInv'
  OBVIOUS
<1>1. CASE Diagnose
  BY <1>1, DiagnoseKeepsInv
<1>2. CASE Send
  BY <1>2, RunningHasNoReport DEF Send, IInv, TypeOK, ControlInv, Places
<1>3. CASE Answer
  BY <1>3, RunningHasNoReport DEF Answer, IInv, TypeOK, ControlInv, Places
<1>4. CASE AdapterFails
  BY <1>4, RunningHasNoReport DEF AdapterFails, IInv, TypeOK, ControlInv, Places
<1>5. CASE DeadlineExpires
  BY <1>5, RunningHasNoReport DEF DeadlineExpires, IInv, TypeOK, ControlInv, Places
<1>6. CASE CallerCancels
  BY <1>6, RunningHasNoReport DEF CallerCancels, IInv, TypeOK, ControlInv, Places
<1>7. CASE UNCHANGED vars
  BY <1>7, ReportsAreStable
     DEF vars, IInv, TypeOK, ControlInv, ReportInv, Returned, IsFallback, IsReconciled
<1>8. QED
  BY <1>1, <1>2, <1>3, <1>4, <1>5, <1>6, <1>7 DEF Next, Done

THEOREM InductiveInvariant == Spec => []IInv
BY InitIInv, StepIInv, PTL DEF Spec

-----------------------------------------------------------------------------
(* Consequences.                                                           *)

(* The model's variables keep their types: in particular a returned report *)
(* is complete, with a manifest inside the collected evidence.             *)
THEOREM TypeCorrect == Spec => []TypeOK
BY InductiveInvariant, PTL DEF IInv

(* A report without generated content is the fallback of this base.        *)
LEMMA DegradedIsFallback ==
  ASSUME IInv, Degraded
  PROVE  IsFallback /\ base \in Bases /\ request.shown \subseteq Evidence
<1>1. base \in Bases /\ request.shown \subseteq Evidence
  BY DEF IInv, TypeOK, ReportInv, Degraded
<1>2. ~ IsReconciled
  BY <1>1, ReconciledFields DEF IsReconciled, Degraded
<1>3. QED
  BY <1>1, <1>2 DEF IInv, ReportInv, Degraded

(* The fallback appends its code to the warnings of the engine.            *)
LEMMA FallbackWarnings ==
  ASSUME base \in Bases, request.shown \subseteq Evidence, NEW code
  PROVE  ToSet(base.warnings) \cup {code} \subseteq ToSet(Fallback(code).warnings)
<1> DEFINE w    == base.warnings
           tail == SourceContextWarning
           all  == ToSet(w) \cup {code, "source_context_point_in_time"}
<1>1. w \in Seq(ToSet(w))
  BY BasesAssumption DEF IsList
<1>2. w \in Seq(all)
  BY <1>1, SeqMonotonic
<1>3. tail \in Seq(all)
  <2>1. tail = <<>> \/ tail = <<"source_context_point_in_time">>
    BY DEF SourceContextWarning
  <2>2. "source_context_point_in_time" \in all
    OBVIOUS
  <2> HIDE DEF tail, all
  <2>3. CASE tail = <<>>
    BY <2>3, EmptySeq
  <2>4. CASE tail = <<"source_context_point_in_time">>
    BY <2>2, <2>4
  <2>5. QED
    BY <2>1, <2>3, <2>4
<1>4. Fallback(code).warnings = w \o <<code>> \o tail
  BY FallbackFields
<1>5. <<code>> \in Seq(all)
  OBVIOUS
<1> HIDE DEF all, tail, w
<1>6. /\ \A i \in 1 .. Len(w) : (w \o <<code>> \o tail)[i] = w[i]
      /\ (w \o <<code>> \o tail)[Len(w) + 1] = code
      /\ DOMAIN w = 1 .. Len(w)
      /\ 1 .. Len(w) + 1 \subseteq DOMAIN (w \o <<code>> \o tail)
      /\ Len(w) \in Nat
  BY <1>2, <1>3, <1>5
<1>7. ToSet(w) \cup {code} \subseteq ToSet(w \o <<code>> \o tail)
  BY <1>6 DEF ToSet
<1>8. QED
  BY <1>4, <1>7 DEF w

(* The fallback is always the engine's own result, none of it lost or      *)
(* altered, for every provider behaviour (augmenter.go:179-208).           *)
LEMMA FallbackComplete == Spec => []FallbackIsComplete
<1>1. IInv => FallbackIsComplete
  <2> SUFFICES ASSUME IInv, Degraded
               PROVE  FallbackIsComplete
    BY DEF FallbackIsComplete
  <2>1. PICK code \in FallbackCodes : report = Fallback(code)
    BY DegradedIsFallback DEF IsFallback
  <2>2. base \in Bases /\ request.shown \subseteq Evidence
    BY DegradedIsFallback
  <2>3. QED
    BY <2>1, <2>2, FallbackFields, FallbackWarnings DEF FallbackIsComplete
<1>2. QED
  BY <1>1, InductiveInvariant, PTL

(* Under --require-model the only report without generated content is an   *)
(* abstention (augmenter.go:140-157).                                      *)
LEMMA RequiredIsRespected == Spec => []RequiredNeverFallsBack
<1>1. IInv => RequiredNeverFallsBack
  <2> SUFFICES ASSUME IInv, required, Degraded
               PROVE  "generator_abstained" \in ToSet(report.warnings)
    BY DEF RequiredNeverFallsBack
  <2>1. report = Fallback("generator_abstained")
    BY DegradedIsFallback DEF IsFallback
  <2>2. QED
    BY <2>1, DegradedIsFallback, FallbackWarnings
<1>2. QED
  BY <1>1, InductiveInvariant, PTL

(* A fallback happens only where it may, and gives up nothing.             *)
THEOREM FallbackSound == Spec => []FallbackIsSound
BY FallbackComplete, RequiredIsRespected, PTL DEF FallbackIsSound

(* The findings of the engine, then at most one generated finding resting  *)
(* on evidence the request showed (augmenter.go:225-239).                  *)
LEMMA ReconciledFindings ==
  ASSUME base \in Bases, request.shown \subseteq Evidence, response \in Responses,
         ValidProposal(response.proposal)
  PROVE  LET n == Len(base.findings)
             r == Reconciled(response.proposal).findings
         IN  /\ n \in Nat
             /\ \/ r = base.findings
                \/ \E f : /\ r = Append(base.findings, f)
                          /\ f.generated
                          /\ f.support \subseteq request.shown
<1> DEFINE p == response.proposal
           h == Head(p.hypotheses)
           f == GeneratedFinding(Len(base.findings) + 1, h)
<1>1. base.findings \in Seq(ToSet(base.findings))
  BY BasesAssumption DEF IsList
<1>2. Reconciled(p).findings = AppendHypothesis(base.findings, p.hypotheses)
  BY ReconciledFields
<1>3. CASE Reconciled(p).findings = base.findings
  BY <1>1, <1>3
<1>4. CASE p.hypotheses # <<>> /\ Reconciled(p).findings = Append(base.findings, f)
  <2>1. p.hypotheses \in Seq(ToSet(p.hypotheses))
    BY ResponsesAssumption DEF IsList
  <2>2. h \in ToSet(p.hypotheses)
    BY <1>4, <2>1
  <2>3. h.support \subseteq request.shown
    BY <2>2 DEF ValidProposal, HypothesisAllowed
  <2>4. QED
    BY <1>1, <1>4, <2>3 DEF GeneratedFinding
<1>5. QED
  BY <1>2, <1>3, <1>4 DEF AppendHypothesis

(* Untrusted text never displaces, reorders or rewrites a deterministic    *)
(* finding (augmenter.go:225-239).                                         *)
THEOREM FindingsAuthoritative == Spec => []FindingsKeepAuthority
<1>1. IInv => FindingsKeepAuthority
  <2> SUFFICES ASSUME IInv, Returned
               PROVE  FindingsKeepAuthority
    BY DEF FindingsKeepAuthority
  <2>1. base \in Bases /\ request.shown \subseteq Evidence
    BY DEF IInv, TypeOK, ReportInv
  <2> DEFINE n == Len(base.findings)
  <2>2. base.findings \in Seq(ToSet(base.findings)) /\ n \in Nat
    BY <2>1, BasesAssumption DEF IsList
  <2>3. CASE report.findings = base.findings
    BY <2>2, <2>3 DEF FindingsKeepAuthority
  <2>4. CASE \E f : report.findings = Append(base.findings, f) /\ f.generated
    <3>1. PICK f : report.findings = Append(base.findings, f) /\ f.generated
      BY <2>4
    <3>2. base.findings \in Seq(ToSet(base.findings) \cup {f})
      BY <2>2, SeqMonotonic
    <3>3. /\ Len(report.findings) = n + 1
          /\ \A i \in 1 .. n : report.findings[i] = base.findings[i]
          /\ report.findings[n + 1] = f
      BY <2>2, <3>1, <3>2, AppendProperties
    <3>4. QED
      BY <2>2, <3>1, <3>3 DEF FindingsKeepAuthority
  <2>5. CASE IsFallback
    BY <2>1, <2>3, <2>5, FallbackFields DEF IsFallback
  <2>6. CASE IsReconciled
    BY <2>1, <2>3, <2>4, <2>6, ReconciledFindings DEF IsReconciled
  <2>7. QED
    BY <2>5, <2>6 DEF IInv, ReportInv
<1>2. QED
  BY <1>1, InductiveInvariant, PTL

(* The manifest of every report counts all that the provider was given,    *)
(* and generated findings rest on it (projection.go:128-149,               *)
(* codec.go:690-718).                                                      *)
THEOREM ManifestIsComplete == Spec => []ManifestCoversProvider
<1>1. IInv => ManifestCoversProvider
  <2> SUFFICES ASSUME IInv, Returned
               PROVE  ManifestCoversProvider
    BY DEF ManifestCoversProvider
  <2>1. base \in Bases /\ request.shown \subseteq Evidence /\ received \subseteq request.shown
    BY DEF IInv, TypeOK, ReportInv, ControlInv
  <2>2. base.findings \in Seq(ToSet(base.findings)) /\ (\A f \in ToSet(base.findings) : ~ f.generated)
    BY <2>1, BasesAssumption DEF IsList
  <2>3. CASE IsFallback
    BY <2>1, <2>2, <2>3, FallbackFields DEF IsFallback, ManifestCoversProvider
  <2>4. CASE IsReconciled
    <3>1. report.disclosed = request.shown /\ report.invoked
      BY <2>1, <2>4, ReconciledFields DEF IsReconciled
    <3>2. \/ report.findings = base.findings
          \/ \E f : /\ report.findings = Append(base.findings, f)
                    /\ f.support \subseteq request.shown
      BY <2>1, <2>4, ReconciledFindings DEF IsReconciled
    <3>3. \A f \in ToSet(report.findings) : f.generated => f.support \subseteq request.shown
      <4>1. CASE report.findings = base.findings
        BY <2>2, <4>1
      <4>2. ASSUME NEW g, report.findings = Append(base.findings, g), g.support \subseteq request.shown
            PROVE  \A f \in ToSet(report.findings) : f.generated => f.support \subseteq request.shown
        <5>1. base.findings \in Seq(ToSet(base.findings) \cup {g})
          BY <2>2, SeqMonotonic
        <5>2. ToSet(report.findings) \subseteq ToSet(base.findings) \cup {g}
          BY <4>2, <5>1, AppendProperties DEF ToSet
        <5>3. QED
          BY <2>2, <4>2, <5>2
      <4>3. QED
        BY <3>2, <4>1, <4>2
    <3>4. QED
      BY <2>1, <2>4, <3>1, <3>3 DEF IsReconciled, ManifestCoversProvider
  <2>5. QED
    BY <2>3, <2>4 DEF IInv, ReportInv
<1>2. QED
  BY <1>1, InductiveInvariant, PTL

-----------------------------------------------------------------------------
(* Progress.                                                               *)

EventNames == {"preparing", "waiting", "validating", "fallback"}

(* What was announced says where the call is and how it ended.             *)
EventsInv ==
  /\ events \in Seq(EventNames)
  /\ "validating" \in ToSet(events) => provider = "answered"
  /\ pc = "judge" => Last(events) = "validating"
  /\ Returned => (Degraded <=> Last(events) = "fallback")

LEMMA EventAppended ==
  ASSUME events \in Seq(EventNames), NEW e \in EventNames, events' = Append(events, e)
  PROVE  /\ events' \in Seq(EventNames)
         /\ Last(events') = e
         /\ ToSet(events') \subseteq ToSet(events) \cup {e}
<1>1. /\ Len(events') = Len(events) + 1
      /\ \A i \in 1 .. Len(events) : events'[i] = events[i]
      /\ events'[Len(events) + 1] = e
      /\ events' \in Seq(EventNames)
  BY AppendProperties
<1>2. Last(events') = e
  BY <1>1 DEF Last
<1>3. DOMAIN events' = 1 .. Len(events) + 1 /\ DOMAIN events = 1 .. Len(events) /\ Len(events) \in Nat
  BY <1>1
<1>4. \A i \in DOMAIN events' : events'[i] \in ToSet(events) \cup {e}
  BY <1>1, <1>3 DEF ToSet
<1>5. QED
  BY <1>1, <1>2, <1>4 DEF ToSet

LEMMA QuietStepKeepsEvents ==
  ASSUME IInv, EventsInv, pc # "done", pc' # "judge" \/ pc = "judge", UNCHANGED <<events, report>>,
         provider = "answered" => provider' = "answered"
  PROVE  EventsInv'
BY DEF IInv, ControlInv, EventsInv, Returned

LEMMA DegradeKeepsEvents ==
  ASSUME IInv, EventsInv, pc \in {"await", "judge"}, NEW code, Degrade(code), UNCHANGED <<base, request, provider>>
  PROVE  EventsInv'
<1>1. base \in Bases /\ request.shown \subseteq Evidence /\ report = NoReport
  BY DEF IInv, TypeOK, ControlInv
<1>2. /\ events' \in Seq(EventNames)
      /\ Last(events') = "fallback"
      /\ ToSet(events') \subseteq ToSet(events) \cup {"fallback"}
  BY EventAppended DEF EventsInv, Degrade, EventNames
<1>3. "validating" \in ToSet(events') => provider' = "answered"
  BY <1>2 DEF EventsInv
<1>4. report' = Fallback(code) \/ report' = NoReport
  BY <1>1 DEF Degrade, Give
<1>5. (Returned => Degraded)'
  BY <1>1, <1>4, FallbackFields DEF Returned, Degraded
<1>6. pc' = "done"
  BY DEF Degrade, Give
<1>7. QED
  BY <1>2, <1>3, <1>5, <1>6 DEF EventsInv

LEMMA DiagnoseKeepsEvents == IInv /\ EventsInv /\ Diagnose => EventsInv'
<1> SUFFICES ASSUME IInv, EventsInv, Diagnose
             PROVE  EventsInv'
  OBVIOUS
<1>1. CASE UNCHANGED <<events, report, provider>> /\ pc' = "done" /\ pc # "done"
  BY <1>1, QuietStepKeepsEvents
<1>2. CASE BaseDiagnose
  <2>1. CASE Fail("base") /\ UNCHANGED events
    BY <1>1, <1>2, <2>1 DEF BaseDiagnose, Fail
  <2>2. CASE events' = Append(events, "preparing") /\ pc' = "prepare" /\ UNCHANGED report
    <3>1. /\ events' \in Seq(EventNames)
          /\ ToSet(events') \subseteq ToSet(events) \cup {"preparing"}
      BY <2>2, EventAppended DEF EventsInv, EventNames
    <3>2. QED
      BY <1>2, <2>2, <3>1 DEF BaseDiagnose, EventsInv, IInv, ControlInv, Returned
  <2>3. QED
    BY <1>2, <2>1, <2>2 DEF BaseDiagnose
<1>3. CASE Prepare
  <2>1. CASE Fail("prepare") /\ UNCHANGED events
    BY <1>1, <1>3, <2>1 DEF Prepare, Fail
  <2>2. CASE events' = Append(events, "waiting") /\ pc' = "await" /\ UNCHANGED report
    <3>1. /\ events' \in Seq(EventNames)
          /\ ToSet(events') \subseteq ToSet(events) \cup {"waiting"}
      BY <2>2, EventAppended DEF EventsInv, EventNames
    <3>2. QED
      BY <1>3, <2>2, <3>1 DEF Prepare, EventsInv, IInv, ControlInv, Returned
  <2>3. QED
    BY <1>3, <2>1, <2>2 DEF Prepare
<1>4. CASE GenerateFailed
  <2>1. CASE \E why : Fail(why) /\ UNCHANGED events
    BY <1>1, <1>4, <2>1 DEF GenerateFailed, Fail
  <2>2. CASE Degrade("generator_failed")
    BY <1>4, <2>2, DegradeKeepsEvents DEF GenerateFailed
  <2>3. QED
    BY <1>4, <2>1, <2>2 DEF GenerateFailed, HandleFailure
<1>5. CASE GenerateAnswered
  <2>1. /\ events' \in Seq(EventNames)
        /\ Last(events') = "validating"
    BY <1>5, EventAppended DEF GenerateAnswered, EventsInv, EventNames
  <2>2. QED
    BY <1>5, <2>1 DEF GenerateAnswered, EventsInv, IInv, ControlInv, Returned
<1>6. CASE Judge
  <2>1. CASE \E why : Fail(why) /\ UNCHANGED events
    BY <1>1, <1>6, <2>1 DEF Judge, Fail
  <2>2. CASE \E code : Degrade(code)
    BY <1>6, <2>2, DegradeKeepsEvents DEF Judge
  <2>3. CASE Give(Reconciled(response.proposal)) /\ UNCHANGED events
    <3>1. base \in Bases /\ request.shown \subseteq Evidence /\ report = NoReport
      BY <1>6 DEF Judge, IInv, TypeOK, ControlInv
    <3>2. report' = Reconciled(response.proposal) \/ report' = NoReport
      BY <2>3, <3>1 DEF Give
    <3>3. (~ Degraded)'
      BY <3>1, <3>2, ReconciledFields DEF Returned, Degraded
    <3>4. QED
      BY <1>6, <2>3, <3>3 DEF Judge, Give, EventsInv
  <2>4. QED
    BY <1>6, <2>1, <2>2, <2>3 DEF Judge, HandleFailure
<1>7. QED
  BY <1>2, <1>3, <1>4, <1>5, <1>6 DEF Diagnose

LEMMA StepEvents == IInv /\ EventsInv /\ [Next]_vars => EventsInv'
<1> SUFFICES ASSUME IInv, EventsInv, [Next]_vars
             PROVE  EventsInv'
  OBVIOUS
<1>1. CASE Diagnose
  BY <1>1, DiagnoseKeepsEvents
<1>2. CASE Send
  BY <1>2, QuietStepKeepsEvents DEF Send
<1>3. CASE Answer
  BY <1>3, QuietStepKeepsEvents DEF Answer
<1>4. CASE AdapterFails
  BY <1>4, QuietStepKeepsEvents DEF AdapterFails
<1>5. CASE DeadlineExpires
  BY <1>5, QuietStepKeepsEvents DEF DeadlineExpires
<1>6. CASE CallerCancels
  BY <1>6, QuietStepKeepsEvents DEF CallerCancels
<1>7. CASE UNCHANGED vars
  BY <1>7 DEF vars, EventsInv, Returned, Degraded
<1>8. QED
  BY <1>1, <1>2, <1>3, <1>4, <1>5, <1>6, <1>7 DEF Next, Done

(* The user is told "fallback" exactly when the model did not contribute,  *)
(* and "validating" only once the provider had what the request shows and  *)
(* answered (augmenter.go:84, 96, 108, 188).                               *)
THEOREM ProgressIsTrue == Spec => []ProgressMatchesOutcome
<1>1. Init => EventsInv
  <2> SUFFICES ASSUME Init
               PROVE  EventsInv
    OBVIOUS
  <2>1. ToSet(events) = {}
    BY DEF Init, ToSet
  <2>2. events \in Seq(EventNames) /\ pc # "judge" /\ ~ Returned
    BY EmptySeq DEF Init, Returned
  <2>3. QED
    BY <2>1, <2>2 DEF EventsInv
<1>2. IInv /\ EventsInv => ProgressMatchesOutcome
  BY DEF IInv, ControlInv, EventsInv, ProgressMatchesOutcome
<1>3. QED
  BY <1>1, <1>2, InductiveInvariant, StepEvents, PTL DEF Spec

-----------------------------------------------------------------------------
(* The promise.                                                            *)

(* What a caller sees while the call runs, and once it failed.             *)
LEMMA PendingWhileRunning ==
  ASSUME IInv, pc # "done"
  PROVE  Verdict = "pending" /\ Disclosed = {}
BY DEF IInv, ControlInv, Verdict, Disclosed, Returned

LEMMA FailRefuses ==
  ASSUME IInv, pc # "done", NEW why, why # "none", error' = why, UNCHANGED <<report, received>>
  PROVE  Promise!Refuse
<1>1. report = NoReport /\ report' = NoReport
  BY DEF IInv, ControlInv
<1>2. Verdict' = "error" /\ Disclosed' = {}
  BY <1>1 DEF Verdict, Disclosed, Returned
<1>3. QED
  BY <1>2, PendingWhileRunning DEF Promise!Refuse

LEMMA DegradeAdvises ==
  ASSUME IInv, pc \in {"await", "judge"}, NEW code, Degrade(code), UNCHANGED received
  PROVE  Promise!Next
<1>1. /\ base \in Bases /\ request.shown \subseteq Evidence
      /\ received \subseteq request.shown
  BY DEF IInv, TypeOK, ControlInv
<1>2. CASE report' = Fallback(code)
  <2>1. Verdict' = "fallback" /\ Disclosed' = request.shown
    BY <1>1, <1>2, FallbackFields DEF Verdict, Disclosed, Returned, Degraded
  <2>2. Promise!Advise("fallback")
    BY <1>1, <2>1, PendingWhileRunning DEF Promise!Advise
  <2>3. QED
    BY <2>2 DEF Promise!Next
<1>3. CASE error' = "seal" /\ UNCHANGED report
  BY <1>3, FailRefuses DEF Promise!Next
<1>4. QED
  BY <1>2, <1>3 DEF Degrade, Give

LEMMA ReconcileAdvises ==
  ASSUME IInv, pc = "judge", Give(Reconciled(response.proposal)), UNCHANGED received
  PROVE  Promise!Next
<1> DEFINE r == Reconciled(response.proposal)
<1>1. /\ base \in Bases /\ request.shown \subseteq Evidence
      /\ received = request.shown /\ received # {}
  BY DEF IInv, TypeOK, ControlInv
<1>2. CASE report' = r
  <2>1. Verdict' = "mixed" /\ Disclosed' = request.shown
    BY <1>1, <1>2, ReconciledFields DEF Verdict, Disclosed, Returned, Degraded
  <2>2. Promise!Advise("mixed")
    BY <1>1, <2>1, PendingWhileRunning DEF Promise!Advise
  <2>3. QED
    BY <2>2 DEF Promise!Next
<1>3. CASE error' = "seal" /\ UNCHANGED report
  BY <1>3, FailRefuses DEF Promise!Next
<1>4. QED
  BY <1>2, <1>3 DEF Give

LEMMA HandleFailureIsPromised ==
  ASSUME IInv, pc \in {"await", "judge"}, NEW code \in FailureCodes, HandleFailure(code),
         UNCHANGED received
  PROVE  Promise!Next
<1>1. CASE Fail(code)
  BY <1>1, FailRefuses DEF Fail, FailureCodes, Promise!Next
<1>2. CASE Degrade(code)
  BY <1>2, DegradeAdvises
<1>3. QED
  BY <1>1, <1>2 DEF HandleFailure

LEMMA StepIsPromised == IInv /\ [Next]_vars => [Promise!Next]_(Promise!vars)
<1> SUFFICES ASSUME IInv, [Next]_vars
             PROVE  Promise!Next \/ UNCHANGED Promise!vars
  OBVIOUS
<1>1. ASSUME UNCHANGED <<report, error, received>>
      PROVE  UNCHANGED Promise!vars
  BY <1>1 DEF Promise!vars, Verdict, Disclosed, Returned, Degraded
<1>2. CASE BaseDiagnose
  BY <1>1, <1>2, FailRefuses DEF BaseDiagnose, Fail, Promise!Next
<1>3. CASE Prepare
  BY <1>1, <1>3, FailRefuses DEF Prepare, Fail, Promise!Next
<1>4. CASE GenerateFailed
  <2>1. CASE Fail("canceled")
    BY <1>4, <2>1, FailRefuses DEF GenerateFailed, Fail, Promise!Next
  <2>2. CASE HandleFailure("generator_failed")
    BY <1>4, <2>2, HandleFailureIsPromised DEF GenerateFailed, FailureCodes
  <2>3. QED
    BY <1>4, <2>1, <2>2 DEF GenerateFailed
<1>5. CASE Judge
  BY <1>5, HandleFailureIsPromised, DegradeAdvises, ReconcileAdvises DEF Judge, FailureCodes
<1>6. CASE Send
  <2>1. /\ pc # "done" /\ received = {} /\ received' \subseteq Evidence
        /\ UNCHANGED <<report, error>>
    BY <1>6 DEF Send, IInv, TypeOK, ControlInv
  <2>2. Promise!Expose
    BY <2>1, PendingWhileRunning DEF Promise!Expose, Verdict, Disclosed, Returned, Degraded
  <2>3. QED
    BY <2>2 DEF Promise!Next
<1>7. CASE GenerateAnswered \/ Answer \/ AdapterFails \/ DeadlineExpires \/ CallerCancels \/ UNCHANGED vars
  BY <1>1, <1>7 DEF GenerateAnswered, Answer, AdapterFails, DeadlineExpires, CallerCancels, vars
<1>8. QED
  BY <1>2, <1>3, <1>4, <1>5, <1>6, <1>7 DEF Next, Diagnose, Done

(* A generated diagnosis implements the promise of AdvicePromise: one      *)
(* final verdict, and no report that hides evidence the provider was given *)
(* (augmenter.go:80-138).                                                  *)
THEOREM ImplementsPromise == Spec => KeepsPromise
<1>1. Init => Promise!Init
  BY DEF Init, Promise!Init, Verdict, Disclosed, Returned
<1>2. QED
  BY <1>1, InductiveInvariant, StepIsPromised, PTL DEF Spec, Promise!Spec, KeepsPromise

(* Lists without duplicates.                                               *)
LEMMA UniqueConcatenation ==
  ASSUME NEW S, NEW s \in Seq(S), NEW t \in Seq(S)
  PROVE  /\ ToSet(s \o t) = ToSet(s) \cup ToSet(t)
         /\ Unique(s) /\ Unique(t) /\ ToSet(s) \cap ToSet(t) = {} => Unique(s \o t)
<1> DEFINE m == Len(s)
           n == Len(t)
           c == s \o t
<1>1. /\ m \in Nat /\ n \in Nat
      /\ DOMAIN s = 1 .. m /\ DOMAIN t = 1 .. n /\ DOMAIN c = 1 .. m + n
      /\ \A i \in 1 .. m : c[i] = s[i]
      /\ \A i \in 1 .. n : c[m + i] = t[i]
      /\ \A i \in m + 1 .. m + n : c[i] = t[i - m]
  OBVIOUS
<1> HIDE DEF m, n, c
<1>2. \A i \in 1 .. m + n : \/ i \in 1 .. m
                            \/ i \in m + 1 .. m + n /\ i - m \in 1 .. n
  BY <1>1
<1>3. ToSet(c) = ToSet(s) \cup ToSet(t)
  <2>1. \A i \in DOMAIN c : c[i] \in ToSet(s) \cup ToSet(t)
    BY <1>1, <1>2 DEF ToSet
  <2>2. \A i \in 1 .. m : i \in DOMAIN c /\ c[i] = s[i]
    BY <1>1
  <2>3. \A i \in 1 .. n : m + i \in DOMAIN c /\ c[m + i] = t[i]
    BY <1>1
  <2>4. ToSet(s) \subseteq ToSet(c) /\ ToSet(t) \subseteq ToSet(c)
    BY <1>1, <2>2, <2>3 DEF ToSet
  <2>5. ToSet(c) \subseteq ToSet(s) \cup ToSet(t)
    BY <2>1 DEF ToSet
  <2>6. QED
    BY <2>4, <2>5
<1>4. ASSUME Unique(s), Unique(t), ToSet(s) \cap ToSet(t) = {}
      PROVE  Unique(c)
  <2>1. SUFFICES ASSUME NEW i \in 1 .. m + n, NEW j \in 1 .. m + n, c[i] = c[j]
                 PROVE  i = j
    BY <1>1 DEF Unique, IsInjective
  <2>2. ASSUME NEW k \in 1 .. m, NEW l \in m + 1 .. m + n
        PROVE  c[k] # c[l]
    <3>1. c[k] = s[k] /\ s[k] \in ToSet(s)
      BY <1>1 DEF ToSet
    <3>2. l - m \in 1 .. n /\ c[l] = t[l - m]
      BY <1>1
    <3>3. t[l - m] \in ToSet(t)
      BY <1>1, <3>2 DEF ToSet
    <3>4. QED
      BY <1>4, <3>1, <3>2, <3>3
  <2>3. CASE i \in 1 .. m /\ j \in 1 .. m
    BY <1>1, <1>4, <2>1, <2>3 DEF Unique, IsInjective
  <2>4. CASE i \in m + 1 .. m + n /\ j \in m + 1 .. m + n
    <3>1. i - m \in 1 .. n /\ j - m \in 1 .. n /\ t[i - m] = t[j - m]
      BY <1>1, <1>2, <2>1, <2>4
    <3>2. i - m = j - m
      BY <1>1, <1>4, <3>1 DEF Unique, IsInjective
    <3>3. QED
      BY <1>1, <3>2
  <2>5. QED
    BY <1>2, <2>1, <2>2, <2>3, <2>4
<1>5. QED
  BY <1>3, <1>4 DEF c

LEMMA UniqueLength ==
  ASSUME NEW S, NEW s \in Seq(S), Unique(s)
  PROVE  Cardinality(ToSet(s)) = Len(s)
<1>1. Len(s) \in Nat /\ DOMAIN s = 1 .. Len(s) /\ s \in [1 .. Len(s) -> ToSet(s)]
  BY DEF ToSet
<1>2. s \in Bijection(1 .. Len(s), ToSet(s))
  <2>1. \A i, j \in 1 .. Len(s) : s[i] = s[j] => i = j
    BY <1>1 DEF Unique, IsInjective
  <2>2. \A x \in ToSet(s) : \E i \in 1 .. Len(s) : s[i] = x
    BY <1>1 DEF ToSet
  <2>3. QED
    BY <1>1, <2>1, <2>2, Fun_IsBij
<1>3. ExistsBijection(1 .. Len(s), ToSet(s))
  BY <1>2, Fun_ExistsBij
<1>4. QED
  BY <1>1, <1>3, FS_CountingElements

-----------------------------------------------------------------------------
(* Actions.                                                                *)

UniqueIds(actions) == Unique([i \in DOMAIN actions |-> actions[i].id])

(* Every ID a valid proposal prefers names one action, which is found.     *)
LEMMA ActionIsFound ==
  ASSUME NEW actions, IsList(actions), UniqueIds(actions), NEW k \in DOMAIN actions
  PROVE  ActionById(actions, actions[k].id) = actions[k]
<1>1. actions[k] \in ToSet(actions)
  BY DEF ToSet
<1>2. ASSUME NEW a \in ToSet(actions), a.id = actions[k].id
      PROVE  a = actions[k]
  <2>1. PICK j \in DOMAIN actions : actions[j] = a
    BY DEF ToSet
  <2>2. j = k
    BY <1>2, <2>1 DEF UniqueIds, Unique, IsInjective
  <2>3. QED
    BY <2>1, <2>2
<1>3. QED
  BY <1>1, <1>2 DEF ActionById

(* Reordering is a permutation, whatever the preferred IDs are that passed *)
(* validation.                                                             *)
LEMMA ReorderPermutes ==
  ASSUME NEW actions, IsList(actions), UniqueIds(actions),
         NEW preferred, IsList(preferred), Unique(preferred),
         ToSet(preferred) \subseteq {a.id : a \in ToSet(actions)}
  PROVE  LET r == ReorderActions(actions, preferred) IN
         /\ r \in Seq(ToSet(actions))
         /\ ToSet(r) = ToSet(actions)
         /\ UniqueIds(r)
         /\ Len(r) = Len(actions)
<1> DEFINE r      == ReorderActions(actions, preferred)
           S      == ToSet(actions)
           chosen == [i \in DOMAIN preferred |-> ActionById(actions, preferred[i])]
           others == {i \in DOMAIN actions : actions[i].id \notin ToSet(preferred)}
           rest   == Picked(actions, others)
<1>0. actions \in Seq(ToSet(actions)) /\ preferred \in Seq(ToSet(preferred))
  BY DEF IsList
<1>1. \A i \in DOMAIN preferred : chosen[i] \in S /\ chosen[i].id = preferred[i]
  <2>1. TAKE i \in DOMAIN preferred
  <2>2. preferred[i] \in ToSet(preferred)
    BY DEF ToSet
  <2>3. PICK a \in S : a.id = preferred[i]
    BY <2>2
  <2>4. PICK k \in DOMAIN actions : actions[k] = a
    BY DEF ToSet
  <2>5. ActionById(actions, preferred[i]) = actions[k]
    BY <2>3, <2>4, ActionIsFound
  <2>6. QED
    BY <2>3, <2>4, <2>5
<1>2. chosen \in Seq(S) /\ DOMAIN chosen = DOMAIN preferred
  <2>1. DOMAIN preferred = 1 .. Len(preferred) /\ Len(preferred) \in Nat
    BY <1>0
  <2>2. chosen \in [1 .. Len(preferred) -> S]
    BY <1>1, <2>1
  <2>3. QED
    BY <2>1, <2>2
<1>3. /\ rest \in Seq(S)
      /\ ToSet(rest) = {actions[k] : k \in others}
  BY <1>0, PickedElements DEF ToSet
<1>4. Unique(chosen)
  BY <1>1, <1>2 DEF Unique, IsInjective
<1>5. Unique(rest)
  <2> DEFINE c == Cardinality(others)
  <2>1. /\ c \in Nat
        /\ \A n \in 1 .. c : Nth(others, n) \in others
        /\ \A m, n \in 1 .. c : m < n => Nth(others, m) < Nth(others, n)
    <3>1. Len(actions) \in Nat /\ others \in SUBSET (1 .. Len(actions))
      BY <1>0
    <3> HIDE DEF others
    <3>2. QED
      BY <3>1, NthCounts
  <2>2. rest = [n \in 1 .. c |-> actions[Nth(others, n)]]
    BY DEF Picked
  <2>3. \A i, j \in DOMAIN actions : actions[i] = actions[j] => i = j
    BY DEF UniqueIds, Unique, IsInjective
  <2>4. \A k \in others : k \in DOMAIN actions /\ k \in Nat
    BY <1>0
  <2> HIDE DEF c, others, rest
  <2>5. \A m, n \in 1 .. c : m < n => rest[m] # rest[n]
    <3>1. TAKE m, n \in 1 .. c
    <3>2. HAVE m < n
    <3>3. Nth(others, m) # Nth(others, n)
      BY <2>1, <2>4, <3>2
    <3>4. QED
      BY <2>1, <2>2, <2>3, <2>4, <3>3
  <2>6. \A m, n \in 1 .. c : m = n \/ m < n \/ n < m
    BY <2>1
  <2>7. QED
    BY <2>2, <2>5, <2>6 DEF Unique, IsInjective
<1>6. ToSet(chosen) \cap ToSet(rest) = {}
  <2>1. SUFFICES ASSUME NEW i \in DOMAIN preferred, NEW k \in others, chosen[i] = actions[k]
                 PROVE  FALSE
    BY <1>2, <1>3 DEF ToSet
  <2>2. preferred[i] \in ToSet(preferred)
    BY DEF ToSet
  <2>3. QED
    BY <1>1, <2>1, <2>2
<1>7. r = chosen \o rest
  BY DEF ReorderActions
<1>8. ToSet(chosen) \cup ToSet(rest) = S
  <2>1. ToSet(chosen) \subseteq S
    BY <1>1, <1>2 DEF ToSet
  <2>2. ToSet(rest) \subseteq S
    BY <1>3 DEF ToSet
  <2>3. ASSUME NEW k \in DOMAIN actions, k \notin others
        PROVE  actions[k] \in ToSet(chosen)
    <3>1. PICK i \in DOMAIN preferred : preferred[i] = actions[k].id
      BY <2>3 DEF ToSet
    <3>2. chosen[i] = actions[k]
      BY <3>1, ActionIsFound
    <3>3. QED
      BY <1>2, <3>1, <3>2 DEF ToSet
  <2>4. S \subseteq ToSet(chosen) \cup ToSet(rest)
    BY <1>3, <2>3 DEF ToSet
  <2>5. QED
    BY <2>1, <2>2, <2>4
<1> HIDE DEF chosen, rest, S, others, r
<1>9. /\ r \in Seq(S)
      /\ ToSet(r) = S
      /\ Unique(r)
  <2>0. chosen \in Seq(S) /\ rest \in Seq(S)
    BY <1>2, <1>3
  <2>1. /\ ToSet(chosen \o rest) = ToSet(chosen) \cup ToSet(rest)
        /\ Unique(chosen) /\ Unique(rest) /\ ToSet(chosen) \cap ToSet(rest) = {} => Unique(chosen \o rest)
    BY <2>0, UniqueConcatenation, Zenon
  <2>2. chosen \o rest \in Seq(S)
    BY <1>2, <1>3
  <2>3. QED
    BY <1>4, <1>5, <1>6, <1>7, <1>8, <2>1, <2>2
<1>10. UniqueIds(r)
  <2>1. \A i, j \in DOMAIN actions : actions[i].id = actions[j].id => i = j
    BY DEF UniqueIds, Unique, IsInjective
  <2>2. \A a, b \in S : a.id = b.id => a = b
    BY <2>1 DEF S, ToSet
  <2>3. \A i \in DOMAIN r : r[i] \in S
    BY <1>9 DEF ToSet
  <2>4. QED
    BY <1>9, <2>2, <2>3 DEF UniqueIds, Unique, IsInjective
<1>11. Len(r) = Len(actions)
  <2>1. Unique(actions)
    BY DEF UniqueIds, Unique, IsInjective
  <2>2. Cardinality(ToSet(actions)) = Len(actions) /\ Cardinality(ToSet(r)) = Len(r)
    BY <1>0, <1>9, <2>1, UniqueLength DEF S
  <2>3. QED
    BY <1>9, <2>2 DEF S
<1>12. QED
  BY <1>9, <1>10, <1>11 DEF r, S

(* The guidance goes in front of the actions of the engine, at most once,  *)
(* and rests on the support of the hypothesis.                             *)
LEMMA GuidanceInFront ==
  ASSUME NEW actions, IsList(actions), UniqueIds(actions),
         \A a \in ToSet(actions) : a.id # GuidanceId,
         NEW hypotheses, IsList(hypotheses)
  PROVE  LET r == PrependGeneratedGuidance(actions, hypotheses) IN
         \/ r = actions
         \/ \E g : /\ g.id = GuidanceId
                  /\ hypotheses # <<>> /\ g.support = Head(hypotheses).support
                  /\ r = <<g>> \o actions
                  /\ ToSet(r) = {g} \cup ToSet(actions)
                  /\ UniqueIds(r)
                  /\ Len(r) = Len(actions) + 1
                  /\ \A i \in DOMAIN r : r[i].id = GuidanceId <=> i = 1
                  /\ r[1] = g
<1> DEFINE r == PrependGeneratedGuidance(actions, hypotheses)
           g == [id |-> GuidanceId, code |-> GuidanceFor[Head(hypotheses).code],
                 support |-> Head(hypotheses).support]
<1>1. CASE r = actions
  BY <1>1
<1>2. CASE r = <<g>> \o actions /\ hypotheses # <<>>
  <2>1. actions \in Seq({g} \cup ToSet(actions)) /\ <<g>> \in Seq({g} \cup ToSet(actions))
    BY SeqMonotonic DEF IsList
  <2>2. ToSet(<<g>>) = {g}
    BY DEF ToSet
  <2>4. g.id = GuidanceId /\ g.support = Head(hypotheses).support
    OBVIOUS
  <2> HIDE DEF g
  <2>3. ToSet(<<g>> \o actions) = {g} \cup ToSet(actions)
    <3>1. ToSet(<<g>> \o actions) = ToSet(<<g>>) \cup ToSet(actions)
      BY <2>1, UniqueConcatenation, Zenon
    <3>2. QED
      BY <2>2, <3>1
  <2> DEFINE c == <<g>> \o actions
  <2>5. /\ Len(actions) \in Nat /\ Len(c) = Len(actions) + 1
        /\ DOMAIN c = 1 .. Len(actions) + 1 /\ DOMAIN actions = 1 .. Len(actions)
        /\ c[1] = g
        /\ \A i \in 2 .. Len(actions) + 1 : c[i] = actions[i - 1]
    BY <2>1
  <2> HIDE DEF c
  <2>6. \A i \in DOMAIN c : i = 1 \/ (i \in 2 .. Len(actions) + 1 /\ i - 1 \in DOMAIN actions)
    BY <2>5
  <2>7. \A i \in DOMAIN c : c[i].id = GuidanceId <=> i = 1
    BY <2>4, <2>5, <2>6 DEF ToSet
  <2>8. UniqueIds(c)
    <3>1. SUFFICES ASSUME NEW i \in DOMAIN c, NEW j \in DOMAIN c, c[i].id = c[j].id
                   PROVE  i = j
      BY DEF UniqueIds, Unique, IsInjective
    <3>2. CASE i = 1 \/ j = 1
      BY <2>7, <3>1, <3>2
    <3>3. CASE i # 1 /\ j # 1
      <4>1. /\ i - 1 \in DOMAIN actions /\ j - 1 \in DOMAIN actions
            /\ actions[i - 1].id = actions[j - 1].id
        BY <2>5, <2>6, <3>1, <3>3
      <4>2. i - 1 = j - 1
        BY <4>1 DEF UniqueIds, Unique, IsInjective
      <4>3. QED
        BY <2>5, <4>2
    <3>4. QED
      BY <3>2, <3>3
  <2>9. QED
    BY <1>2, <2>3, <2>4, <2>5, <2>7, <2>8 DEF c
<1>3. QED
  BY <1>1, <1>2 DEF PrependGeneratedGuidance

(* The IDs of the findings count up, so that of a generated finding is     *)
(* new.                                                                    *)
LEMMA FindingIdsAreUnique ==
  ASSUME base \in Bases, NEW hypotheses
  PROVE  LET r == AppendHypothesis(base.findings, hypotheses) IN
         r # <<>> /\ Unique([i \in DOMAIN r |-> r[i].id])
<1> DEFINE fs == base.findings
           n  == Len(fs)
           f  == GeneratedFinding(n + 1, Head(hypotheses))
           r  == AppendHypothesis(fs, hypotheses)
<1>1. /\ fs \in Seq(ToSet(fs)) /\ fs # <<>>
      /\ Unique([i \in DOMAIN fs |-> fs[i].id])
      /\ \A i \in DOMAIN fs : fs[i].id[1] = i
  BY BasesAssumption DEF IsList, Sealable
<1>2. CASE r = fs
  BY <1>1, <1>2
<1>3. CASE r = Append(fs, f)
  <2>1. f.id[1] = n + 1
    BY DEF GeneratedFinding
  <2>2. fs \in Seq(ToSet(fs) \cup {f})
    BY <1>1, SeqMonotonic
  <2> HIDE DEF f, fs, r
  <2>3. /\ n \in Nat /\ DOMAIN r = 1 .. n + 1 /\ DOMAIN fs = 1 .. n
        /\ \A i \in 1 .. n : r[i] = fs[i]
        /\ r[n + 1] = f
    BY <1>3, <2>2, AppendProperties DEF n
  <2> HIDE DEF n
  <2>4. \A i \in DOMAIN r : r[i].id[1] = i
    <3>1. \A i \in 1 .. n + 1 : i \in 1 .. n \/ i = n + 1
      BY <2>3
    <3>2. QED
      BY <1>1, <2>1, <2>3, <3>1
  <2>5. Unique([i \in DOMAIN r |-> r[i].id])
    BY <2>4 DEF Unique, IsInjective
  <2>6. r # <<>>
    BY <2>3
  <2>7. QED
    BY <2>5, <2>6 DEF r, fs
<1>4. QED
  BY <1>2, <1>3 DEF AppendHypothesis

-----------------------------------------------------------------------------
(* Every report a call can give passes Seal and ValidateAgainstEvidence.   *)

(* Codes a call adds to the warnings of the engine, and that it may add    *)
(* together.                                                               *)
LEMMA WarningsAreUnique ==
  ASSUME base \in Bases, NEW code \in FallbackCodes \cup {"generated_content_uncalibrated"}
  PROVE  Unique(base.warnings \o <<code>> \o SourceContextWarning)
<1> DEFINE w   == base.warnings
           all == ToSet(w) \cup {code, "source_context_point_in_time"}
           one == <<code>>
           two == SourceContextWarning
<1>1. w \in Seq(all) /\ one \in Seq(all) /\ two \in Seq(all)
  <2>1. w \in Seq(ToSet(w))
    BY BasesAssumption DEF IsList
  <2>2. two = <<>> \/ two = <<"source_context_point_in_time">>
    BY DEF SourceContextWarning
  <2>3. {"source_context_point_in_time", code} \subseteq all
    OBVIOUS
  <2>4. w \in Seq(all)
    BY <2>1, SeqMonotonic
  <2> HIDE DEF all, two
  <2>5. two \in Seq(all)
    <3>1. CASE two = <<>>
      BY <3>1
    <3>2. CASE two = <<"source_context_point_in_time">>
      BY <2>3, <3>2
    <3>3. QED
      BY <2>2, <3>1, <3>2
  <2>6. one \in Seq(all)
    BY <2>3
  <2>7. QED
    BY <2>4, <2>5, <2>6
<1>2. Unique(w)
  BY BasesAssumption DEF Sealable
<1>3. Unique(one) /\ ToSet(one) = {code}
  BY DEF Unique, IsInjective, ToSet
<1>4. Unique(two) /\ ToSet(two) \subseteq {"source_context_point_in_time"}
  BY DEF SourceContextWarning, Unique, IsInjective, ToSet
<1>5. ToSet(w) \cap {code, "source_context_point_in_time"} = {} /\ code # "source_context_point_in_time"
  BY BasesAssumption DEF FallbackCodes, FailureCodes
<1> HIDE DEF w, all, one, two
<1>6. Unique(w \o one) /\ ToSet(w \o one) = ToSet(w) \cup {code}
  BY <1>1, <1>2, <1>3, <1>5, UniqueConcatenation
<1>7. w \o one \in Seq(all)
  BY <1>1
<1>8. Unique(w \o one \o two)
  BY <1>1, <1>4, <1>5, <1>6, <1>7, UniqueConcatenation
<1>9. QED
  BY <1>8 DEF w, one, two

LEMMA FallbackSeals ==
  ASSUME base \in Bases, request.shown \subseteq Evidence, NEW code \in FallbackCodes
  PROVE  Sealable(Fallback(code))
<1>1. Sealable(base) /\ base.mode = "deterministic" /\ ~ base.used
  BY BasesAssumption
<1>2. DOMAIN base = {"findings", "actions", "cited", "missing", "warnings", "mode", "invoked", "used", "disclosed"}
  BY BasesAssumption DEF IsReport
<1>3. Fallback(code).used = base.used
  BY <1>2 DEF Fallback
<1>4. Unique(Fallback(code).warnings)
  BY FallbackFields, WarningsAreUnique
<1>5. References(Fallback(code)) = References(base)
  BY FallbackFields DEF References
<1>6. QED
  BY <1>1, <1>3, <1>4, <1>5, FallbackFields DEF Sealable

(* A valid proposal cites what was shown, and prefers actions there are.   *)
LEMMA ReconciledSeals ==
  ASSUME base \in Bases, request.shown \subseteq Evidence, request.shown # {},
         response \in Responses, ValidProposal(response.proposal)
  PROVE  Sealable(Reconciled(response.proposal))
<1> DEFINE p   == response.proposal
           r   == Reconciled(p)
           hs  == p.hypotheses
           new == GeneratedCitations(hs)
<1>1. /\ Sealable(base) /\ base.mode = "deterministic"
      /\ IsList(base.findings) /\ IsList(base.actions) /\ IsList(base.missing)
      /\ \A a \in ToSet(base.actions) : a.id # GuidanceId
      /\ ToSet(base.missing) \cap GeneratedCodes = {}
  BY BasesAssumption
<1>2. IsList(hs) /\ IsList(p.actions) /\ IsList(p.missing)
  BY ResponsesAssumption
<1>3. DOMAIN base = {"findings", "actions", "cited", "missing", "warnings", "mode", "invoked", "used", "disclosed"}
  BY BasesAssumption DEF IsReport
<1>4. /\ r.findings = AppendHypothesis(base.findings, hs)
      /\ r.actions = PrependGeneratedGuidance(ReorderActions(base.actions, p.actions), hs)
      /\ r.cited = base.cited \cup new
      /\ r.missing = base.missing \o p.missing
      /\ r.warnings = base.warnings \o <<"generated_content_uncalibrated">> \o SourceContextWarning
      /\ r.mode = "mixed" /\ r.invoked = TRUE /\ r.used = TRUE /\ r.disclosed = request.shown
  BY <1>3 DEF Reconciled
<1>5. hs # <<>> => Head(hs) \in ToSet(hs) /\ Head(hs).support \subseteq new
  <2>1. SUFFICES ASSUME hs # <<>>
                 PROVE  Head(hs) \in ToSet(hs) /\ Head(hs).support \subseteq new
    OBVIOUS
  <2>2. hs \in Seq(ToSet(hs))
    BY <1>2 DEF IsList
  <2>3. Head(hs) \in ToSet(hs)
    BY <2>1, <2>2
  <2>4. Head(hs).support \subseteq Evidence
    BY <2>3 DEF ValidProposal, HypothesisAllowed
  <2>5. new = (UNION {h.support : h \in ToSet(hs)}) \cap Evidence
    BY DEF GeneratedCitations
  <2> HIDE DEF hs, new
  <2>6. QED
    BY <2>3, <2>4, <2>5
<1>6. \A f \in ToSet(r.findings) : f \in ToSet(base.findings) \/ f.support \subseteq new
  <2>1. CASE r.findings = base.findings
    BY <2>1
  <2>2. CASE hs # <<>> /\ r.findings = Append(base.findings, GeneratedFinding(Len(base.findings) + 1, Head(hs)))
    <3> DEFINE g == GeneratedFinding(Len(base.findings) + 1, Head(hs))
    <3>1. g.support \subseteq new
      BY <1>5, <2>2 DEF GeneratedFinding
    <3>2. base.findings \in Seq(ToSet(base.findings) \cup {g})
      BY <1>1, SeqMonotonic DEF IsList
    <3> HIDE DEF g
    <3>3. ToSet(Append(base.findings, g)) \subseteq ToSet(base.findings) \cup {g}
      BY <3>2, AppendProperties DEF ToSet
    <3>4. QED
      BY <2>2, <3>1, <3>3 DEF g
  <2>3. QED
    BY <1>4, <2>1, <2>2 DEF AppendHypothesis
<1>7. /\ UniqueIds(r.actions)
      /\ \A a \in ToSet(r.actions) : a.id # "" /\ (a \in ToSet(base.actions) \/ a.support \subseteq new)
  <2> DEFINE ordered == ReorderActions(base.actions, p.actions)
  <2>1. UniqueIds(base.actions) /\ (\A a \in ToSet(base.actions) : a.id # "")
    BY <1>1 DEF Sealable, UniqueIds
  <2>2. Unique(p.actions) /\ ToSet(p.actions) \subseteq {a.id : a \in ToSet(base.actions)}
    BY DEF ValidProposal
  <2>3. /\ ordered \in Seq(ToSet(base.actions))
        /\ ToSet(ordered) = ToSet(base.actions)
        /\ UniqueIds(ordered)
    BY <1>1, <1>2, <2>1, <2>2, ReorderPermutes
  <2> HIDE DEF ordered
  <2>4. IsList(ordered) /\ (\A a \in ToSet(ordered) : a.id # GuidanceId)
    BY <1>1, <2>3 DEF IsList
  <2>5. r.actions = PrependGeneratedGuidance(ordered, hs)
    BY <1>4 DEF ordered
  <2>6. CASE r.actions = ordered
    BY <2>1, <2>3, <2>6
  <2>7. CASE \E g : /\ g.id = GuidanceId
                   /\ hs # <<>> /\ g.support = Head(hs).support
                   /\ ToSet(r.actions) = {g} \cup ToSet(ordered)
                   /\ UniqueIds(r.actions)
    <3>1. GuidanceId # ""
      BY DEF GuidanceId
    <3>2. QED
      BY <1>5, <2>1, <2>3, <2>7, <3>1
  <2> HIDE DEF hs, r
  <2> DEFINE led == PrependGeneratedGuidance(ordered, hs)
  <2>8. \/ led = ordered
        \/ \E g : /\ g.id = GuidanceId
                 /\ hs # <<>> /\ g.support = Head(hs).support
                 /\ led = <<g>> \o ordered
                 /\ ToSet(led) = {g} \cup ToSet(ordered)
                 /\ UniqueIds(led)
                 /\ Len(led) = Len(ordered) + 1
                 /\ \A i \in DOMAIN led : led[i].id = GuidanceId <=> i = 1
                 /\ led[1] = g
    BY <1>2, <2>3, <2>4, GuidanceInFront, Zenon
  <2> HIDE DEF led
  <2>9. r.actions = led
    BY <2>5 DEF led
  <2>10. QED
    BY <2>6, <2>7, <2>8, <2>9
<1>8. Unique(r.missing)
  <2> DEFINE both == ToSet(base.missing) \cup ToSet(p.missing)
  <2>1. base.missing \in Seq(both) /\ p.missing \in Seq(both)
    BY <1>1, <1>2, SeqMonotonic DEF IsList
  <2>2. Unique(base.missing) /\ Unique(p.missing) /\ ToSet(base.missing) \cap ToSet(p.missing) = {}
    BY <1>1 DEF Sealable, ValidProposal
  <2>3. Unique(base.missing \o p.missing)
    BY <2>1, <2>2, UniqueConcatenation
  <2>4. QED
    BY <1>4, <2>3
<1>9. Unique(r.warnings)
  BY <1>4, WarningsAreUnique
<1>10. r.findings # <<>> /\ Unique([i \in DOMAIN r.findings |-> r.findings[i].id])
  BY <1>4, FindingIdsAreUnique
<1>11. References(r) \subseteq r.cited
  <2>1. \A f \in ToSet(base.findings) : f.support \subseteq base.cited
    BY <1>1 DEF Sealable, References
  <2>2. \A a \in ToSet(base.actions) : a.support \subseteq base.cited
    BY <1>1 DEF Sealable, References
  <2>3. \A f \in ToSet(r.findings) : f.support \subseteq r.cited
    BY <1>4, <1>6, <2>1
  <2>4. \A a \in ToSet(r.actions) : a.support \subseteq r.cited
    BY <1>4, <1>7, <2>2
  <2>5. QED
    BY <2>3, <2>4 DEF References
<1>12. r.cited \subseteq Evidence
  <2>1. base.cited \subseteq Evidence
    BY <1>1 DEF Sealable
  <2>2. new \subseteq Evidence
    BY DEF GeneratedCitations
  <2> HIDE DEF new, r
  <2>3. QED
    BY <1>4, <2>1, <2>2
<1>13. QED
  BY <1>4, <1>7, <1>8, <1>9, <1>10, <1>11, <1>12 DEF Sealable, UniqueIds

(* No answer a provider can send makes a report fail its own sealing, and  *)
(* the fallback is always available (augmenter.go:199-205, 256-262).       *)
THEOREM AnswersSeal == Spec => []EveryAnswerSeals
<1>1. ASSUME IInv, EveryAnswerSeals, [Next]_vars
      PROVE  EveryAnswerSeals'
  <2>1. ASSUME NEW r, Sealable(r), Give(r)
        PROVE  EveryAnswerSeals'
    BY <1>1, <2>1 DEF Give, EveryAnswerSeals
  <2>2. ASSUME NEW why, why # "seal", Fail(why)
        PROVE  EveryAnswerSeals'
    BY <2>2 DEF Fail, EveryAnswerSeals
  <2>3. ASSUME NEW code \in FallbackCodes, pc \in {"await", "judge"}, Degrade(code)
        PROVE  EveryAnswerSeals'
    <3>1. base \in Bases /\ request.shown \subseteq Evidence
      BY <1>1, <2>3 DEF IInv, TypeOK, ControlInv
    <3>2. QED
      BY <2>1, <2>3, <3>1, FallbackSeals DEF Degrade
  <2>4. ASSUME NEW code \in FailureCodes, pc \in {"await", "judge"}, HandleFailure(code)
        PROVE  EveryAnswerSeals'
    BY <2>2, <2>3, <2>4 DEF HandleFailure, FallbackCodes, FailureCodes
  <2>5. CASE BaseDiagnose
    BY <1>1, <2>2, <2>5 DEF BaseDiagnose, EveryAnswerSeals
  <2>6. CASE Prepare
    BY <1>1, <2>2, <2>6 DEF Prepare, EveryAnswerSeals
  <2>7. CASE GenerateFailed
    BY <2>2, <2>4, <2>7 DEF GenerateFailed, FailureCodes
  <2>8. CASE Judge
    <3>1. base \in Bases /\ request.shown \subseteq Evidence /\ request.shown # {} /\ response \in Responses
      BY <1>1, <2>8 DEF Judge, IInv, TypeOK, ControlInv
    <3>2. CASE ValidProposal(response.proposal) /\ Give(Reconciled(response.proposal))
      BY <2>1, <3>1, <3>2, ReconciledSeals
    <3>3. CASE Degrade("generator_abstained")
      BY <2>3, <2>8, <3>3 DEF Judge, FallbackCodes
    <3>4. QED
      BY <2>4, <2>8, <3>2, <3>3 DEF Judge, FailureCodes
  <2>9. CASE UNCHANGED error
    BY <1>1, <2>9 DEF EveryAnswerSeals
  <2>10. QED
    BY <1>1, <2>5, <2>6, <2>7, <2>8, <2>9
       DEF Next, Diagnose, GenerateAnswered, Send, Answer, AdapterFails, DeadlineExpires, CallerCancels, Done, vars
<1>2. Init => EveryAnswerSeals
  BY DEF Init, EveryAnswerSeals
<1>3. QED
  BY <1>1, <1>2, InductiveInvariant, PTL DEF Spec

-----------------------------------------------------------------------------
(* The actions of the engine keep their authority.                         *)

(* Reconciliation keeps every deterministic action exactly once, and adds  *)
(* at most the fixed guidance, in front.                                   *)
LEMMA ReconciledKeepsActions ==
  ASSUME base \in Bases, response \in Responses, ValidProposal(response.proposal)
  PROVE  LET actions  == Reconciled(response.proposal).actions
             guidance == {i \in DOMAIN actions : actions[i].id = GuidanceId}
         IN /\ guidance \subseteq {1}
            /\ ToSet(actions) \ {actions[i] : i \in guidance} = ToSet(base.actions)
            /\ Len(actions) = Len(base.actions) + Cardinality(guidance)
<1> DEFINE p        == response.proposal
           hs       == p.hypotheses
           actions  == Reconciled(p).actions
           ordered  == ReorderActions(base.actions, p.actions)
           led      == PrependGeneratedGuidance(ordered, hs)
           guidance == {i \in DOMAIN actions : actions[i].id = GuidanceId}
           B        == base.actions
<1>1. /\ IsList(B) /\ UniqueIds(B) /\ (\A a \in ToSet(B) : a.id # GuidanceId)
      /\ IsList(hs) /\ IsList(p.actions)
      /\ Unique(p.actions) /\ ToSet(p.actions) \subseteq {a.id : a \in ToSet(B)}
  BY BasesAssumption, ResponsesAssumption DEF Sealable, UniqueIds, ValidProposal
<1>2. actions = led
  <2>1. "actions" \in DOMAIN base
    BY BasesAssumption DEF IsReport
  <2>2. QED
    BY <2>1 DEF Reconciled
<1>3. /\ ordered \in Seq(ToSet(B))
      /\ ToSet(ordered) = ToSet(B)
      /\ UniqueIds(ordered)
      /\ Len(ordered) = Len(B)
  BY <1>1, ReorderPermutes
<1> HIDE DEF ordered, hs, B
<1>4. IsList(ordered) /\ (\A a \in ToSet(ordered) : a.id # GuidanceId)
  BY <1>1, <1>3 DEF IsList
<1>5. \/ led = ordered
      \/ \E g : /\ g.id = GuidanceId
               /\ hs # <<>> /\ g.support = Head(hs).support
               /\ led = <<g>> \o ordered
               /\ ToSet(led) = {g} \cup ToSet(ordered)
               /\ UniqueIds(led)
               /\ Len(led) = Len(ordered) + 1
               /\ \A i \in DOMAIN led : led[i].id = GuidanceId <=> i = 1
               /\ led[1] = g
  BY <1>1, <1>3, <1>4, GuidanceInFront, Zenon
<1> HIDE DEF led, actions
<1>6. ASSUME actions = ordered
      PROVE  /\ guidance \subseteq {1}
             /\ ToSet(actions) \ {actions[i] : i \in guidance} = ToSet(B)
             /\ Len(actions) = Len(B) + Cardinality(guidance)
  <2>1. guidance = {}
    BY <1>4, <1>6 DEF ToSet
  <2>2. Len(ordered) \in Nat /\ Cardinality({}) = 0
    BY <1>3, FS_EmptySet
  <2> HIDE DEF guidance
  <2>3. {actions[i] : i \in guidance} = {} /\ Cardinality(guidance) = 0 /\ guidance \subseteq {1}
    BY <2>1, <2>2
  <2>4. Len(actions) = Len(B) + Cardinality(guidance)
    BY <1>3, <1>6, <2>2, <2>3
  <2>5. ToSet(actions) \ {actions[i] : i \in guidance} = ToSet(B)
    BY <1>3, <1>6, <2>3
  <2>6. QED
    BY <2>3, <2>4, <2>5
<1>7. ASSUME NEW g, g.id = GuidanceId, actions = <<g>> \o ordered,
             ToSet(actions) = {g} \cup ToSet(ordered), Len(actions) = Len(ordered) + 1,
             \A i \in DOMAIN actions : actions[i].id = GuidanceId <=> i = 1,
             actions[1] = g
      PROVE  /\ guidance \subseteq {1}
             /\ ToSet(actions) \ {actions[i] : i \in guidance} = ToSet(B)
             /\ Len(actions) = Len(B) + Cardinality(guidance)
  <2>1. 1 \in DOMAIN actions
    <3>1. ordered \in Seq(ToSet(B) \cup {g})
      BY <1>3, SeqMonotonic
    <3>2. QED
      BY <1>7, <3>1
  <2>2. guidance = {1}
    BY <1>7, <2>1
  <2>3. {actions[i] : i \in guidance} = {g} /\ g \notin ToSet(B)
    BY <1>3, <1>4, <1>7, <2>2
  <2>4. Cardinality(guidance) = 1
    BY <2>2, FS_Singleton
  <2> HIDE DEF guidance
  <2>5. QED
    BY <1>3, <1>7, <2>2, <2>3, <2>4
<1>8. QED
  <2>1. /\ guidance \subseteq {1}
        /\ ToSet(actions) \ {actions[i] : i \in guidance} = ToSet(B)
        /\ Len(actions) = Len(B) + Cardinality(guidance)
    <3> HIDE DEF guidance
    <3>1. CASE \E g : /\ g.id = GuidanceId
                     /\ actions = <<g>> \o ordered
                     /\ ToSet(actions) = {g} \cup ToSet(ordered)
                     /\ Len(actions) = Len(ordered) + 1
                     /\ \A i \in DOMAIN actions : actions[i].id = GuidanceId <=> i = 1
                     /\ actions[1] = g
      BY <1>7, <3>1
    <3>2. QED
      BY <1>2, <1>5, <1>6, <3>1
  <2>2. QED
    BY <2>1 DEF actions, B

(* Untrusted IDs reach the reordering: validation and reordering together  *)
(* keep the list of actions a permutation, and the guidance is in front of *)
(* it (augmenter.go:330-374, codec.go:738-745).                            *)
THEOREM DeterministicActionsStay == Spec => []ActionsKeepAuthority
<1>1. IInv => ActionsKeepAuthority
  <2> SUFFICES ASSUME IInv, Returned
               PROVE  ActionsKeepAuthority
    BY DEF ActionsKeepAuthority
  <2>1. base \in Bases /\ request.shown \subseteq Evidence
    BY DEF IInv, TypeOK, ReportInv
  <2>2. CASE IsReconciled
    <3>1. response \in Responses /\ ValidProposal(response.proposal)
      BY <2>2 DEF IsReconciled
    <3>2. report = Reconciled(response.proposal)
      BY <2>2 DEF IsReconciled
    <3>3. QED
      BY <2>1, <3>1, <3>2, ReconciledKeepsActions DEF ActionsKeepAuthority
  <2>3. CASE IsFallback
    <3> DEFINE guidance == {i \in DOMAIN report.actions : report.actions[i].id = GuidanceId}
    <3>1. report.actions = base.actions
      BY <2>1, <2>3, FallbackFields DEF IsFallback
    <3>2. /\ base.actions \in Seq(ToSet(base.actions))
          /\ \A a \in ToSet(base.actions) : a.id # GuidanceId
      BY <2>1, BasesAssumption DEF IsList
    <3>3. guidance = {}
      BY <3>1, <3>2 DEF ToSet
    <3> HIDE DEF guidance
    <3>4. {report.actions[i] : i \in guidance} = {} /\ Cardinality(guidance) = 0
      BY <3>3, FS_EmptySet
    <3>5. Len(report.actions) = Len(base.actions) + Cardinality(guidance)
      BY <3>1, <3>2, <3>4
    <3>6. QED
      BY <3>1, <3>3, <3>4, <3>5 DEF ActionsKeepAuthority, guidance
  <2>4. QED
    BY <2>2, <2>3 DEF IInv, ReportInv
<1>2. QED
  BY <1>1, InductiveInvariant, PTL

(***************************************************************************)
(* Measurement.                                                            *)
(***************************************************************************)

Positive == [Counted -> Nat]

(* Parts of a finite set are counted.                                      *)
LEMMA FiniteCounts ==
  ASSUME NEW S, IsFiniteSet(S), NEW T
  PROVE  /\ Cardinality(S) \in Nat /\ Cardinality(S \cap T) \in Nat /\ Cardinality(S \ T) \in Nat
         /\ (S \subseteq T => S \cap T = S)
         /\ (S \cap T = {} => Cardinality(S \cap T) = 0)
         /\ (S \subseteq T => Cardinality(S \ T) = 0)
BY FS_CardinalityType, FS_Subset, FS_EmptySet

(* Counters that count nothing, and sums of counters.                      *)
LEMMA NothingCounts == Nothing \in Positive /\ \A name \in Counted : Nothing[name] = 0
BY DEF Nothing, Positive

LEMMA AddedCounts ==
  ASSUME NEW a \in Positive, NEW b \in Positive
  PROVE  Added(a, b) \in Positive /\ \A name \in Counted : Added(a, b)[name] = a[name] + b[name]
BY DEF Added, Positive

(* What one execution adds to the counters of generated content.           *)
GeneratedCounters(e, c, a) ==
  /\ e \in Positive
  /\ e.invoked = 1 /\ e.accepted = One(a.accepted)
  /\ e.taxonomyCases = One(Scored(c, a))
  /\ e.taxonomy = One(Scored(c, a) /\ HasCause(a) /\ Unsupported(c, a) = {})
  /\ e.factsExpected = (IF Scored(c, a) THEN Cardinality(c.facts) ELSE 0)
  /\ e.facts = (IF Scored(c, a) THEN Cardinality(c.facts \cap a.told) ELSE 0)
  /\ e.relationsExpected = (IF Scored(c, a) THEN Cardinality(c.relations) ELSE 0)
  /\ e.relations = (IF Scored(c, a) THEN Cardinality(c.relations \cap a.told) ELSE 0)
  /\ e.forbidden = (IF Scored(c, a) THEN Cardinality(c.forbidden \cap a.told) ELSE 0)
  /\ e.economyCases = One(Scored(c, a) /\ HasCause(a) /\ c.citations > 0)
  /\ e.economical = One(Scored(c, a) /\ HasCause(a) /\ c.citations > 0 /\ Economical(c, a))
  /\ e.required = One(c.disposition = "required")
  /\ e.abstentions = One(c.disposition = "must_abstain")
  /\ e.abstained = One(c.disposition = "must_abstain" /\ DispositionViolations(c, a) = {})
  /\ e.useful = One(/\ c.disposition = "required" /\ HasCause(a) /\ Unsupported(c, a) = {}
                    /\ ContentViolations(c, a) \cup DispositionViolations(c, a) = {})
  /\ \A name \in {"primary", "citations", "retry", "stable", "actions", "safe", "claims", "unsupported"} :
       e[name] = 0

(* What evaluateGenerated counts of one execution.                         *)
LEMMA Evaluated ==
  ASSUME NEW c \in Labels, NEW a \in Outcomes,
         IsFiniteSet(c.facts), IsFiniteSet(c.relations), IsFiniteSet(c.forbidden)
  PROVE  GeneratedCounters(EvaluateGenerated(c, a), c, a)
<1> DEFINE e == EvaluateGenerated(c, a)
           count(set) == IF Scored(c, a) THEN Cardinality(set) ELSE 0
<1>1. /\ count(c.facts) \in Nat /\ count(c.facts \cap a.told) \in Nat
      /\ count(c.relations) \in Nat /\ count(c.relations \cap a.told) \in Nat
      /\ count(c.forbidden) \in Nat /\ count(c.forbidden \cap a.told) \in Nat
  BY FiniteCounts
<1>2. \A x : One(x) \in Nat
  BY DEF One
<1>3. /\ e.invoked = 1 /\ e.accepted = One(a.accepted)
      /\ e.taxonomyCases = One(Scored(c, a))
      /\ e.taxonomy = One(Scored(c, a) /\ HasCause(a) /\ Unsupported(c, a) = {})
  BY DEF EvaluateGenerated, Counts, Counted
<1>4. /\ e.factsExpected = count(c.facts) /\ e.facts = count(c.facts \cap a.told)
      /\ e.relationsExpected = count(c.relations) /\ e.relations = count(c.relations \cap a.told)
      /\ e.forbiddenChecks = count(c.forbidden) /\ e.forbidden = count(c.forbidden \cap a.told)
  BY DEF EvaluateGenerated, Counts, Counted
<1>5. /\ e.economyCases = One(Scored(c, a) /\ HasCause(a) /\ c.citations > 0)
      /\ e.economical = One(Scored(c, a) /\ HasCause(a) /\ c.citations > 0 /\ Economical(c, a))
      /\ e.required = One(c.disposition = "required")
  BY DEF EvaluateGenerated, Counts, Counted
<1>6. /\ e.abstentions = One(c.disposition = "must_abstain")
      /\ e.abstained = One(c.disposition = "must_abstain" /\ DispositionViolations(c, a) = {})
  BY DEF EvaluateGenerated, Counts, Counted
<1>7. e.useful = One(/\ c.disposition = "required" /\ HasCause(a) /\ Unsupported(c, a) = {}
                    /\ ContentViolations(c, a) \cup DispositionViolations(c, a) = {})
  BY DEF EvaluateGenerated, Counts, Counted
<1>8. /\ e.primary = 0 /\ e.citations = 0 /\ e.retry = 0 /\ e.stable = 0 /\ e.actions = 0 /\ e.safe = 0
      /\ e.claims = 0 /\ e.unsupported = 0 /\ e.fallback = 0 /\ e.comparisons = 0 /\ e.consistent = 0
      /\ e.sources = 0 /\ e.mismatches = 0
  BY DEF EvaluateGenerated, Counts, Counted
<1>9. e = [name \in Counted |-> e[name]]
  BY DEF EvaluateGenerated, Counts
<1> HIDE DEF e
<1>10. e \in Positive
  <2>1. \A name \in Counted : e[name] \in Nat
    <3> HIDE DEF count
    <3>1. /\ e.invoked \in Nat /\ e.accepted \in Nat /\ e.taxonomyCases \in Nat /\ e.taxonomy \in Nat
          /\ e.factsExpected \in Nat /\ e.facts \in Nat /\ e.relationsExpected \in Nat /\ e.relations \in Nat
          /\ e.forbidden \in Nat /\ e.forbiddenChecks \in Nat
      BY <1>1, <1>2, <1>3, <1>4
    <3>2. /\ e.economyCases \in Nat /\ e.economical \in Nat /\ e.required \in Nat /\ e.abstentions \in Nat
          /\ e.abstained \in Nat /\ e.useful \in Nat
      BY <1>2, <1>5, <1>6, <1>7
    <3>3. QED
      BY <3>1, <3>2, <1>8 DEF Counted
  <2>2. QED
    BY <2>1, <1>9 DEF Positive
<1>11. GeneratedCounters(e, c, a)
  BY <1>10, <1>3, <1>4, <1>5, <1>6, <1>7, <1>8 DEF GeneratedCounters
<1>12. QED
  BY <1>11 DEF e

(* What one execution that did not fail adds to the counters.              *)
ReportCounters(r, c, a) ==
  /\ r.primary = One(a.primary) /\ r.citations = One(a.cited) /\ r.retry = One(a.retry)
  /\ r.stable = One(a.stable) /\ r.actions = 1 /\ r.safe = One(a.safe)
  /\ r.claims = Cardinality(a.causes) /\ r.unsupported = Cardinality(Unsupported(c, a))

Generated ==
  {"invoked", "accepted", "required", "useful", "taxonomyCases", "taxonomy", "factsExpected", "facts",
   "relationsExpected", "relations", "abstentions", "abstained", "forbidden", "economyCases", "economical"}

(* What runCase counts: the report, and what was generated if the provider *)
(* was asked.                                                              *)
LEMMA ExecutionCounts ==
  ASSUME NEW c \in Labels, NEW a \in Outcomes, IsFiniteSet(a.causes),
         IsFiniteSet(c.facts), IsFiniteSet(c.relations), IsFiniteSet(c.forbidden)
  PROVE  LET r == RunCaseCounters(c, a) IN
         /\ r \in Positive
         /\ Fails(a) => \A name \in Counted : r[name] = 0
         /\ ~ Fails(a) => ReportCounters(r, c, a)
         /\ ~ Fails(a) /\ a.invoked => \A name \in Generated : r[name] = EvaluateGenerated(c, a)[name]
         /\ ~ Fails(a) /\ ~ a.invoked => \A name \in Generated : r[name] = 0
<1> DEFINE r == RunCaseCounters(c, a)
           g == IF a.invoked THEN EvaluateGenerated(c, a) ELSE Nothing
           b == Counts([primary |-> One(a.primary), citations |-> One(a.cited), retry |-> One(a.retry),
                        stable |-> One(a.stable), fallback |-> One(a.fallback),
                        actions |-> 1, safe |-> One(a.safe),
                        claims |-> Cardinality(a.causes), unsupported |-> Cardinality(Unsupported(c, a)),
                        mismatches |-> One(a.mismatch)])
<1>1. CASE Fails(a)
  BY <1>1, NothingCounts DEF RunCaseCounters
<1>2. CASE ~ Fails(a)
  <2>1. r = Added(g, b)
    BY <1>2 DEF RunCaseCounters
  <2>2. b \in Positive
    <3>1. Cardinality(a.causes) \in Nat /\ Cardinality(Unsupported(c, a)) \in Nat /\ \A x : One(x) \in Nat
      BY FiniteCounts DEF Unsupported, One
    <3>2. QED
      BY <3>1 DEF Counts, Positive
  <2>3. g \in Positive
    BY Evaluated, NothingCounts DEF GeneratedCounters
  <2>4. /\ b.primary = One(a.primary) /\ b.citations = One(a.cited) /\ b.retry = One(a.retry)
        /\ b.stable = One(a.stable) /\ b.actions = 1 /\ b.safe = One(a.safe)
        /\ b.claims = Cardinality(a.causes) /\ b.unsupported = Cardinality(Unsupported(c, a))
    BY DEF Counts, Counted
  <2>5. \A name \in Generated : b[name] = 0
    BY DEF Counts, Counted, Generated
  <2>6. \A name \in {"primary", "citations", "retry", "stable", "actions", "safe", "claims", "unsupported"} :
          g[name] = 0
    <3>1. {"primary", "citations", "retry", "stable", "actions", "safe", "claims", "unsupported"} \subseteq Counted
      BY DEF Counted
    <3>2. QED
      BY <3>1, Evaluated, NothingCounts DEF GeneratedCounters
  <2> HIDE DEF b, g, r
  <2>7. r \in Positive /\ \A name \in Counted : r[name] = g[name] + b[name]
    BY <2>1, <2>2, <2>3, AddedCounts
  <2>8. \A x : One(x) \in Nat
    BY DEF One
  <2>9. ReportCounters(r, c, a)
    <3>1. Cardinality(a.causes) \in Nat /\ Cardinality(Unsupported(c, a)) \in Nat
      BY FiniteCounts DEF Unsupported
    <3>2. QED
      BY <3>1, <2>4, <2>6, <2>7, <2>8 DEF ReportCounters, Counted
  <2>10. \A name \in Generated : r[name] = g[name]
    BY <2>3, <2>5, <2>7 DEF Generated, Counted, Positive
  <2>11. a.invoked => \A name \in Generated : r[name] = EvaluateGenerated(c, a)[name]
    BY <2>10 DEF g
  <2>12. ~ a.invoked => \A name \in Generated : r[name] = 0
    BY <2>10, NothingCounts DEF g, Generated, Counted
  <2>13. QED
    BY <1>2, <2>7, <2>9, <2>11, <2>12 DEF r
<1>3. QED
  BY <1>1, <1>2

(* What is counted of executions that all passed.                          *)
Perfect(t, n) ==
  /\ t.primary = n /\ t.citations = n /\ t.retry = n /\ t.stable = n /\ t.safe = t.actions
  /\ t.relations = t.relationsExpected /\ t.facts = t.factsExpected /\ t.economical = t.economyCases
  /\ t.taxonomy = t.taxonomyCases /\ t.abstained = t.abstentions /\ t.useful = t.required
  /\ t.forbidden = 0 /\ t.unsupported = 0

(* An execution without a violation counts in full.                        *)
LEMMA PassedCounts ==
  ASSUME NEW c \in Labels, NEW a \in Outcomes, IsFiniteSet(a.causes),
         IsFiniteSet(c.facts), IsFiniteSet(c.relations), IsFiniteSet(c.forbidden),
         RunCaseViolations(c, a) = {}
  PROVE  Perfect(RunCaseCounters(c, a), 1)
<1> DEFINE r == RunCaseCounters(c, a)
           e == EvaluateGenerated(c, a)
<1>1. ~ Fails(a)
  BY DEF RunCaseViolations
<1>2. /\ a.cited /\ a.primary /\ a.retry /\ a.safe /\ a.stable /\ Unsupported(c, a) = {}
      /\ a.invoked => ContentViolations(c, a) \cup DispositionViolations(c, a) = {}
  BY <1>1 DEF RunCaseViolations, Broken
<1>3. /\ ReportCounters(r, c, a)
      /\ a.invoked => \A name \in Generated : r[name] = e[name]
      /\ ~ a.invoked => \A name \in Generated : r[name] = 0
  BY <1>1, ExecutionCounts
<1> HIDE DEF r
<1>4. r.primary = 1 /\ r.citations = 1 /\ r.retry = 1 /\ r.stable = 1 /\ r.safe = r.actions /\ r.unsupported = 0
  BY <1>2, <1>3, FS_EmptySet DEF ReportCounters, One
<1>5. CASE ~ a.invoked
  BY <1>3, <1>4, <1>5 DEF Perfect, Generated, r
<1>6. CASE a.invoked
  <2>1. GeneratedCounters(e, c, a)
    BY Evaluated
  <2>2. ContentViolations(c, a) = {} /\ DispositionViolations(c, a) = {}
    BY <1>2, <1>6
  <2>3. Scored(c, a) => HasCause(a)
    BY <2>2 DEF Scored, DispositionViolations, Broken
  <2>4. Scored(c, a) => /\ c.facts \subseteq a.told /\ c.relations \subseteq a.told /\ c.forbidden \cap a.told = {}
                        /\ HasCause(a) /\ c.citations > 0 => Economical(c, a)
    BY <2>2 DEF ContentViolations, Broken
  <2>5. Scored(c, a) => /\ Cardinality(c.facts \cap a.told) = Cardinality(c.facts)
                        /\ Cardinality(c.relations \cap a.told) = Cardinality(c.relations)
                        /\ Cardinality(c.forbidden \cap a.told) = 0
    BY <2>4, FiniteCounts
  <2> HIDE DEF e
  <2>6. e.facts = e.factsExpected /\ e.relations = e.relationsExpected /\ e.forbidden = 0
    BY <2>1, <2>5 DEF GeneratedCounters
  <2>7. e.taxonomy = e.taxonomyCases /\ e.economical = e.economyCases
    BY <2>1, <2>3, <2>4, <1>2 DEF GeneratedCounters, One
  <2>8. e.abstained = e.abstentions /\ e.useful = e.required
    <3>1. c.disposition = "required" => HasCause(a)
      BY <2>3 DEF Scored
    <3>2. QED
      BY <2>1, <2>2, <1>2, <3>1 DEF GeneratedCounters, One
  <2>9. QED
    BY <1>3, <1>4, <1>6, <2>6, <2>7, <2>8 DEF Perfect, Generated, r
<1>7. QED
  BY <1>5, <1>6 DEF Outcomes

CaseResults == [name : Nat, tags : SUBSET STRING, answer : Answers, passed : BOOLEAN]

EvaluationTypeOK ==
  /\ stage \in {"run", "done", "aborted", "refused"}
  /\ corpus \in Corpora
  /\ totals \in Positive
  /\ results \in Seq(CaseResults)
  /\ Len(results) <= Cases
  /\ stage # "refused" => ValidCorpus(corpus)

CorpusOf(cases) ==
  /\ cases \in Seq(Labels)
  /\ \A i \in DOMAIN cases :
       IsFiniteSet(cases[i].facts) /\ IsFiniteSet(cases[i].relations) /\ IsFiniteSet(cases[i].forbidden)

(* The quotient that finds the case of an execution.                       *)
LEMMA CaseUnderWay ==
  ASSUME NEW n \in Nat, NEW m \in Nat, NEW k \in Nat \ {0}, n < m * k
  PROVE  n \div k \in 0 .. m - 1
<1>1. n \div k \in Nat /\ n = k * (n \div k) + (n % k) /\ n % k \in 0 .. k - 1
  OBVIOUS
<1>2. ~ n \div k >= m
  <2>1. SUFFICES ASSUME n \div k >= m PROVE FALSE
    OBVIOUS
  <2>2. PICK d \in Nat : n \div k = m + d
    <3>1. (n \div k) - m \in Nat
      BY <1>1, <2>1
    <3>2. QED
      BY <3>1
  <2>3. k * (m + d) = m * k + k * d /\ k * d \in Nat
    OBVIOUS
  <2>4. QED
    BY <1>1, <2>2, <2>3
<1>3. QED
  BY <1>1, <1>2

(* The case under way is one of the corpus.                                *)
LEMMA CaseTyped ==
  ASSUME EvaluationTypeOK, Len(results) < Cases
  PROVE  /\ Case \in Labels
         /\ IsFiniteSet(Case.facts) /\ IsFiniteSet(Case.relations) /\ IsFiniteSet(Case.forbidden)
<1>1. Len(results) \in Nat /\ Len(corpus) \in Nat /\ CorpusOf(corpus) /\ Repeats \in Nat \ {0}
  BY EvaluationAssumption DEF EvaluationTypeOK, CorpusOf
<1>2. Len(results) \div Repeats \in 0 .. Len(corpus) - 1
  BY <1>1, CaseUnderWay DEF Cases
<1>3. (Len(results) \div Repeats) + 1 \in DOMAIN corpus
  BY <1>1, <1>2 DEF CorpusOf
<1>4. QED
  BY <1>1, <1>3 DEF Case, CorpusOf

(* What a step of the loop over the executions does.                       *)
Executed(a) ==
  LET r == RunCaseCounters(Case, a) IN
  /\ results' = Append(results, [name |-> Case.name, tags |-> Case.tags, answer |-> a,
                                 passed |-> RunCaseViolations(Case, a) = {}])
  /\ totals' \in Positive
  /\ \A name \in Counted \ {"comparisons", "consistent", "sources"} : totals'[name] = totals[name] + r[name]

(* What RunCase adds of the execution to the results and the totals.       *)
LEMMA RunCaseExecutes ==
  ASSUME EvaluationTypeOK, RunCase
  PROVE  \E a \in Answers : Executed(a)
<1>1. PICK a \in Answers :
        /\ results' = Append(results, [name |-> Case.name, tags |-> Case.tags, answer |-> a,
                                       passed |-> RunCaseViolations(Case, a) = {}])
        /\ totals' = Added(Added(totals, RunCaseCounters(Case, a)),
                           Added(Compared(a),
                                 Counts([sources |-> One(UsesSource(Case) /\ a.fails \in {"no", "diagnose"})])))
  BY DEF RunCase
<1> DEFINE r == RunCaseCounters(Case, a)
           s == Counts([sources |-> One(UsesSource(Case) /\ a.fails \in {"no", "diagnose"})])
<1>2. r \in Positive
  BY CaseTyped, ExecutionCounts, EvaluationAssumption DEF RunCase
<1>3. Compared(a) \in Positive /\ \A name \in Counted \ {"comparisons", "consistent"} : Compared(a)[name] = 0
  BY DEF Compared, Counts, Counted, Positive, One
<1>4. s \in Positive /\ \A name \in Counted \ {"sources"} : s[name] = 0
  BY DEF Counts, Counted, Positive, One
<1> HIDE DEF r, s
<1>5. totals \in Positive /\ totals' = Added(Added(totals, r), Added(Compared(a), s))
  BY <1>1 DEF EvaluationTypeOK, r, s
<1>6. /\ Added(totals, r) \in Positive
      /\ \A name \in Counted : Added(totals, r)[name] = totals[name] + r[name]
  BY <1>2, <1>5, AddedCounts
<1>7. /\ Added(Compared(a), s) \in Positive
      /\ \A name \in Counted : Added(Compared(a), s)[name] = Compared(a)[name] + s[name]
  BY <1>3, <1>4, AddedCounts
<1>8. /\ totals' \in Positive
      /\ \A name \in Counted : totals'[name] = Added(totals, r)[name] + Added(Compared(a), s)[name]
  BY <1>5, <1>6, <1>7, AddedCounts
<1>9. \A name \in Counted \ {"comparisons", "consistent", "sources"} : totals'[name] = totals[name] + r[name]
  BY <1>2, <1>3, <1>4, <1>5, <1>6, <1>7, <1>8 DEF Positive
<1>10. QED
  BY <1>1, <1>8, <1>9 DEF Executed, r

(* Every variable keeps its type, and results come only from a valid       *)
(* corpus, one for each execution at most.                                 *)
THEOREM EvaluationTypeCorrect == EvaluationSpec => []EvaluationTypeOK
<1>1. EvaluationInit => EvaluationTypeOK
  <2>1. SUFFICES ASSUME EvaluationInit PROVE EvaluationTypeOK
    OBVIOUS
  <2>2. Len(corpus) \in Nat /\ Repeats \in Nat /\ Len(<<>>) = 0 /\ <<>> \in Seq(CaseResults)
    BY EvaluationAssumption DEF EvaluationInit
  <2>3. Cases \in Nat
    BY <2>2 DEF Cases
  <2>4. QED
    BY <2>1, <2>2, <2>3, NothingCounts DEF EvaluationInit, EvaluationTypeOK
<1>2. EvaluationTypeOK /\ [EvaluationNext]_evaluation => EvaluationTypeOK'
  <2>1. SUFFICES ASSUME EvaluationTypeOK, [EvaluationNext]_evaluation
                 PROVE  EvaluationTypeOK'
    OBVIOUS
  <2>2. CASE RunCase
    <3>1. PICK a \in Answers : Executed(a)
      BY <2>1, <2>2, RunCaseExecutes
    <3>2. [name |-> Case.name, tags |-> Case.tags, answer |-> a, passed |-> RunCaseViolations(Case, a) = {}]
            \in CaseResults
      BY <2>1, <2>2, CaseTyped DEF RunCase, Labels, CaseResults
    <3>3. results' \in Seq(CaseResults) /\ Len(results') = Len(results) + 1
      BY <2>1, <3>1, <3>2 DEF Executed, EvaluationTypeOK
    <3>4. Len(results') <= Cases'
      <4>1. Cases' = Cases /\ Cases \in Nat /\ Len(results) \in Nat /\ Len(results) < Cases
        <5>1. Len(corpus) \in Nat /\ Repeats \in Nat /\ Len(results) \in Nat
          BY <2>1, EvaluationAssumption DEF EvaluationTypeOK
        <5>2. QED
          BY <2>2, <5>1 DEF RunCase, Cases
      <4>2. QED
        BY <3>3, <4>1
    <3>5. QED
      BY <2>1, <2>2, <3>1, <3>3, <3>4 DEF RunCase, Executed, EvaluationTypeOK, ValidCorpus
  <2>3. CASE Abort
    BY <2>1, <2>3 DEF Abort, EvaluationTypeOK, Cases, ValidCorpus
  <2>4. CASE Summarize
    BY <2>1, <2>4 DEF Summarize, EvaluationTypeOK, Cases, ValidCorpus
  <2>5. CASE EvaluationDone \/ UNCHANGED evaluation
    BY <2>1, <2>5 DEF EvaluationDone, evaluation, EvaluationTypeOK, Cases, ValidCorpus
  <2>6. QED
    BY <2>1, <2>2, <2>3, <2>4, <2>5 DEF EvaluationNext
<1>3. QED
  BY <1>1, <1>2, PTL DEF EvaluationSpec

-----------------------------------------------------------------------------
(* What is counted of results that all passed is perfect.                  *)
PassedInv ==
  /\ EvaluationTypeOK
  /\ stage = "done" => Len(results) = Cases
  /\ (\A i \in DOMAIN results : results[i].passed) => Perfect(totals, Len(results))

(* An execution more keeps what is counted of passed results perfect.      *)
LEMMA PassedStep ==
  ASSUME EvaluationTypeOK, PassedInv, RunCase
  PROVE  (\A i \in DOMAIN results' : results'[i].passed) => Perfect(totals, Len(results))'
<1>1. PICK a \in Answers : Executed(a)
  BY RunCaseExecutes
<1> DEFINE r == RunCaseCounters(Case, a)
           n == Len(results)
<1>2. SUFFICES ASSUME \A i \in DOMAIN results' : results'[i].passed
               PROVE  Perfect(totals, Len(results))'
  OBVIOUS
<1>3. n \in Nat /\ Len(results') = n + 1 /\ results \in Seq(CaseResults)
  BY <1>1 DEF EvaluationTypeOK, Executed
<1>4. \A i \in DOMAIN results : i \in DOMAIN results' /\ results'[i] = results[i]
  BY <1>1, <1>3 DEF Executed
<1>5. n + 1 \in DOMAIN results' /\ results'[n + 1].passed = (RunCaseViolations(Case, a) = {})
  BY <1>1, <1>3 DEF Executed
<1>6. Perfect(totals, n)
  BY <1>2, <1>4 DEF PassedInv
<1>7. Perfect(r, 1)
  BY <1>2, <1>5, CaseTyped, PassedCounts, EvaluationAssumption DEF RunCase
<1>8. totals \in Positive /\ r \in Positive
  BY CaseTyped, ExecutionCounts, EvaluationAssumption DEF EvaluationTypeOK, RunCase
<1>9. \A name \in Counted \ {"comparisons", "consistent", "sources"} :
        totals[name] \in Nat /\ r[name] \in Nat /\ totals'[name] = totals[name] + r[name]
  BY <1>1, <1>8 DEF Executed, Positive
<1> HIDE DEF r, n
<1>10. /\ totals'.primary = n + 1 /\ totals'.citations = n + 1 /\ totals'.retry = n + 1 /\ totals'.stable = n + 1
  <2>1. /\ totals'.primary = totals.primary + r.primary /\ totals'.citations = totals.citations + r.citations
        /\ totals'.retry = totals.retry + r.retry /\ totals'.stable = totals.stable + r.stable
    BY <1>9 DEF Counted
  <2>2. QED
    BY <2>1, <1>6, <1>7 DEF Perfect
<1>11. totals'.safe = totals'.actions /\ totals'.unsupported = 0 /\ totals'.forbidden = 0
  BY <1>6, <1>7, <1>9 DEF Perfect, Counted
<1>12. /\ totals'.relations = totals'.relationsExpected /\ totals'.facts = totals'.factsExpected
       /\ totals'.economical = totals'.economyCases /\ totals'.taxonomy = totals'.taxonomyCases
       /\ totals'.abstained = totals'.abstentions /\ totals'.useful = totals'.required
  BY <1>6, <1>7, <1>9 DEF Perfect, Counted
<1>13. QED
  BY <1>3, <1>10, <1>11, <1>12 DEF Perfect

(* The invariant behind PassedMeansPerfect.                                *)
LEMMA PassedCounting == EvaluationSpec => []PassedInv
<1>1. EvaluationInit /\ EvaluationTypeOK => PassedInv
  BY NothingCounts DEF EvaluationInit, PassedInv, Perfect, Counted
<1>2. EvaluationTypeOK /\ EvaluationTypeOK' /\ PassedInv /\ [EvaluationNext]_evaluation => PassedInv'
  <2>1. SUFFICES ASSUME EvaluationTypeOK, EvaluationTypeOK', PassedInv, [EvaluationNext]_evaluation
                 PROVE  PassedInv'
    OBVIOUS
  <2>2. CASE RunCase
    BY <2>1, <2>2, PassedStep DEF RunCase, PassedInv
  <2>3. CASE Abort
    BY <2>1, <2>3 DEF Abort, PassedInv, Perfect
  <2>4. CASE Summarize
    BY <2>1, <2>4 DEF Summarize, PassedInv, Perfect, Cases
  <2>5. CASE EvaluationDone \/ UNCHANGED evaluation
    BY <2>1, <2>5 DEF EvaluationDone, evaluation, PassedInv, Perfect, Cases
  <2>6. QED
    BY <2>1, <2>2, <2>3, <2>4, <2>5 DEF EvaluationNext
<1>3. QED
  BY <1>1, <1>2, EvaluationTypeCorrect, PTL DEF EvaluationSpec

(* Perfect counters make perfect metrics.                                  *)
LEMMA PerfectMetrics ==
  ASSUME totals \in Positive, Cases \in Nat, Perfect(totals, Cases)
  PROVE  /\ \A name \in {"abstention_accuracy", "causal_completeness", "citation_economy", "citation_validity",
                         "deterministic_stability", "entity_preservation", "primary_code_precision",
                         "retry_advice_accuracy", "safe_action_rate", "taxonomy_accuracy",
                         "useful_diagnosis_rate"} : AtLeast(Metrics[name], 100)
         /\ NoMoreThan(Metrics.forbidden_claim_rate, 0) /\ NoMoreThan(Metrics.unsupported_claim_rate, 0)
<1>1. \A over, whole \in Nat : \A gate : over = whole => AtLeast(Metric(over, whole, 100, gate), 100)
  BY DEF AtLeast, Metric
<1>2. \A whole \in Nat : \A gate : NoMoreThan(Metric(0, whole, 0, gate), 0)
  BY DEF NoMoreThan, Metric
<1>3. \A name \in Counted : totals[name] \in Nat
  BY DEF Positive
<1>4. /\ AtLeast(Metrics.abstention_accuracy, 100) /\ AtLeast(Metrics.causal_completeness, 100)
      /\ AtLeast(Metrics.citation_economy, 100) /\ AtLeast(Metrics.citation_validity, 100)
      /\ AtLeast(Metrics.deterministic_stability, 100) /\ AtLeast(Metrics.entity_preservation, 100)
  BY <1>1, <1>3 DEF Metrics, Perfect, Counted
<1>5. /\ AtLeast(Metrics.primary_code_precision, 100) /\ AtLeast(Metrics.retry_advice_accuracy, 100)
      /\ AtLeast(Metrics.safe_action_rate, 100) /\ AtLeast(Metrics.taxonomy_accuracy, 100)
      /\ AtLeast(Metrics.useful_diagnosis_rate, 100)
  BY <1>1, <1>3 DEF Metrics, Perfect, Counted
<1>6. NoMoreThan(Metrics.forbidden_claim_rate, 0) /\ NoMoreThan(Metrics.unsupported_claim_rate, 0)
  BY <1>2, <1>3 DEF Metrics, Perfect, Counted
<1>7. QED
  BY <1>4, <1>5, <1>6

(* When every execution passed, no correctness, safety or content metric   *)
(* is below perfect (runCase and the metrics of RunWithOptions).           *)
THEOREM PassedIsPerfect == EvaluationSpec => []PassedMeansPerfect
<1>1. PassedInv => PassedMeansPerfect
  <2>1. SUFFICES ASSUME PassedInv, stage = "done", \A i \in DOMAIN results : results[i].passed
                 PROVE  PassedMeansPerfect
    BY DEF PassedMeansPerfect
  <2>2. totals \in Positive /\ Len(results) \in Nat
    BY <2>1 DEF PassedInv, EvaluationTypeOK
  <2>3. Cases \in Nat /\ Perfect(totals, Cases)
    BY <2>1, <2>2 DEF PassedInv
  <2>4. QED
    BY <2>2, <2>3, PerfectMetrics DEF PassedMeansPerfect
<1>2. QED
  BY <1>1, PassedCounting, PTL

(* Results that were counted only when they deserved it: a counter as high *)
(* as it can be speaks for every result.                                   *)
Asked(i)     == results[i].answer.fails = "no" /\ results[i].answer.invoked
Withheld(i)  == results[i].answer.accepted /\ results[i].answer.causes = {}
MustAbstain(i) == CaseOf(i).disposition = "must_abstain"

EarnedInv ==
  /\ totals.invoked <= Len(results)
  /\ totals.invoked = Len(results) => \A i \in DOMAIN results : Asked(i)
  /\ totals.primary <= Len(results)
  /\ totals.primary = Len(results) => \A i \in DOMAIN results : results[i].answer.primary
  /\ totals.abstained <= totals.abstentions
  /\ totals.abstained = totals.abstentions => \A i \in DOMAIN results : Asked(i) /\ MustAbstain(i) => Withheld(i)
  /\ totals.useful <= Cardinality(Useful)
  /\ (\A i \in DOMAIN results : Asked(i)) => totals.required = Cardinality(Required)

(* One execution more, and what it may add.                                *)
LEMMA ExecutionEarns ==
  ASSUME NEW c \in Labels, NEW a \in Outcomes, IsFiniteSet(a.causes),
         IsFiniteSet(c.facts), IsFiniteSet(c.relations), IsFiniteSet(c.forbidden)
  PROVE  LET r     == RunCaseCounters(c, a)
             asked == a.fails = "no" /\ a.invoked
         IN
         /\ r \in Positive
         /\ r.invoked = One(asked)
         /\ r.primary \in {0, 1} /\ (r.primary = 1 => a.primary)
         /\ r.abstained <= r.abstentions
         /\ asked /\ c.disposition = "must_abstain" /\ r.abstained = r.abstentions => a.accepted /\ a.causes = {}
         /\ r.useful \in {0, 1}
         /\ r.useful = 1 => /\ c.disposition = "required" /\ a.fails = "no" /\ a.accepted /\ HasCause(a)
                            /\ a.causes \subseteq c.codes /\ c.facts \subseteq a.told
         /\ asked => r.required = One(c.disposition = "required")
<1> DEFINE r == RunCaseCounters(c, a)
           e == EvaluateGenerated(c, a)
<1>1. /\ r \in Positive
      /\ Fails(a) => \A name \in Counted : r[name] = 0
      /\ ~ Fails(a) => ReportCounters(r, c, a)
      /\ ~ Fails(a) /\ a.invoked => \A name \in Generated : r[name] = e[name]
      /\ ~ Fails(a) /\ ~ a.invoked => \A name \in Generated : r[name] = 0
  BY ExecutionCounts
<1>2. GeneratedCounters(e, c, a)
  BY Evaluated
<1> HIDE DEF r, e
<1>3. CASE Fails(a)
  <2>1. /\ r.invoked = 0 /\ r.primary = 0 /\ r.abstained = 0 /\ r.abstentions = 0 /\ r.useful = 0 /\ r.required = 0
    BY <1>1, <1>3 DEF Counted
  <2>2. QED
    BY <1>1, <1>3, <2>1 DEF Fails, One, r
<1>4. CASE ~ Fails(a) /\ ~ a.invoked
  <2>1. /\ r.invoked = 0 /\ r.abstained = 0 /\ r.abstentions = 0 /\ r.useful = 0 /\ r.required = 0
    BY <1>1, <1>4 DEF Generated
  <2>2. r.primary = One(a.primary)
    BY <1>1, <1>4 DEF ReportCounters
  <2>3. QED
    BY <1>1, <1>4, <2>1, <2>2 DEF Fails, One, r
<1>5. CASE ~ Fails(a) /\ a.invoked
  <2>1. /\ r.invoked = e.invoked /\ r.abstained = e.abstained /\ r.abstentions = e.abstentions
        /\ r.useful = e.useful /\ r.required = e.required
    BY <1>1, <1>5 DEF Generated
  <2>2. r.primary = One(a.primary)
    BY <1>1, <1>5 DEF ReportCounters
  <2>3. a.fails = "no"
    BY <1>5 DEF Fails
  <2>4. r.invoked = 1 /\ r.required = One(c.disposition = "required")
    BY <1>2, <2>1 DEF GeneratedCounters
  <2>5. r.abstained <= r.abstentions
    BY <1>2, <2>1 DEF GeneratedCounters, One
  <2>6. c.disposition = "must_abstain" /\ r.abstained = r.abstentions => a.accepted /\ a.causes = {}
    BY <1>2, <2>1 DEF GeneratedCounters, One, DispositionViolations, Broken, HasCause
  <2>7. r.useful \in {0, 1}
    BY <1>2, <2>1 DEF GeneratedCounters, One
  <2>8. ASSUME r.useful = 1
        PROVE  /\ c.disposition = "required" /\ a.accepted /\ HasCause(a)
               /\ a.causes \subseteq c.codes /\ c.facts \subseteq a.told
    <3>1. /\ c.disposition = "required" /\ HasCause(a) /\ Unsupported(c, a) = {}
          /\ ContentViolations(c, a) = {} /\ DispositionViolations(c, a) = {}
      BY <1>2, <2>1, <2>8 DEF GeneratedCounters, One
    <3>2. a.causes \subseteq c.codes
      BY <3>1 DEF Unsupported
    <3>3. a.accepted
      BY <3>1 DEF DispositionViolations, Broken
    <3>4. c.facts \subseteq a.told
      BY <3>1 DEF ContentViolations, Scored, Broken
    <3>5. QED
      BY <3>1, <3>2, <3>3, <3>4
  <2>9. r.primary \in {0, 1} /\ (r.primary = 1 => a.primary)
    BY <2>2 DEF One
  <2>10. QED
    BY <1>1, <1>5, <2>3, <2>4, <2>5, <2>6, <2>7, <2>8, <2>9 DEF r, One
<1>6. QED
  BY <1>3, <1>4, <1>5 DEF Outcomes

(* Positions that are counted.                                             *)
LEMMA PositionsCount ==
  ASSUME EvaluationTypeOK
  PROVE  /\ IsFiniteSet(Useful) /\ IsFiniteSet(Required)
         /\ Cardinality(Useful) \in Nat /\ Cardinality(Required) \in Nat
<1>1. Len(results) \in Nat /\ DOMAIN results = 1 .. Len(results)
  BY DEF EvaluationTypeOK
<1>2. IsFiniteSet(1 .. Len(results))
  BY <1>1, FS_Interval
<1>3. Useful \subseteq 1 .. Len(results) /\ Required \subseteq 1 .. Len(results)
  BY <1>1 DEF Useful, Required
<1>4. QED
  BY <1>2, <1>3, FS_Subset, FS_CardinalityType

(* An execution more keeps what the counters say of every result.          *)
LEMMA EarnedStep ==
  ASSUME EvaluationTypeOK, EvaluationTypeOK', EarnedInv, RunCase
  PROVE  EarnedInv'
<1>0. PICK n : n = Len(results)
  OBVIOUS
<1>1. PICK a \in Answers : Executed(a)
  BY RunCaseExecutes
<1> DEFINE r == RunCaseCounters(Case, a)
           asked == a.fails = "no" /\ a.invoked
<1>2. /\ n \in Nat /\ DOMAIN results = 1 .. n /\ DOMAIN results' = 1 .. n + 1
      /\ Len(results') = n + 1
      /\ \A i \in 1 .. n : results'[i] = results[i]
      /\ results'[n + 1].answer = a
  BY <1>1, <1>0 DEF EvaluationTypeOK, Executed
<1>3. /\ r \in Positive
      /\ r.invoked = One(asked)
      /\ r.primary \in {0, 1} /\ (r.primary = 1 => a.primary)
      /\ r.abstained <= r.abstentions
      /\ asked /\ Case.disposition = "must_abstain" /\ r.abstained = r.abstentions => a.accepted /\ a.causes = {}
      /\ r.useful \in {0, 1}
      /\ r.useful = 1 => /\ Case.disposition = "required" /\ a.fails = "no" /\ a.accepted /\ HasCause(a)
                         /\ a.causes \subseteq Case.codes /\ Case.facts \subseteq a.told
      /\ asked => r.required = One(Case.disposition = "required")
  BY CaseTyped, ExecutionEarns, EvaluationAssumption DEF RunCase
<1> HIDE DEF r
<1>4. /\ totals'.invoked = totals.invoked + r.invoked /\ totals'.primary = totals.primary + r.primary
      /\ totals'.abstained = totals.abstained + r.abstained
      /\ totals'.abstentions = totals.abstentions + r.abstentions
      /\ totals'.useful = totals.useful + r.useful /\ totals'.required = totals.required + r.required
  BY <1>1 DEF Executed, Counted, r
<1>5. /\ totals.invoked \in Nat /\ totals.primary \in Nat /\ totals.abstained \in Nat /\ totals.abstentions \in Nat
      /\ totals.useful \in Nat /\ totals.required \in Nat
      /\ r.invoked \in Nat /\ r.primary \in Nat /\ r.abstained \in Nat /\ r.abstentions \in Nat
      /\ r.useful \in Nat /\ r.required \in Nat
  BY <1>3 DEF EvaluationTypeOK, Positive, Counted
<1>6. corpus' = corpus /\ CaseOf(n + 1) = Case
  BY <1>2, <1>0 DEF RunCase, CaseOf, Case
<1>7. CaseOf(n + 1)' = Case /\ \A i \in 1 .. n : CaseOf(i)' = CaseOf(i)
  BY <1>6 DEF CaseOf
<1>8. /\ \A i \in 1 .. n : /\ (Asked(i)' <=> Asked(i))
                          /\ (MustAbstain(i)' <=> MustAbstain(i))
                          /\ (Withheld(i)' <=> Withheld(i))
      /\ Asked(n + 1)' <=> asked
      /\ MustAbstain(n + 1)' <=> Case.disposition = "must_abstain"
      /\ Withheld(n + 1)' <=> a.accepted /\ a.causes = {}
  BY <1>2, <1>7 DEF Asked, MustAbstain, Withheld
<1>8a. n \in Nat
  BY <1>2
<1>8b. n \in Nat /\ (DOMAIN results = 1 .. n) /\ (1 .. n + 1 = 1 .. n \cup {n + 1})
  BY <1>2
<1>9. /\ totals'.invoked <= n + 1
      /\ totals'.invoked = n + 1 => \A i \in 1 .. n + 1 : Asked(i)'
  <2>1. totals.invoked <= n /\ (totals.invoked = n => \A i \in 1 .. n : Asked(i))
    BY <1>2, <1>0 DEF EarnedInv
  <2>2. r.invoked \in {0, 1} /\ (r.invoked = 1 => asked)
    BY <1>3 DEF One
  <2>3. totals'.invoked = n + 1 => totals.invoked = n /\ r.invoked = 1
    BY <2>1, <2>2, <1>8a, <1>4, <1>5
  <2>4. totals'.invoked <= n + 1
    BY <2>1, <2>2, <1>8a, <1>4, <1>5
  <2>5. ASSUME totals'.invoked = n + 1, NEW i \in 1 .. n + 1
        PROVE  Asked(i)'
    <3>1. i = n + 1 \/ i \in 1 .. n
      BY <1>8b
    <3>2. i = n + 1 => Asked(i)'
      BY <2>2, <2>3, <2>5, <1>8
    <3>3. i \in 1 .. n => Asked(i)'
      BY <2>1, <2>3, <2>5, <1>8
    <3>4. QED
      BY <3>1, <3>2, <3>3
  <2>6. QED
    BY <2>4, <2>5
<1>10. /\ totals'.primary <= n + 1
       /\ totals'.primary = n + 1 => \A i \in 1 .. n + 1 : results'[i].answer.primary
  <2>1. totals.primary <= n /\ (totals.primary = n => \A i \in 1 .. n : results[i].answer.primary)
    BY <1>2, <1>0 DEF EarnedInv
  <2>2. totals'.primary = n + 1 => totals.primary = n /\ r.primary = 1
    BY <2>1, <1>8a, <1>3, <1>4, <1>5
  <2>3. totals'.primary <= n + 1
    BY <2>1, <1>8a, <1>3, <1>4, <1>5
  <2>4. results'[n + 1].answer = a /\ \A i \in 1 .. n : results'[i] = results[i]
    BY <1>2
  <2>5. QED
    BY <2>1, <2>2, <2>3, <2>4, <1>8b, <1>3
<1>11. /\ totals'.abstained <= totals'.abstentions
       /\ totals'.abstained = totals'.abstentions =>
            \A i \in 1 .. n + 1 : Asked(i)' /\ MustAbstain(i)' => Withheld(i)'
  <2>1. /\ totals.abstained <= totals.abstentions
        /\ totals.abstained = totals.abstentions => \A i \in 1 .. n : Asked(i) /\ MustAbstain(i) => Withheld(i)
    BY <1>2, <1>0 DEF EarnedInv
  <2>2. totals'.abstained = totals'.abstentions =>
          totals.abstained = totals.abstentions /\ r.abstained = r.abstentions
    <3>1. r.abstained <= r.abstentions
      BY <1>3
    <3>2. QED
      BY <2>1, <3>1, <1>4, <1>5
  <2>3. totals'.abstained <= totals'.abstentions
    BY <2>1, <1>3, <1>4, <1>5
  <2>4. ASSUME totals'.abstained = totals'.abstentions, NEW i \in 1 .. n + 1, Asked(i)', MustAbstain(i)'
        PROVE  Withheld(i)'
    <3>1. i = n + 1 \/ i \in 1 .. n
      BY <1>8b
    <3>2. i = n + 1 => Withheld(i)'
      BY <2>2, <2>4, <1>3, <1>8
    <3>3. i \in 1 .. n => Withheld(i)'
      BY <2>1, <2>2, <2>4, <1>8
    <3>4. QED
      BY <3>1, <3>2, <3>3
  <2>5. QED
    BY <2>3, <2>4
<1>12. Required' = Required \cup (IF Case.disposition = "required" THEN {n + 1} ELSE {})
  BY <1>2, <1>7 DEF Required
<1>13. Useful \subseteq Useful'
  <2>1. SUFFICES ASSUME NEW i \in Useful
                 PROVE  i \in Useful'
    OBVIOUS
  <2>2. i \in 1 .. n /\ i \in Required /\ results'[i] = results[i] /\ CaseOf(i)' = CaseOf(i)
    BY <2>1, <1>2, <1>7 DEF Useful, Required
  <2>3. i \in Required'
    BY <2>2, <1>12
  <2>4. QED
    BY <2>1, <2>2, <2>3 DEF Useful
<1>14. r.useful = 1 => n + 1 \in Useful'
  BY <1>2, <1>3, <1>7, <1>12 DEF Useful
<1>15. n + 1 \notin Required /\ n + 1 \notin Useful
  BY <1>2 DEF Required, Useful
<1>16. totals'.useful <= Cardinality(Useful')
  <2>1. /\ IsFiniteSet(Useful) /\ IsFiniteSet(Useful') /\ Cardinality(Useful) \in Nat /\ Cardinality(Useful') \in Nat
    <3>1. IsFiniteSet(Useful) /\ Cardinality(Useful) \in Nat
      BY PositionsCount
    <3>2. Useful' \subseteq 1 .. n + 1 /\ IsFiniteSet(1 .. n + 1)
      BY <1>2, FS_Interval DEF Useful, Required
    <3>3. QED
      BY <3>1, <3>2, FS_Subset, FS_CardinalityType
  <2>2. totals.useful <= Cardinality(Useful)
    BY DEF EarnedInv
  <2>3. Cardinality(Useful) <= Cardinality(Useful')
    BY <2>1, <1>13, FS_Subset
  <2>4. r.useful = 1 => Cardinality(Useful) + 1 <= Cardinality(Useful')
    <3>1. Cardinality(Useful \cup {n + 1}) = Cardinality(Useful) + 1
      BY <2>1, <1>15, FS_AddElement
    <3>2. r.useful = 1 => Useful \cup {n + 1} \subseteq Useful'
      BY <1>13, <1>14
    <3>3. r.useful = 1 => Cardinality(Useful \cup {n + 1}) <= Cardinality(Useful')
      BY <2>1, <3>2, FS_Subset
    <3>4. QED
      BY <3>1, <3>3
  <2>5. QED
    BY <1>3, <1>4, <1>5, <2>1, <2>2, <2>3, <2>4
<1>17. (\A i \in 1 .. n + 1 : Asked(i)') => totals'.required = Cardinality(Required')
  <2>1. SUFFICES ASSUME \A i \in 1 .. n + 1 : Asked(i)'
                 PROVE  totals'.required = Cardinality(Required')
    OBVIOUS
  <2>2. (\A i \in DOMAIN results : Asked(i)) /\ asked
    BY <1>2, <1>8, <2>1
  <2>3. totals.required = Cardinality(Required) /\ r.required = One(Case.disposition = "required")
    BY <1>3, <2>2 DEF EarnedInv
  <2>4. Cardinality(Required') = Cardinality(Required) + One(Case.disposition = "required")
    <3>1. CASE Case.disposition = "required"
      BY <3>1, <1>12, <1>15, PositionsCount, FS_AddElement DEF One
    <3>2. CASE Case.disposition # "required"
      BY <3>2, <1>12, PositionsCount DEF One
    <3>3. QED
      BY <3>1, <3>2
  <2>5. QED
    BY <1>4, <2>3, <2>4
<1>18. QED
  BY <1>2, <1>9, <1>10, <1>11, <1>16, <1>17 DEF EarnedInv, Asked, MustAbstain, Withheld

(* A bound of a policy that approved the result.                           *)
Upheld(name) ==
  policy.metrics[name].least # NoBound =>
    policy.metrics[name].least <= 100 /\ AtLeast(Metrics[name], policy.metrics[name].least)

Gate ==
  Promoted => /\ policy \in PromotionPolicies /\ live
              /\ totals.invoked >= policy.invoked
              /\ \A name \in DOMAIN policy.metrics : Upheld(name)

PromotionInv == EvaluationTypeOK /\ EarnedInv /\ (stage = "done" => Len(results) = Cases) /\ Gate

(* What an assessment without a violation says.                            *)
LEMMA Approved ==
  ASSUME NEW p, NEW isLive, AssessPromotion(p, isLive) = {}
  PROVE  /\ isLive /\ totals.invoked >= p.invoked
         /\ \A name \in DOMAIN p.metrics :
              p.metrics[name].least # NoBound =>
                p.metrics[name].least <= 100 /\ AtLeast(Metrics[name], p.metrics[name].least)
<1>1. ValidPolicy(p) /\ WorkloadViolations(p, isLive) = {} /\ MetricViolations(p) = {}
  BY DEF AssessPromotion
<1>2. isLive /\ totals.invoked >= p.invoked
  BY <1>1 DEF WorkloadViolations, Broken
<1>3. ASSUME NEW name \in DOMAIN p.metrics, p.metrics[name].least # NoBound
      PROVE  p.metrics[name].least <= 100 /\ AtLeast(Metrics[name], p.metrics[name].least)
  <2>1. p.metrics[name].least \in {NoBound} \cup 0 .. 100
    BY <1>1 DEF ValidPolicy
  <2>2. AtLeast(Metrics[name], p.metrics[name].least)
    BY <1>1, <1>3 DEF MetricViolations
  <2>3. QED
    BY <1>3, <2>1, <2>2
<1>4. QED
  BY <1>2, <1>3

(* The invariant behind PromotionIsEarned.                                 *)
LEMMA PromotionGated == EvaluationSpec => []PromotionInv
<1>1. EvaluationInit /\ EvaluationTypeOK => PromotionInv
  <2>1. SUFFICES ASSUME EvaluationInit, EvaluationTypeOK
                 PROVE  PromotionInv
    OBVIOUS
  <2>2. Required = {} /\ Useful = {} /\ Len(results) = 0 /\ DOMAIN results = {}
    BY <2>1 DEF EvaluationInit, Required, Useful
  <2>3. EarnedInv
    <3>1. /\ totals.invoked = 0 /\ totals.primary = 0 /\ totals.abstained = 0 /\ totals.abstentions = 0
          /\ totals.useful = 0 /\ totals.required = 0
      BY <2>1, NothingCounts DEF EvaluationInit, Counted
    <3>2. QED
      BY <2>2, <3>1, FS_EmptySet DEF EarnedInv
  <2>4. QED
    BY <2>1, <2>3 DEF EvaluationInit, PromotionInv, Gate, Promoted
<1>2. EvaluationTypeOK /\ EvaluationTypeOK' /\ PromotionInv /\ [EvaluationNext]_evaluation => PromotionInv'
  <2>1. SUFFICES ASSUME EvaluationTypeOK, EvaluationTypeOK', PromotionInv, [EvaluationNext]_evaluation
                 PROVE  PromotionInv'
    OBVIOUS
  <2>2. CASE RunCase
    <3>1. EarnedInv'
      BY <2>1, <2>2, EarnedStep DEF PromotionInv
    <3>2. QED
      BY <2>1, <2>2, <3>1 DEF RunCase, PromotionInv, Gate, Promoted
  <2>3. ASSUME UNCHANGED <<corpus, results, totals>>
        PROVE  EarnedInv' /\ Metrics' = Metrics /\ Cases' = Cases
    <3>1. \A i \in DOMAIN results : /\ CaseOf(i)' = CaseOf(i) /\ (Asked(i)' <=> Asked(i))
                                    /\ (MustAbstain(i)' <=> MustAbstain(i)) /\ (Withheld(i)' <=> Withheld(i))
      BY <2>3 DEF CaseOf, Asked, MustAbstain, Withheld
    <3>2. Required' = Required /\ Useful' = Useful
      BY <2>3 DEF Required, Useful, CaseOf
    <3>3. Metrics' = Metrics /\ Cases' = Cases
      BY <2>3 DEF Metrics, Cases
    <3>4. EarnedInv'
      BY <2>1, <2>3, <3>1, <3>2 DEF EarnedInv, PromotionInv
    <3>5. QED
      BY <3>3, <3>4
  <2>4. CASE Abort
    BY <2>1, <2>3, <2>4 DEF Abort, PromotionInv, Gate, Promoted
  <2>5. CASE Summarize
    <3>1. EarnedInv' /\ Metrics' = Metrics /\ Cases' = Cases
      BY <2>3, <2>5 DEF Summarize
    <3>2. ASSUME assessment' = {}
          PROVE  /\ live' /\ totals.invoked >= policy'.invoked
                 /\ \A name \in DOMAIN policy'.metrics :
                      policy'.metrics[name].least # NoBound =>
                        policy'.metrics[name].least <= 100 /\ AtLeast(Metrics[name], policy'.metrics[name].least)
      BY <2>5, <3>2, Approved DEF Summarize
    <3>3. Gate'
      BY <2>5, <3>1, <3>2 DEF Summarize, Gate, Promoted, Upheld, AtLeast, NoBound
    <3>4. QED
      BY <2>1, <2>5, <3>1, <3>3 DEF Summarize, PromotionInv
  <2>7. CASE EvaluationDone \/ UNCHANGED evaluation
    <3>1. UNCHANGED evaluation
      BY <2>7 DEF EvaluationDone
    <3>2. EarnedInv' /\ Metrics' = Metrics /\ Cases' = Cases
      BY <3>1, <2>3 DEF evaluation
    <3>3. Gate'
      BY <2>1, <3>1, <3>2 DEF evaluation, PromotionInv, Gate, Promoted, Upheld, AtLeast, NoBound
    <3>4. QED
      BY <2>1, <3>1, <3>2, <3>3 DEF evaluation, PromotionInv
  <2>6. QED
    BY <2>1, <2>2, <2>4, <2>5, <2>7 DEF EvaluationNext
<1>3. QED
  BY <1>1, <1>2, EvaluationTypeCorrect, PTL DEF EvaluationSpec

(* A demand that a metric be perfect leaves nothing below the whole.       *)
LEMMA DemandUpheld ==
  ASSUME NEW over \in Nat, NEW whole \in Nat, NEW empty, NEW gate, NEW least \in Int,
         AtLeast(Metric(over, whole, empty, gate), least), least >= 0
  PROVE  /\ over * 100 >= least * whole
         /\ least = 100 => over >= whole
<1>1. CASE whole = 0
  <2>1. least * whole = 0
    BY <1>1
  <2>2. QED
    BY <1>1, <2>1
<1>2. CASE whole # 0
  <2>1. over * 100 >= least * whole
    BY <1>2 DEF AtLeast, Metric
  <2>2. QED
    BY <2>1
<1>3. QED
  BY <1>1, <1>2

(* A promotion is earned by every execution of every case: AssessPromotion *)
(* under a policy that demands every execution to have asked the provider. *)
THEOREM PromotionEarned == EvaluationSpec => []PromotionIsEarned
<1>1. PromotionInv => PromotionIsEarned
  <2>1. SUFFICES ASSUME PromotionInv, Promoted, policy.invoked >= Cases
                 PROVE  /\ live /\ Len(results) = Cases
                        /\ \A i \in DOMAIN results :
                             LET a == results[i].answer IN
                             /\ a.fails = "no" /\ a.invoked
                             /\ Demands("primary_code_precision", 100) => a.primary
                             /\ Demands("abstention_accuracy", 100) /\ CaseOf(i).disposition = "must_abstain"
                                  => a.accepted /\ a.causes = {}
                        /\ Demands("useful_diagnosis_rate", 75) =>
                             Cardinality(Useful) * 100
                               >= policy.metrics.useful_diagnosis_rate.least * Cardinality(Required)
    BY DEF PromotionIsEarned
  <2>2. /\ EvaluationTypeOK /\ EarnedInv /\ Len(results) = Cases /\ Cases \in Nat
        /\ policy \in PromotionPolicies /\ live /\ totals.invoked >= policy.invoked
        /\ \A name \in DOMAIN policy.metrics : Upheld(name)
    BY <2>1 DEF PromotionInv, Gate, Promoted, EvaluationTypeOK
  <2>3. /\ totals.invoked \in Nat /\ totals.primary \in Nat /\ totals.abstained \in Nat
        /\ totals.abstentions \in Nat /\ totals.useful \in Nat /\ totals.required \in Nat
    BY <2>2 DEF EvaluationTypeOK, Positive, Counted
  <2>4. policy.invoked \in Int
        /\ \A name \in DOMAIN policy.metrics : policy.metrics[name].least \in Int
    BY <2>2, EvaluationAssumption
  <2>5. \A i \in DOMAIN results : Asked(i)
    <3>1. totals.invoked = Len(results)
      BY <2>1, <2>2, <2>3, <2>4 DEF EarnedInv
    <3>2. QED
      BY <2>2, <3>1 DEF EarnedInv
  <2>6. \A name, bound : Demands(name, bound) /\ bound \in Nat =>
          LET least == policy.metrics[name].least IN
          least \in Int /\ least >= bound /\ least <= 100 /\ AtLeast(Metrics[name], least)
    BY <2>2, <2>4 DEF Demands, Upheld, NoBound
  <2>7. Demands("primary_code_precision", 100) => \A i \in DOMAIN results : results[i].answer.primary
    <3>1. SUFFICES ASSUME Demands("primary_code_precision", 100)
                   PROVE  \A i \in DOMAIN results : results[i].answer.primary
      OBVIOUS
    <3>2. Metrics.primary_code_precision = Metric(totals.primary, Cases, 100, Cases)
      BY DEF Metrics
    <3>3. totals.primary >= Cases
      <4>1. PICK least \in Int : least = 100 /\ AtLeast(Metrics.primary_code_precision, least)
        BY <3>1, <2>6
      <4>2. AtLeast(Metric(totals.primary, Cases, 100, Cases), least)
        BY <3>2, <4>1
      <4>3. QED
        BY <4>1, <4>2, <2>2, <2>3, DemandUpheld
    <3>4. totals.primary = Len(results)
      BY <2>2, <2>3, <3>3 DEF EarnedInv
    <3>5. QED
      BY <2>2, <3>4 DEF EarnedInv
  <2>8. Demands("abstention_accuracy", 100) =>
          \A i \in DOMAIN results : MustAbstain(i) => Withheld(i)
    <3>1. SUFFICES ASSUME Demands("abstention_accuracy", 100)
                   PROVE  \A i \in DOMAIN results : MustAbstain(i) => Withheld(i)
      OBVIOUS
    <3>2. Metrics.abstention_accuracy = Metric(totals.abstained, totals.abstentions, 100, totals.abstentions)
      BY DEF Metrics
    <3>3. totals.abstained >= totals.abstentions
      <4>1. PICK least \in Int : least = 100 /\ AtLeast(Metrics.abstention_accuracy, least)
        BY <3>1, <2>6
      <4>2. AtLeast(Metric(totals.abstained, totals.abstentions, 100, totals.abstentions), least)
        BY <3>2, <4>1
      <4>3. QED
        BY <4>1, <4>2, <2>3, DemandUpheld
    <3>4. totals.abstained = totals.abstentions
      BY <2>2, <2>3, <3>3 DEF EarnedInv
    <3>5. QED
      BY <2>2, <2>5, <3>4 DEF EarnedInv
  <2>9. Demands("useful_diagnosis_rate", 75) =>
          Cardinality(Useful) * 100 >= policy.metrics.useful_diagnosis_rate.least * Cardinality(Required)
    <3>1. SUFFICES ASSUME Demands("useful_diagnosis_rate", 75)
                   PROVE  Cardinality(Useful) * 100
                            >= policy.metrics.useful_diagnosis_rate.least * Cardinality(Required)
      OBVIOUS
    <3>2. Metrics.useful_diagnosis_rate = Metric(totals.useful, totals.required, 100, totals.required)
      BY DEF Metrics
    <3>3. PICK least \in Int : /\ least = policy.metrics.useful_diagnosis_rate.least /\ least >= 75
                               /\ AtLeast(Metrics.useful_diagnosis_rate, least)
      BY <3>1, <2>6
    <3>4. totals.useful * 100 >= least * totals.required
      <4>1. PICK useful, asked \in Nat : useful = totals.useful /\ asked = totals.required
        BY <2>3
      <4>2. AtLeast(Metric(useful, asked, 100, asked), least) /\ least >= 75
        BY <3>2, <3>3, <4>1
      <4>3. useful * 100 >= least * asked
        BY <4>2, DemandUpheld
      <4>4. QED
        BY <4>1, <4>3
    <3>5. /\ totals.required = Cardinality(Required) /\ totals.useful <= Cardinality(Useful)
          /\ Cardinality(Useful) \in Nat
      BY <2>2, <2>5, PositionsCount DEF EarnedInv
    <3>6. QED
      BY <3>3, <3>4, <3>5, <2>3
  <2>10. QED
    BY <2>2, <2>5, <2>7, <2>8, <2>9 DEF Asked, MustAbstain, Withheld
<1>2. QED
  BY <1>1, PromotionGated, PTL
=============================================================================
