----------------------------- MODULE ReportCodec -----------------------------
(***************************************************************************)
(* What makes a diagnosis report and the evidence it cites well formed:    *)
(* diagnosis/codec.go, shared.go, evidence.go and citation_identity.go,    *)
(* for the reports of the deterministic engine, which use no provider.     *)
(*                                                                         *)
(* Evidence is a record: the job's phase and outcome, the selected runs in *)
(* increasing order, items and artifacts, and what the companion derived   *)
(* from them.  An ID is a tuple <<code, place, n>>; for an item, place is  *)
(* the run it belongs to, Job or Elsewhere.  "ok" says that the value of   *)
(* an item decodes.  Lists that Seal sorts and compacts are sets, and so   *)
(* are the citations, built from a set of references; lists whose          *)
(* duplicates it refuses are sequences.                                    *)
(* A digest stands for the content it is computed from.                    *)
(***************************************************************************)
EXTENDS Naturals, Integers, SequencesExt

Job       == 0
Elsewhere == -1
None      == "none"

LocalSchema  == 1
SharedSchema == 2

Verdicts == {"now", "after_delay", "after_change", "no", "not_applicable", "unknown"}
Policies == {"scheduled", "backoff", "waiting_prerequisite", "exhausted", "nonretryable", "none", "unknown"}

Increasing(s) == \A i, j \in DOMAIN s : i < j => s[i] < s[j]
IDs(s)        == [i \in DOMAIN s |-> s[i].id]

-----------------------------------------------------------------------------
(* Evidence.                                                               *)

ValidCitationIDs(e) == IsInjective(IDs(e.items) \o IDs(e.artifacts) \o IDs(e.enrichment))

ValidEnrichmentItem(item, artifacts) ==
  \E a \in ToSet(artifacts) : /\ a.id = item.artifact
                              /\ item.start <= item.end
                              /\ item.end <= Len(a.log)

(* VerifyFailureEvidence.  "sealed" says that the digest matches.          *)
ValidFailureEvidence(e) ==
  /\ e.sealed
  /\ ValidCitationIDs(e)
  /\ \A i \in DOMAIN e.enrichment : ValidEnrichmentItem(e.enrichment[i], e.artifacts)

-----------------------------------------------------------------------------
(* Reports.                                                                *)

ValidSubject(s) == s.phase # "" /\ Increasing(s.runs)

ValidFindings(r) ==
  /\ r.findings # <<>>
  /\ IsInjective(IDs(r.findings))
  /\ r.primary \in ToSet(IDs(r.findings))
  /\ \A f \in ToSet(r.findings) : f.score \in 0 .. 100

(* The allowlist of read-only commands: show, evidence, and the log of a   *)
(* run that has a number.                                                  *)
ValidActionExecution(a) ==
  \/ a.execution = "none" /\ a.command = None
  \/ a.execution = "read_only" /\ a.command \in {"show", "evidence"}
  \/ a.execution = "read_only" /\ a.command = "logs" /\ a.run > 0

ValidActions(actions) ==
  /\ IsInjective(IDs(actions))
  /\ \A a \in ToSet(actions) : ValidActionExecution(a)

ValidRetry(retry) ==
  /\ retry.verdict \in Verdicts
  /\ retry.policy \in Policies
  /\ retry.score \in 0 .. 100

ValidCitations(citations) ==
  /\ \A c, d \in citations : c.id = d.id => c = d
  /\ \A c \in citations :
       IF c.kind = "enrichment" THEN c.source # <<>> /\ c.start <= c.end
                                ELSE c.source = <<>> /\ c.start = 0 /\ c.end = 0

ValidLimitations(r) == IsInjective(r.missing) /\ IsInjective(r.warnings)

ValidSharedReport(r) ==
  IF r.schema = LocalSchema THEN ~ r.shared
  ELSE r.shared /\ \A a \in ToSet(r.actions) : a.execution = "none" /\ a.command = None

Valid(r) ==
  /\ r.schema \in {LocalSchema, SharedSchema}
  /\ ValidSubject(r.subject)
  /\ ValidFindings(r)
  /\ ValidActions(r.actions)
  /\ ValidRetry(r.retry)
  /\ ValidCitations(r.citations)
  /\ ValidLimitations(r)
  /\ ValidSharedReport(r)

(* normalize: every analyzer a finding names is listed.                    *)
Normalized(r) == [r EXCEPT !.analyzers = @ \cup {f.analyzer : f \in ToSet(r.findings)}]

(* The fingerprint that groups reports looks at the primary finding only.  *)
DiagnosisFingerprint(r) ==
  LET primary == CHOOSE f \in ToSet(r.findings) : f.id = r.primary IN
  [core |-> r.fingerprint, code |-> primary.code, analyzer |-> primary.analyzer, analyzers |-> r.analyzers]

(* reportEvidenceReferences.                                               *)
ReportReferences(r) ==
  (UNION {f.support : f \in ToSet(r.findings)}) \cup (UNION {a.support : a \in ToSet(r.actions)})
    \cup r.retry.support

-----------------------------------------------------------------------------
(* A report and the evidence it was made from.                             *)

MatchesProvenance(r, e) ==
  /\ r.subject = [phase |-> e.phase, outcome |-> e.outcome, runs |-> e.runs]
  /\ r.shared = e.shared
  /\ r.fingerprint # None =>
       \E i \in ToSet(e.items) : i.code = "FailureFingerprint" /\ i.ok /\ i.value = r.fingerprint

ActionsMatchSubject(actions, e) ==
  \A a \in ToSet(actions) :
    a.command = "logs" => a.run > 0 /\ (e.runs # <<>> => a.run \in ToSet(e.runs))

CitationMatches(c, e) ==
  \/ c.id \in ToSet(IDs(e.items)) /\ c.kind = "item"
  \/ c.id \in ToSet(IDs(e.artifacts)) /\ c.kind = "artifact"
  \/ \E i \in ToSet(e.enrichment) :
       /\ c = [id |-> i.id, kind |-> "enrichment", source |-> i.artifact, start |-> i.start, end |-> i.end]

ValidateAgainstEvidence(r, e) ==
  /\ Valid(r)
  /\ ValidFailureEvidence(e)
  /\ MatchesProvenance(r, e)
  /\ ActionsMatchSubject(r.actions, e)
  /\ \A c \in r.citations : CitationMatches(c, e)
  /\ ReportReferences(r) \subseteq {c.id : c \in r.citations}
=============================================================================
