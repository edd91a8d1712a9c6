------------------------------- MODULE MCEngine -------------------------------
(***************************************************************************)
(* Evidence for the deterministic diagnosis, in families: each varies what *)
(* interacts and fixes the rest.  Items are listed job first, then by run, *)
(* the order of their IDs.                                                 *)
(***************************************************************************)
EXTENDS Engine

Item(code, where, n, value) == <<[id |-> <<code, where, n>>, code |-> code, at |-> where, ok |-> TRUE, value |-> value]>>
Undecodable(code, where)    == <<[id |-> <<code, where, 1>>, code |-> code, at |-> where, ok |-> FALSE, value |-> ""]>>

(* No item for Absent, one that does not decode for "bad".                 *)
Absent == "absent"
Maybe(code, where, value) ==
  IF value = Absent THEN <<>> ELSE IF value = "bad" THEN Undecodable(code, where) ELSE Item(code, where, 1, value)

Log(run, n, lines) == [id |-> <<"log", run, n>>, run |-> run, log |-> lines]

Bundle(runs, items) ==
  [sealed |-> TRUE, shared |-> FALSE, phase |-> "completed", outcome |-> "failure", runs |-> runs,
   items |-> items, artifacts |-> <<>>, enrichment |-> <<>>, omissions |-> {}, active |-> FALSE,
   snapshot |-> "complete", source |-> "none"]

Base == Item("JobPhase", Job, 1, "completed")

-----------------------------------------------------------------------------
(* What the core recorded about up to two runs.                            *)

SomeClasses == {Absent, "bad", "nonzero_exit", "signal_termination", "job_timeout", "unheard_of"}

Facts(runs, job, class, command, exit) ==
  Maybe("FailureClass", Job, job) \o Base \o Maybe("JobOutcome", Job, "failure")
    \o Maybe("TargetCommand", Job, command)
    \o FlattenSeq([n \in DOMAIN runs |-> Maybe("FailureClass", runs[n], class[n])
                                           \o Maybe("RunExitCode", runs[n], exit)])

Structured ==
  {[Bundle(runs, Facts(runs, job, class, command, exit)) EXCEPT !.outcome = outcome] :
     runs \in {<<>>, <<1, 2>>, <<1, 2, 3>>}, job \in {Absent, "submission_failed"},
     class \in {<<a, b, b>> : a, b \in SomeClasses},
     command \in {Absent, "false"}, exit \in {Absent, "0", "1"}, outcome \in {"failure", "success"}}

(* Two classes that both recur: which one is reported is not determined.   *)
Recurrent ==
  {Bundle(<<1, 2, 3, 4>>, Base \o FlattenSeq([n \in 1 .. 4 |-> Item("FailureClass", n, 1, class[n])])) :
     class \in [1 .. 4 -> {"nonzero_exit", "job_timeout"}]}

-----------------------------------------------------------------------------
(* Logs.                                                                   *)

Text(says) == [is |-> "text", says |-> says]
Mark(is)   == [is |-> is, says |-> Silent]

Messages4 == {Text(Silent), Text("connection_refused"), Text("storage_exhausted"), Text("missing_file")}
Marks     == {Mark(m) : m \in {"blank", "python", "panic", "exception", "frame", "syntax", "compiler"}}
Upto(n, S) == UNION {[1 .. k -> S] : k \in 0 .. n}

(* With MaximumLines = 3 the scan ends one line before the message.        *)
BeyondScan == [n \in 1 .. 13 |-> Text(IF n = 13 THEN "connection_refused" ELSE Silent)]

OneLog ==
  {[Bundle(<<2>>, Base \o Maybe("FailureClass", 2, class)) EXCEPT !.artifacts = <<Log(2, 1, lines)>>] :
     lines \in Upto(2, Messages4 \cup Marks) \cup Upto(4, Messages4) \cup Upto(3, Marks \ {Mark("panic"), Mark("frame")})
               \cup {<<m, m, m, m>> : m \in Marks} \cup {BeyondScan},
     class \in {Absent, "signal_termination"}}

TwoLogs ==
  {[Bundle(<<1, 2>>, Base \o Maybe("FailureClass", 1, IF shared THEN Absent ELSE "nonzero_exit")) EXCEPT
      !.artifacts = <<Log(1, 1, one), Log(2, 1, two)>>, !.shared = shared] :
     one, two \in Upto(2, (Messages4 \ {Text("storage_exhausted")}) \cup {Mark("python")}), shared \in BOOLEAN}

(* One diagnosis twice in a log, and five messages in a log.               *)
Contested ==
  {[Bundle(<<1>>, Base) EXCEPT !.artifacts = <<Log(1, 1, [n \in DOMAIN says |-> Text(says[n])])>>] :
     says \in {<<"connection_refused", "connection_refused">>,
              <<"connection_refused", "missing_file", "storage_exhausted", "rate_limited", "permission_denied">>}}

(* A job that succeeded, with a message in its log or a failed notifier.   *)
Succeeded ==
  {[Bundle(<<1>>, Base \o Maybe("JobOutcome", Job, "success") \o Maybe("NotificationStatus", Job, notified))
      EXCEPT !.outcome = "success", !.artifacts = <<Log(1, 1, <<line>>)>>] :
     notified \in {Absent, "failed"}, line \in {Text(Silent), Text("connection_refused")}}

(* Enrichment sealed by another version: causal ranges without a format,   *)
(* and ranges that evidence may not have.                                  *)
Ranged(n, artifact, code, format, start, end) ==
  <<[id |-> <<"analysis", n, 0>>, artifact |-> artifact, code |-> code, format |-> format,
     start |-> start, end |-> end]>>

Sealed ==
  {[Bundle(<<1>>, Base \o Item("analysis", 0, 0, "")) EXCEPT
      !.artifacts = <<Log(1, 1, <<Text("connection_refused"), Text("missing_file")>>)>>,
      !.sealed = sealed, !.source = source,
      !.enrichment = Ranged(1, <<"log", 1, 1>>, "causal", format, start, start) \o Ranged(n, <<"log", 1, k>>, "causal", format, 2, end)] :
     sealed \in BOOLEAN, format \in {"causal_message", "obsolete", "dns_resolution_failed"}, start \in {1, 2},
     source \in {"none", "match", "mismatch"},
     n \in 0 .. 2, k \in {1, 2}, end \in 1 .. 3}

-----------------------------------------------------------------------------
(* History, policy and limitations.                                        *)

Similar(results) == FlattenSeq([n \in DOMAIN results |-> Item("SimilarFailure", Elsewhere, n, results[n])])

Histories == {<<>>, Undecodable("SimilarFailure", Elsewhere), Similar(<<"recurred">>), Similar(<<"recovered">>),
              Similar(<<"recurred", "recurred">>), Similar(<<"recovered", "recurred">>)}

Policy(runs, failures) == Item("ExecutionPolicy", Job, 1, [runs |-> runs, failures |-> failures])

Unread == <<[Policy(0, 0)[1] EXCEPT !.ok = FALSE]>>

Advised ==
  {[Bundle(<<1>>, Base \o policy \o Maybe("NextRunAt", Job, next) \o Item("RunCount", Job, 1, 2)
                    \o Item("FailureCount", Job, 1, 2) \o Maybe("LogRecordingHealth", Job, side[1])
                    \o Maybe("NotificationStatus", Job, side[2]) \o Maybe("FailureFingerprint", Job, side[3])
                    \o Item("FailureClass", 1, 1, ended[1]) \o history)
      EXCEPT !.phase = phase, !.outcome = ended[2]] :
     policy \in {<<>>, Unread, Policy(2, 0), Policy(0, 3), Policy(0, 2)}, next \in {Absent, "bad", "later"},
     side \in {<<Absent, Absent, Absent>>, <<"degraded", "failed", "keyed">>, <<Absent, "failed", "bad">>},
     ended \in {<<"nonzero_exit", "failure">>, <<"ownership_lost", "failure">>, <<"", "success">>},
     history \in Histories, phase \in {"completed", "waiting", "running"}}

Codes12 ==
  {"command_not_requested", "command_limit_exceeded", "paths_not_requested", "environment_names_not_requested",
   "system_not_requested", "system_unavailable", "log_content_not_requested", "logs_pruned",
   "resource_unsupported", "resource_unavailable", "similar_not_requested", "similar_unavailable",
   "similar_partially_indexed", "similar_truncated"}

Limited ==
  {[Bundle(<<1>>, Base \o Maybe("TargetCommand", Job, "false") \o Item("FailureClass", 1, 1, "nonzero_exit")
                    \o Maybe("RunExitCode", 1, exit))
      EXCEPT !.omissions = omitted, !.active = active, !.snapshot = snapshot, !.source = source] :
     omitted \in {{a, b} : a, b \in Codes12} \ {{"similar_not_requested", "similar_unavailable"}},
     active \in BOOLEAN, snapshot \in {"complete", "mixed"}, source \in {"none", "mismatch"}, exit \in {Absent, "1"}}

-----------------------------------------------------------------------------
(* Shared jobs.                                                            *)

Observed(run, outcome, exit, signal) ==
  Maybe("RunOutcome", run, outcome) \o Maybe("RunExitCode", run, exit) \o Maybe("RunExitSignal", run, signal)

Shared ==
  {[Bundle(runs, Base \o Maybe("JobOutcome", Job, job) \o Maybe("SharedConfidence", Job, confidence)
                   \o Maybe("SharedDependency", Job, dependency)
                   \o (IF runs = <<>> THEN <<>>
                       ELSE Observed(1, earlier1, "1", "KILL") \o Maybe("SharedScheduler", 1, "pending")
                              \o Maybe("LogRecordingHealth", 1, "degraded")
                              \o (IF Len(runs) = 1 THEN <<>> ELSE Observed(2, later, exit, signal))))
      EXCEPT !.shared = TRUE, !.source = source,
             !.artifacts = IF logs THEN <<Log(1, 1, <<Text("storage_exhausted")>>), Log(2, 1, <<Text("missing_file")>>)>>
                           ELSE <<>>] :
     runs \in {<<>>, <<1>>, <<1, 2>>}, job \in {Absent, "bad", "cancelled", "success"},
     confidence \in {Absent, "stale"}, dependency \in {Absent, "unsatisfied"},
     earlier1 \in {"timed_out", "success"}, later \in {Absent, "failure", "success", "lost"},
     exit \in {Absent, "0", "1"}, signal \in {Absent, ""}, source \in {"none", "match"}, logs \in BOOLEAN}

-----------------------------------------------------------------------------
MCBundles  == Structured \cup OneLog \cup TwoLogs \cup Advised \cup Limited \cup Shared
Unsealed   == [Bundle(<<1>>, Base) EXCEPT !.sealed = FALSE]
MCWrappers == {Unsealed} \cup Sealed \cup {b \in OneLog : Len(b.artifacts[1].log) < 3}

MCNothing == {}
===============================================================================
