----------------------------- MODULE Projection ------------------------------
(***************************************************************************)
(* What of the evidence a provider is shown: Prepare of                    *)
(* internal/generation/projection.go, and the validation of the request it *)
(* seals (provider/codec.go).  Items, log contexts and source snapshots    *)
(* are taken class by class, each within the limits of the profile; then   *)
(* redaction notices and deterministic findings are cut down to what was   *)
(* taken, and the whole is validated again from the manifest alone.        *)
(*                                                                         *)
(* The log contexts are any that LogContext may select.  Text is left out, *)
(* except that a diagnostic line has a size, the part it plays in its      *)
(* format, and may hold a control character.                               *)
(* Operators named Bug... are deliberate mistakes no definition uses.      *)
(***************************************************************************)
EXTENDS Integers, SequencesExt, Lists

CONSTANTS
  Evidence,     \* evidence bundles, with the findings of the engine
  Profiles,     \* functions from the classes a profile allows to limits
  MaximumLine,  \* bytes of one diagnostic line (512)
  MaximumLines, \* lines (8)
  MaximumTotal  \* bytes of all of them (2048)

ItemClasses == <<"metadata", "command", "path", "environment_name">>
Classes == ToSet(ItemClasses) \cup {"log_content", "source_content"}

Parts == {"head", "detail", "frame", "cause", "text", "blank"}
Line  == [part : Parts, size : Nat, control : BOOLEAN]

ASSUME ProjectionAssumption ==
  /\ MaximumLine \in Nat /\ MaximumLines \in Nat /\ MaximumTotal \in Nat
  /\ \A e \in Evidence :
       /\ \A i \in e.items :
            i.class \in ToSet(ItemClasses) \cup {"log_content", "local_only"} /\ i.useful \in BOOLEAN /\ i.size \in Nat
       /\ \A l \in e.logs : l.eligible \in BOOLEAN
       /\ \A r \in e.ranges : r.lines \in Seq(Line) /\ \E l \in e.logs : l.id = r.log
       /\ \A s \in e.sources : s.mismatch \in BOOLEAN /\ s.size \in Nat \ {0}
       /\ \A x, y \in e.items \cup e.logs \cup e.ranges \cup e.sources : x.id = y.id => x = y
       /\ e.items \cap (e.logs \cup e.ranges \cup e.sources) = {}
       /\ e.logs \cap (e.ranges \cup e.sources) = {} /\ e.ranges \cap e.sources = {}
       /\ \A m, n \in e.notices : m.code = n.code => m = n
       /\ \A f, g \in e.findings : f.id = g.id => f = g
       /\ IsFiniteSet(e.items) /\ IsFiniteSet(e.logs) /\ IsFiniteSet(e.ranges) /\ IsFiniteSet(e.sources)
  /\ \A p \in Profiles :
       /\ "metadata" \in DOMAIN p /\ DOMAIN p \subseteq Classes
       /\ \A c \in DOMAIN p : p[c] \in [count : Nat, bytes : Nat]

VARIABLES
  evidence,
  profile,
  approved,    \* classes approved for this invocation
  pc,
  class,       \* index of the next class of items
  projection,  \* items, artifacts, enrichment and notices shown
  manifest,    \* what the request says is shown
  candidates,  \* deterministic findings shown
  outcome      \* "none", "prepared", or why Prepare failed

inputs == <<evidence, profile, approved>>
vars == <<evidence, profile, approved, pc, class, projection, manifest, candidates, outcome>>

Ids(S) == {x.id : x \in S}
Bytes(S) == Total([x \in S |-> x.size])

-----------------------------------------------------------------------------
(* The diagnostic lines of a range (selectDiagnosticLines).                *)

Where(lines, part) == {i \in DOMAIN lines : lines[i].part = part}
First(S) == IF S = {} THEN <<>> ELSE <<Min(S)>>

(* A line and the first stack frame that follows it.                       *)
WithFrame(lines, i) == <<i>> \o First({j \in Where(lines, "frame") : j > i})

JvmLines(lines) ==
  LET heads  == Where(lines, "head")
      causes == Ascending(Where(lines, "cause"))
      upto[n \in 0 .. Len(causes)] ==
        IF n # 0 THEN upto[n - 1] \o WithFrame(lines, causes[n])
        ELSE IF heads = {} THEN <<>> ELSE WithFrame(lines, Min(heads))
  IN  upto[Len(causes)]

PythonLines(lines) ==
  LET heads == Where(lines, "head") IN
  Ascending(heads \cup {i \in Where(lines, "detail") : \E h \in heads : h < i})

Selected(format, lines) ==
  CASE format = "jvm_exception" -> JvmLines(lines)
    [] format = "python_traceback" -> PythonLines(lines)
    [] format = "python_syntax" -> Ascending(Where(lines, "head"))
    [] format \in {"go_panic", "compiler_diagnostic"} -> First(Where(lines, "head"))
    [] format = "causal_message" -> First(DOMAIN lines \ Where(lines, "blank"))
    [] OTHER -> <<>>

TotalSize(lines) == Total([k \in DOMAIN lines |-> lines[k].size])

BugCountOnly(kept, l) ==
  IF l.size > MaximumLine \/ Len(kept) >= MaximumLines THEN kept ELSE Append(kept, l)

AppendBounded(kept, l) ==
  IF l.size > MaximumLine \/ Len(kept) >= MaximumLines \/ TotalSize(kept) + l.size > MaximumTotal
  THEN kept ELSE Append(kept, l)

DiagnosticLines(r) ==
  LET at == Selected(r.format, r.lines)
      kept[n \in 0 .. Len(at)] == IF n = 0 THEN <<>> ELSE AppendBounded(kept[n - 1], r.lines[at[n]])
  IN  kept[Len(at)]

-----------------------------------------------------------------------------
(* The steps of Prepare.                                                   *)

Init ==
  /\ evidence \in Evidence
  /\ profile \in Profiles
  /\ approved \in SUBSET DOMAIN profile \ {{}}
  /\ pc = "begin"
  /\ class = 1
  /\ projection = [items |-> {}, artifacts |-> {}, enrichment |-> {}, notices |-> {}]
  /\ manifest = [classes |-> {}, items |-> {}, artifacts |-> {}, enrichment |-> {}, bytes |-> 0]
  /\ candidates = {}
  /\ outcome = "none"

Fail(why) == outcome' = why /\ pc' = "done" /\ UNCHANGED <<class, projection, manifest, candidates>>
Goto(step) == pc' = step /\ UNCHANGED outcome

Begin ==
  /\ pc = "begin"
  /\ IF ~ evidence.matches THEN Fail("evidence")
     ELSE IF "metadata" \notin approved THEN Fail("approval")
     ELSE Goto("items") /\ UNCHANGED <<class, projection, manifest, candidates>>
  /\ UNCHANGED inputs

Allowed(c) == c \in approved /\ c \in DOMAIN profile

Within(S, limits) == Cardinality(S) <= limits.count /\ Bytes(S) <= limits.bytes

(* The items of a class are shown, and listed.                             *)
ShowItems(c, chosen) ==
  /\ projection' = [projection EXCEPT !.items = @ \cup chosen]
  /\ manifest' = [manifest EXCEPT !.items = @ \cup Ids(chosen), !.classes = @ \cup (IF chosen = {} THEN {} ELSE {c})]

(* All useful items of a class, or the call fails.                         *)
ProjectItems ==
  /\ pc = "items" /\ class <= Len(ItemClasses)
  /\ LET c == ItemClasses[class]
         chosen == {i \in evidence.items : i.class = c /\ i.useful}
     IN  IF ~ Allowed(c)
         THEN class' = class + 1 /\ UNCHANGED <<pc, outcome, projection, manifest, candidates>>
         ELSE IF ~ Within(chosen, profile[c]) THEN Fail("limit")
         ELSE class' = class + 1 /\ ShowItems(c, chosen) /\ UNCHANGED <<pc, outcome, candidates>>
  /\ UNCHANGED inputs

ItemsEnd ==
  /\ pc = "items" /\ class > Len(ItemClasses)
  /\ IF "metadata" \notin manifest.classes THEN Fail("no_metadata")
     ELSE Goto("logs") /\ UNCHANGED <<class, projection, manifest, candidates>>
  /\ UNCHANGED inputs

Eligible == {l \in evidence.logs : l.eligible}

ShowContexts(contexts, ranges) ==
  /\ projection' = [projection EXCEPT
       !.artifacts = contexts,
       !.enrichment = {[id |-> r.id, log |-> r.log, lines |-> DiagnosticLines(r)] : r \in ranges}]
  /\ manifest' = [manifest EXCEPT
       !.artifacts = Ids(contexts), !.enrichment = Ids(ranges), !.bytes = Bytes(contexts),
       !.classes = @ \cup (IF contexts = {} THEN {} ELSE {"log_content"})]

(* Contexts of some logs, and ranges that lie within them.                 *)
ShowLogs(limits) ==
  \E logs \in SUBSET Eligible :
    \E size \in [logs -> 1 .. limits.bytes], ranges \in SUBSET {r \in evidence.ranges : r.log \in Ids(logs)} :
      LET contexts == {[id |-> l.id, class |-> "log_content", size |-> size[l]] : l \in logs} IN
      /\ Within(contexts, limits)
      /\ IF logs = {} /\ Eligible # {} THEN Fail("limit")
         ELSE ShowContexts(contexts, ranges) /\ Goto("source") /\ UNCHANGED <<class, candidates>>

(* A class the profile does not allow has no limits to spend.              *)
Limits(c) == IF c \in DOMAIN profile THEN profile[c] ELSE [count |-> 0, bytes |-> 0]

ProjectLogs ==
  /\ pc = "logs"
  /\ IF "log_content" \notin approved \/ evidence.logs = {}
     THEN Goto("source") /\ UNCHANGED <<class, projection, manifest, candidates>>
     ELSE IF ~ evidence.redaction THEN Fail("no_redaction")
     ELSE ShowLogs(Limits("log_content"))
  /\ UNCHANGED inputs

(* Snapshots that contradict the logs are withheld.                        *)
ProjectSource ==
  /\ pc = "source"
  /\ LET chosen == {s \in evidence.sources : ~ s.mismatch}
         shown  == {[id |-> s.id, class |-> "source_content", size |-> s.size] : s \in chosen}
     IN  IF "source_content" \notin approved \/ evidence.sources = {}
         THEN Goto("notices") /\ UNCHANGED <<class, projection, manifest, candidates>>
         ELSE IF "source_content" \notin DOMAIN profile THEN Fail("approval")
         ELSE IF ~ Within(shown, profile["source_content"]) THEN Fail("limit")
         ELSE /\ projection' = [projection EXCEPT !.artifacts = @ \cup shown]
              /\ manifest' = [manifest EXCEPT
                   !.artifacts = @ \cup Ids(shown), !.bytes = @ + Bytes(shown),
                   !.classes = @ \cup (IF shown = {} THEN {} ELSE {"source_content"})]
              /\ Goto("notices")
              /\ UNCHANGED <<class, candidates>>
  /\ UNCHANGED inputs

Listed == manifest.items \cup manifest.artifacts \cup manifest.enrichment

BugItemNotices ==
  {[code |-> n.code, affects |-> n.affects \cap manifest.items] : n \in {m \in evidence.notices : m.affects \cap manifest.items # {}}}

(* Notices about what is shown, naming nothing else.                       *)
Notices ==
  {[code |-> n.code, affects |-> n.affects \cap Listed] : n \in {m \in evidence.notices : m.affects \cap Listed # {}}}

ProjectNotices ==
  /\ pc = "notices"
  /\ projection' = [projection EXCEPT !.notices = Notices]
  /\ Goto("findings")
  /\ UNCHANGED <<inputs, class, manifest, candidates>>

BugWholeFindings ==
  {[id |-> f.id, support |-> f.support, against |-> f.against] :
     f \in {g \in evidence.findings : ~ g.target /\ g.support \cap Listed # {}}}

(* Findings that something shown supports; those derived from a target's   *)
(* log are left to the provider.                                           *)
Candidates ==
  {[id |-> f.id, support |-> f.support \cap Listed, against |-> f.against \cap Listed] :
     f \in {g \in evidence.findings : ~ g.target /\ g.support \cap Listed # {}}}

ProjectDeterministic ==
  /\ pc = "findings"
  /\ IF Candidates = {} THEN Fail("no_candidate")
     ELSE candidates' = Candidates /\ Goto("seal") /\ UNCHANGED <<class, projection, manifest>>
  /\ UNCHANGED inputs

-----------------------------------------------------------------------------
(* The validation of the request (validateRequest).                        *)

ValidLines(lines) ==
  /\ Len(lines) <= MaximumLines
  /\ \A k \in DOMAIN lines : lines[k].size <= MaximumLine /\ lines[k].part # "blank" /\ ~ lines[k].control
  /\ TotalSize(lines) <= MaximumTotal

ValidProjection ==
  LET p == projection  m == manifest IN
  /\ m.classes # {} /\ m.classes \subseteq Classes
  /\ \A i \in p.items : i.class \in ToSet(ItemClasses) \cap m.classes
  /\ \A a \in p.artifacts : a.class \in {"log_content", "source_content"} \cap m.classes /\ a.size > 0
  /\ \A r \in p.enrichment : r.log \in Ids(p.artifacts) /\ "log_content" \in m.classes /\ ValidLines(r.lines)
  /\ Ids(p.items) = m.items /\ Ids(p.artifacts) = m.artifacts /\ Ids(p.enrichment) = m.enrichment
  /\ Cardinality(Listed) = Cardinality(m.items) + Cardinality(m.artifacts) + Cardinality(m.enrichment)
  /\ Bytes(p.artifacts) = m.bytes
  /\ \A n \in p.notices : n.affects # {} /\ n.affects \subseteq Listed
  /\ \A n, o \in p.notices : n.code = o.code => n = o

ValidContext ==
  /\ candidates # {}
  /\ \A f \in candidates : f.support \cup f.against \subseteq Listed
  /\ \A f, g \in candidates : f.id = g.id => f = g

SealRequest ==
  /\ pc = "seal"
  /\ IF ValidProjection /\ ValidContext
     THEN Goto("encode") /\ UNCHANGED <<class, projection, manifest, candidates>>
     ELSE Fail("seal")
  /\ UNCHANGED inputs

(* The encoded request may be larger than the profile allows.              *)
Encode ==
  /\ pc = "encode"
  /\ \E result \in {"prepared", "oversized"} : Fail(result)
  /\ UNCHANGED inputs

Prepare ==
  \/ Begin \/ ProjectItems \/ ItemsEnd \/ ProjectLogs \/ ProjectSource
  \/ ProjectNotices \/ ProjectDeterministic \/ SealRequest \/ Encode

Done == pc = "done" /\ UNCHANGED vars

Next == Prepare \/ Done

Spec == Init /\ [][Next]_vars

-----------------------------------------------------------------------------
TypeOK ==
  /\ evidence \in Evidence /\ profile \in Profiles /\ approved \subseteq DOMAIN profile
  /\ pc \in {"begin", "items", "logs", "source", "notices", "findings", "seal", "encode", "done"}
  /\ class \in 1 .. Len(ItemClasses) + 1
  /\ manifest.classes \subseteq Classes
  /\ outcome \in {"none", "prepared", "evidence", "approval", "limit", "no_metadata", "no_redaction",
                  "no_candidate", "seal", "oversized"}

(* Everything the provider may learn of, at every step: items, contexts    *)
(* and snapshots of approved classes and within the limits of each,        *)
(* diagnostic ranges of contexts shown, and neither notice nor finding     *)
(* that names something else (projection.go:166-313, 495-529).             *)
Shown == Ids(projection.items) \cup Ids(projection.artifacts) \cup Ids(projection.enrichment)
OfClass(c) == {x \in projection.items \cup projection.artifacts : x.class = c}

DisclosesOnlyApproved ==
  /\ \A x \in projection.items \cup projection.artifacts :
       Allowed(x.class) /\ x.class # "local_only" /\ Within(OfClass(x.class), profile[x.class])
  /\ \A r \in projection.enrichment : \E a \in projection.artifacts : a.id = r.log /\ a.class = "log_content"
  /\ \A n \in projection.notices : n.affects \subseteq Shown
  /\ \A f \in candidates : f.support \cup f.against \subseteq Shown

(* A request is never cut down silently: it shows every useful item of the *)
(* approved classes, every snapshot the logs do not contradict, some log   *)
(* where logs were approved, and says of all it shows what was redacted    *)
(* (docs/ARCHITECTURE.md:118-121).                                         *)
NothingIsWithheld ==
  outcome = "prepared" =>
    /\ \A i \in evidence.items : i.useful /\ Allowed(i.class) /\ i.class # "log_content" => i.id \in Shown
    /\ Allowed("source_content") => \A s \in evidence.sources : s.mismatch \/ s.id \in Shown
    /\ Allowed("log_content") => \A l \in evidence.logs : l.eligible => OfClass("log_content") # {}
    /\ \A n \in evidence.notices : \A id \in n.affects \cap Shown :
         \E m \in projection.notices : m.code = n.code /\ id \in m.affects

(* The program's own validation accepts every projection it makes of       *)
(* evidence without control characters in its diagnostics.                 *)
Printable == \A r \in evidence.ranges : \A k \in DOMAIN r.lines : ~ r.lines[k].control
SealAccepts == Printable => outcome # "seal"

(* "Causal-message selection exposes short exact lines"                    *)
(* (docs/GENERATION_PROTOCOL.md:64-66): a line that a log happens to hold  *)
(* does not cost the request.                                              *)
LinesAreExposed == outcome # "seal"

=============================================================================
