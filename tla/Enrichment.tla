----------------------------- MODULE Enrichment ------------------------------
(***************************************************************************)
(* Recognition of structured output in collected logs: structuredRanges    *)
(* and its helpers in internal/enrichment/collector.go.                    *)
(*                                                                         *)
(* A log is a sequence of lines.  What the byte matching finds in a line   *)
(* is part of the line: "is" names the structure it opens or continues,    *)
(* "says" the causal message in it.  Offsets are line numbers, which keep  *)
(* the order of byte offsets.                                              *)
(***************************************************************************)
EXTENDS Naturals, Integers, SequencesExt, Lists

CONSTANTS
  MaximumMessages,  \* 4: ranges of one kind that one log may give
  MaximumStructure, \* 8: where compiler diagnostics stop
  MaximumRanges,    \* 12: where causal messages stop
  MaximumItems,     \* 32: items of one bundle
  MaximumLines      \* 256: lines of one range

ASSUME EnrichmentAssumption ==
  {MaximumMessages, MaximumStructure, MaximumRanges, MaximumItems, MaximumLines} \subseteq Nat

Silent == "none"  \* ClassifyDiagnostic found no signature

AtMost(n, s) == SubSeq(s, 1, IF Len(s) < n THEN Len(s) ELSE n)

(* The scan of a log stops after so many lines.                            *)
SplitLines(data) == AtMost(4 * MaximumLines, data)

(* The numbers of the lines of one kind, in order.                         *)
Lines(log, kind) == Filtered([i \in DOMAIN log |-> i], LAMBDA i : log[i].is = kind)

ClassifyDiagnostic(line) == line.says

(* A range goes on to the first blank line that does not follow its first. *)
(* Its bound in bytes is left out.                                         *)
BoundedEnd(log, start) ==
  CHOOSE end \in start .. Len(log) :
    LET goesOn(last) == /\ last - start <= MaximumLines - 1
                        /\ \A i \in start + 2 .. last : log[i].is # "blank"
    IN goesOn(end) /\ (end < Len(log) => ~ goesOn(end + 1))

Span(start, end, code, format) == [start |-> start, end |-> end, code |-> code, format |-> format]

Blocks(log, lines, code, format) ==
  [i \in DOMAIN lines |-> Span(lines[i], BoundedEnd(log, lines[i]), code, format)]

PythonTracebacks(log) ==
  Blocks(log, AtMost(MaximumMessages, Lines(log, "python")), "python", "python_traceback")

GoPanic(log) == Blocks(log, AtMost(1, Lines(log, "panic")), "go_panic", "go_panic")

JvmException(log) ==
  LET framed(i) == \E j \in i + 1 .. i + 7 : j \in DOMAIN log /\ log[j].is = "frame" IN
  Blocks(log, AtMost(1, Filtered(Lines(log, "exception"), framed)), "jvm", "jvm_exception")

PythonSyntaxDiagnostics(log) ==
  LET lines == AtMost(MaximumMessages, Lines(log, "syntax"))
      start(i) == IF i > 3 THEN i - 3 ELSE 1
  IN [n \in DOMAIN lines |-> Span(start(lines[n]), lines[n], "compiler", "python_syntax")]

CompilerDiagnostics(log) ==
  LET lines == AtMost(MaximumMessages, Lines(log, "compiler")) IN
  [n \in DOMAIN lines |-> Span(lines[n], lines[n], "compiler", "compiler_diagnostic")]

Messages(log) == Filtered([i \in DOMAIN log |-> i], LAMBDA i : ClassifyDiagnostic(log[i]) # Silent)

(* The first messages of the log, not the last.                            *)
CausalMessages(log) ==
  LET lines == AtMost(MaximumMessages, Messages(log)) IN
  [n \in DOMAIN lines |-> Span(lines[n], lines[n], "causal", ClassifyDiagnostic(log[lines[n]]))]

(* The loops stop when the limit is met exactly: a list that is already    *)
(* longer takes everything.                                                *)
Fill(ranges, more, limit) ==
  ranges \o (IF Len(ranges) < limit THEN AtMost(limit - Len(ranges), more) ELSE more)

CodeRank == [compiler |-> 1, causal |-> 2, go_panic |-> 3, jvm |-> 4, python |-> 5]

(* By place, then by code.  The sort of the code is not stable: ranges that *)
(* tie are two compiler diagnostics of one place, listed here as found.    *)
StructuredRanges(data) ==
  LET log    == SplitLines(data)
      blocks == PythonTracebacks(log) \o GoPanic(log) \o JvmException(log) \o PythonSyntaxDiagnostics(log)
      found  == Fill(Fill(blocks, CompilerDiagnostics(log), MaximumStructure),
                     CausalMessages(log), MaximumRanges)
      before(i, j) == \/ found[i].start < found[j].start
                      \/ /\ found[i].start = found[j].start
                         /\ \/ CodeRank[found[i].code] < CodeRank[found[j].code]
                            \/ found[i].code = found[j].code /\ i < j
      place(i) == Cardinality({j \in DOMAIN found : before(j, i)}) + 1
  IN [n \in DOMAIN found |-> found[CHOOSE i \in DOMAIN found : place(i) = n]]

(* The items Collect adds for one artifact to those it already has.        *)
WithArtifact(items, artifact) ==
  LET ranges == AtMost(MaximumItems - Len(items), StructuredRanges(artifact.log)) IN
  items \o [n \in DOMAIN ranges |->
              [id |-> <<"analysis", Len(items) + n, 0>>, artifact |-> artifact.id,
               code |-> ranges[n].code, format |-> ranges[n].format,
               start |-> ranges[n].start, end |-> ranges[n].end]]
=============================================================================
