----------------------------- MODULE LogContext ------------------------------
(***************************************************************************)
(* Which parts of which logs a provider is shown (selectLogContexts of     *)
(* internal/generation/causal_context.go): candidates are ranked by the    *)
(* diagnostic found in them, share one budget of bytes, and are cut to     *)
(* whole lines around their diagnostic.  A part is counted after invalid   *)
(* UTF-8 has been replaced.                                                *)
(*                                                                         *)
(* Operators named Bug... are deliberate mistakes no definition uses.      *)
(***************************************************************************)
EXTENDS LogArtifacts, Lists

VARIABLES
  artifacts,   \* the artifacts of the evidence
  limits,
  step,          \* "rank", "next", "fit" or "done"
  waiting,     \* candidates not looked at yet
  remaining,   \* bytes left
  chosen,      \* the candidate being fitted
  allowance,   \* bytes it may take
  budget,      \* bytes the next attempt selects
  attempts,
  result       \* contexts selected, as validated and disclosed

selectVars == <<artifacts, limits, step, waiting, remaining, chosen, allowance, budget, attempts, result>>

Larger(a, b)  == IF a > b THEN a ELSE b
Smaller(a, b) == IF a < b THEN a ELSE b

-----------------------------------------------------------------------------
(* Lines of a log.                                                         *)

NextLineStart(data, offset) ==
  LET breaks == {i \in Newlines(data) : i >= offset} IN
  IF offset > 0 /\ breaks # {} /\ Min(breaks) + 1 < Len(data) THEN Min(breaks) + 1 ELSE offset

PreviousLineEnd(data, offset) ==
  LET breaks == {i \in Newlines(data) : i < offset} IN
  IF offset < Len(data) /\ breaks # {} THEN Max(breaks) + 1 ELSE offset

LineAt(data, offset) == Cardinality({i \in Newlines(data) : i < offset}) + 1

BugLastLine(data, end) == LineAt(data, end)

(* The line of the last byte before an end.                                *)
LastLine(data, end) == LineAt(data, end - 1)

LineCount(data) ==
  Cardinality(Newlines(data)) + (IF Last(data) = "nl" THEN 0 ELSE 1)

(* Whether a byte of data[start, end) belongs to a valid character there.  *)
Valid(data, start, end, i) ==
  \/ data[i + 1] \in {"x", "nl"}
  \/ data[i + 1] = "lead" /\ i + 1 < end /\ data[i + 2] = "cont"
  \/ data[i + 1] = "cont" /\ i > start /\ data[i] = "lead"

(* Size of data[start, end) once each run of invalid bytes has become the  *)
(* replacement character, of three bytes.                                  *)
ContentSize(data, start, end) ==
  LET valid == {i \in start .. end - 1 : Valid(data, start, end, i)}
      runs  == {i \in (start .. end - 1) \ valid : i = start \/ i - 1 \in valid}
  IN  Cardinality(valid) + 3 * Cardinality(runs)

-----------------------------------------------------------------------------
(* The range of a log to select.                                           *)

NoItem == [start |-> 0, end |-> 0, score |-> 0]

(* What must be in the range: the anchor, or the last byte.                *)
Kernel(data, anchor) ==
  IF anchor = NoItem THEN [start |-> Len(data) - 1, end |-> Len(data)]
                     ELSE [start |-> anchor.start, end |-> anchor.end]

(* Two thirds of the bytes before the kernel, as far as its end allows.    *)
Centered(data, k, bytes) ==
  LET from == Larger(0, k.start - (bytes * 2) \div 3)
      to   == Smaller(Len(data), from + bytes)
  IN  IF to < k.end THEN [start |-> Larger(0, k.end - bytes), end |-> k.end]
                    ELSE [start |-> from, end |-> to]

WholeLines(data, r) == [start |-> NextLineStart(data, r.start), end |-> PreviousLineEnd(data, r.end)]

Covers(r, k) == r.start < r.end /\ r.start <= k.start /\ k.end <= r.end

BugKeepHead(data, anchor, bytes) ==
  LET k     == Kernel(data, anchor)
      lines == WholeLines(data, Centered(data, k, bytes))
  IN  IF bytes = 0 THEN [start |-> 0, end |-> 0]
      ELSE IF Len(data) <= bytes THEN [start |-> 0, end |-> Len(data)]
      ELSE IF k.end - k.start >= bytes THEN [start |-> k.start, end |-> k.start + bytes]
      ELSE lines

SelectedRange(data, anchor, bytes) ==
  LET k     == Kernel(data, anchor)
      lines == WholeLines(data, Centered(data, k, bytes))
  IN  IF bytes = 0 THEN [start |-> 0, end |-> 0]
      ELSE IF Len(data) <= bytes THEN [start |-> 0, end |-> Len(data)]
      ELSE IF k.end - k.start >= bytes
           THEN [start |-> NextLineStart(data, k.end - bytes), end |-> k.end]
      ELSE IF Covers(lines, k) THEN lines
      ELSE [start |-> Larger(0, k.end - bytes), end |-> k.end]

-----------------------------------------------------------------------------
(* LogCandidates and their order.                                             *)

Items(a) == {i \in a.items : i.start < i.end /\ i.end <= Len(a.data)}

Stronger(i, j) ==
  \/ i.score > j.score
  \/ i.score = j.score /\ i.end > j.end
  \/ i.score = j.score /\ i.end = j.end /\ i.start <= j.start

Anchor(a) ==
  IF Items(a) = {} THEN NoItem ELSE CHOOSE i \in Items(a) : \A j \in Items(a) : Stronger(i, j)

LogCandidates == {a \in artifacts : a.disclosed /\ a.data # <<>>}

Before(a, b) ==
  LET s == Anchor(a).score  t == Anchor(b).score IN
  \/ s > t
  \/ s = t /\ a.run > b.run
  \/ s = t /\ a.run = b.run /\ a.stream = "stderr" /\ b.stream # "stderr"
  \/ s = t /\ a.run = b.run /\ a.stream = b.stream /\ a.id < b.id

(* Logs without a diagnostic count only when no log has one.               *)
Causal ==
  LET anchored == {a \in LogCandidates : Anchor(a) # NoItem} IN
  IF anchored = {} THEN LogCandidates ELSE anchored

Strongest(candidates, n) ==
  {a \in candidates : Cardinality({b \in candidates : Before(b, a)}) < n}

-----------------------------------------------------------------------------
(* What is disclosed of a log.                                             *)

(* The place of a diagnostic in the content selected.                      *)
Rebased(data, r, item) ==
  [start |-> ContentSize(data, r.start, item.start), end |-> ContentSize(data, r.start, item.end)]

Inside(r, item) == r.start <= item.start /\ item.end <= r.end

Context(a, r) ==
  LET data == a.data
      anchor == Anchor(a)
  IN  [id |-> a.id,
       selection |-> IF anchor = NoItem THEN "tail" ELSE "causal_context",
       anchorLine |-> LastLine(data, IF anchor = NoItem THEN r.end ELSE Smaller(r.end, anchor.end)),
       startLine |-> LineAt(data, r.start), endLine |-> LastLine(data, r.end),
       totalLines |-> LineCount(data),
       byteStart |-> r.start, byteEnd |-> r.end, fileBytes |-> Len(data),
       truncated |-> r.start # 0 \/ r.end # Len(data),
       contentBytes |-> ContentSize(data, r.start, r.end),
       enrichment |-> {Rebased(data, r, i) : i \in {j \in Items(a) : Inside(r, j)}}]

-----------------------------------------------------------------------------
(* The selection.                                                          *)

NoArtifact == [id |-> 0, data |-> <<>>, items |-> {}]

SelectInit ==
  /\ artifacts \in Bundles
  /\ limits \in ProfileLimits
  /\ step = "rank"
  /\ waiting = {}
  /\ remaining = 0
  /\ chosen = NoArtifact
  /\ allowance = 0
  /\ budget = 0
  /\ attempts = 0
  /\ result = <<>>

Rank ==
  /\ step = "rank"
  /\ IF limits.artifacts = 0 \/ limits.bytes = 0
     THEN step' = "done" /\ UNCHANGED <<waiting, remaining>>
     ELSE /\ waiting' = Strongest(Causal, limits.artifacts)
          /\ remaining' = limits.bytes
          /\ step' = "next"
  /\ UNCHANGED <<artifacts, limits, chosen, allowance, budget, attempts, result>>

(* An equal share of the rest, but no less than is useful.                 *)
Share ==
  LET equal == remaining \div Cardinality(waiting) IN
  IF equal < MinimumUseful /\ remaining >= MinimumUseful THEN MinimumUseful ELSE equal

Take ==
  /\ step = "next"
  /\ IF waiting = {} \/ remaining = 0
     THEN step' = "done" /\ UNCHANGED <<waiting, chosen, allowance, budget, attempts>>
     ELSE \E a \in waiting :
            /\ \A b \in waiting \ {a} : Before(a, b)
            /\ chosen' = a
            /\ waiting' = waiting \ {a}
            /\ allowance' = Smaller(Share, remaining)
            /\ budget' = allowance'
            /\ attempts' = 1
            /\ step' = "fit"
  /\ UNCHANGED <<artifacts, limits, remaining, result>>

Shrunk(excess) == IF excess >= budget THEN Larger(1, budget \div 2) ELSE budget - excess

BugForgetSpent(r) ==
  /\ result' = Append(result, Context(chosen, r))
  /\ UNCHANGED remaining

Accept(r) ==
  /\ result' = Append(result, Context(chosen, r))
  /\ remaining' = remaining - ContentSize(chosen.data, r.start, r.end)

(* One attempt; after the fourth, or with nothing to select, the candidate *)
(* is passed over.                                                         *)
Fit ==
  /\ step = "fit"
  /\ LET r == SelectedRange(chosen.data, Anchor(chosen), budget)
         size == ContentSize(chosen.data, r.start, r.end)
     IN  \/ /\ r.start >= r.end \/ (size > allowance /\ attempts = 4)
            /\ step' = "next"
            /\ UNCHANGED <<remaining, budget, attempts, result>>
         \/ /\ r.start < r.end /\ size <= allowance
            /\ Accept(r)
            /\ step' = "next"
            /\ UNCHANGED <<budget, attempts>>
         \/ /\ r.start < r.end /\ size > allowance /\ attempts < 4
            /\ budget' = Shrunk(size - allowance)
            /\ attempts' = attempts + 1
            /\ UNCHANGED <<step, remaining, result>>
  /\ UNCHANGED <<artifacts, limits, waiting, chosen, allowance>>

SelectDone == step = "done" /\ UNCHANGED selectVars

SelectNext == Rank \/ Take \/ Fit \/ SelectDone

SelectSpec == SelectInit /\ [][SelectNext]_selectVars

-----------------------------------------------------------------------------
ContextType ==
  [id : Nat, selection : {"tail", "causal_context"}, anchorLine : Nat, startLine : Nat, endLine : Nat,
   totalLines : Nat, byteStart : Nat, byteEnd : Nat, fileBytes : Nat, truncated : BOOLEAN,
   contentBytes : Nat, enrichment : SUBSET [start : Nat, end : Nat]]

SelectTypeOK ==
  /\ artifacts \subseteq ArtifactType /\ limits \in [artifacts : Nat, bytes : Nat]
  /\ step \in {"rank", "next", "fit", "done"}
  /\ waiting \subseteq LogCandidates
  /\ step = "fit" => chosen \in LogCandidates
  /\ remaining \in 0 .. limits.bytes /\ allowance \in 0 .. limits.bytes
  /\ step = "fit" => allowance \in 0 .. remaining /\ budget \in 0 .. allowance
  /\ attempts \in 0 .. 4
  /\ result \in Seq(ContextType)

(* validProjectedLog of provider/codec.go:538-566.                         *)
ValidProjectedLog(c) ==
  /\ c.contentBytes # 0 /\ c.fileBytes # 0
  /\ c.byteStart < c.byteEnd /\ c.byteEnd <= c.fileBytes
  /\ c.truncated \/ (c.byteStart = 0 /\ c.byteEnd = c.fileBytes)
  /\ 0 < c.startLine /\ c.startLine <= c.endLine /\ c.endLine <= c.totalLines
  /\ c.startLine <= c.anchorLine /\ c.anchorLine <= c.endLine
  /\ c.selection = "tail" => /\ c.endLine = c.totalLines /\ c.anchorLine = c.endLine
                             /\ c.byteEnd = c.fileBytes

Contexts == {result[k] : k \in DOMAIN result}

(* The program's own validation accepts every context it selects, so that  *)
(* no request is lost to its line numbers or offsets.                      *)
ContextsAreValid == \A c \in Contexts : ValidProjectedLog(c)

(* The contexts keep to the limits of the profile, whatever replacing      *)
(* invalid text adds to them, and each log is shown once.                  *)
WithinLimits ==
  /\ Total([k \in DOMAIN result |-> result[k].contentBytes]) <= limits.bytes
  /\ Len(result) <= limits.artifacts
  /\ \A k, l \in DOMAIN result : k # l => result[k].id # result[l].id

Source(c) == CHOOSE a \in artifacts : a.id = c.id

(* The end of a diagnostic "is guaranteed to remain in the window"         *)
(* (causal_context.go:182-185) of every context selected for it.           *)
AnchorInWindow ==
  \A c \in Contexts : c.selection = "causal_context" =>
    LET anchor == Anchor(Source(c)) IN c.byteStart < anchor.end /\ anchor.end <= c.byteEnd

(* A rebased diagnostic covers its own text in the content, no more and no *)
(* less (docs/GENERATION_PROTOCOL.md:56-58), and one of whole lines lies   *)
(* in it, as the validation of the request demands                         *)
(* (provider/codec.go:466-478).                                            *)
RangesAreRebased ==
  \A c \in Contexts :
    LET data == Source(c).data
        shown == {i \in Items(Source(c)) : c.byteStart <= i.start /\ i.end <= c.byteEnd}
    IN  \A i \in shown : \E e \in c.enrichment :
          /\ e.start < e.end /\ (i.end \in LineEnds(data) => e.end <= c.contentBytes)
          /\ e.start = ContentSize(data, c.byteStart, i.start)
          /\ e.end - e.start = ContentSize(data, i.start, i.end)

(* What is selected is what may be shown, no more and no less: the limits  *)
(* hold across all contexts and every diagnostic lies where its text does. *)
SelectionIsExact == WithinLimits /\ RangesAreRebased

(* Ranges larger than the context keep their end in it                     *)
(* (causal_context.go:182-185): where a log has a diagnostic, the          *)
(* selection is not empty.                                                 *)
DiagnosticIsKept ==
  step = "done" /\ limits.artifacts > 0 /\ limits.bytes > 0 /\ (\E a \in LogCandidates : Anchor(a) # NoItem)
    => result # <<>>

=============================================================================
